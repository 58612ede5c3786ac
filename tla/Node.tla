-------------------------------- MODULE Node --------------------------------
(***************************************************************************)
(* One running node: its blockchain object, its data file and the handlers *)
(* that act on them.  Node.js runs one callback at a time and none of      *)
(* these handlers awaits anything, so each handler is one atomic action.   *)
(*                                                                         *)
(* A handler that refuses its input changes nothing, so an action is       *)
(* enabled only where its handler changes something.  The rest of the      *)
(* network is the environment: any message from the input sets may arrive  *)
(* at any time, any number of times and in any order.  A crash inside a    *)
(* handler, before the rename that ends saveSnapshot, leaves the old file  *)
(* and is the crash before that handler, since nothing is sent earlier.    *)
(***************************************************************************)
EXTENDS Blockchain

CONSTANTS
  MyKey,        \* this node's validator key; not in ValidatorKey if it has none
  TxInput,      \* transactions that clients and peers may send
  BlockInput,   \* blocks that peers may announce
  ChainInput,   \* chains that peers may answer a CHAIN_REQUEST with
  DiskMayFail,  \* whether a save can fail
  MaxTime       \* bound: the clock stops here

VARIABLES
  bc,      \* the Blockchain object
  disk,    \* the data file: a snapshot, or NoSnapshot
  now,     \* the wall clock (Date.now)
  signed   \* history: <<slot, hash>> of every block this node published

vars == <<bc, disk, now, signed>>

ASSUME NodeAssumption ==
  /\ \A b \in BlockInput : IsBlock(b)
  /\ \A c \in ChainInput : IsChain(c)
  /\ DiskMayFail \in BOOLEAN
  /\ MaxTime \in Nat

Init ==
  /\ bc = NewBlockchain
  /\ disk = NoSnapshot
  /\ now = 0
  /\ signed = {}

\* persist: the file is replaced; an error while saving is caught and logged,
\* and the node goes on with the old file on disk.
Persist(newBc) ==
  \/ disk' = Snapshot(newBc)
  \/ DiskMayFail /\ disk' = disk

-----------------------------------------------------------------------------
(* Handlers                                                                *)

\* Wall-clock time passes.
Tick ==
  /\ now < MaxTime
  /\ now' = now + 1
  /\ UNCHANGED <<bc, disk, signed>>

\* Mutant: addTransaction returns without saving.
SubmitTransactionUnsaved(tx) ==
  /\ CanAddTransaction(bc, tx)
  /\ bc' = AddTransaction(bc, tx, now)
  /\ UNCHANGED <<disk, now, signed>>

\* The API's submitTransaction, or NEW_TRANSACTION from a peer.
SubmitTransaction(tx) ==
  /\ CanAddTransaction(bc, tx)
  /\ bc' = AddTransaction(bc, tx, now)
  /\ Persist(bc')
  /\ UNCHANGED <<now, signed>>

\* NEW_BLOCK from a peer.
ReceiveBlock(b) ==
  /\ CanAddBlock(bc, b, now)
  /\ bc' = AddBlock(bc, b, now)
  /\ Persist(bc')
  /\ UNCHANGED <<now, signed>>

\* CHAIN_RESPONSE from a peer.
ReceiveChain(c) ==
  /\ CanReplaceChain(bc, c, now)
  /\ bc' = ReplaceChain(bc, c, now)
  /\ Persist(bc')
  /\ UNCHANGED <<now, signed>>

\* The mempool timer; it saves only if it removed something.
SweepMempool ==
  /\ bc' = PruneMempool(bc, now)
  /\ bc'.pendingTransactions # bc.pendingTransactions
  /\ Persist(bc')
  /\ UNCHANGED <<now, signed>>

\* The auto-propose timer, or the API's propose: add locally, then publish.
Propose ==
  \E b \in Proposals(bc, MyKey, now) :
    /\ CanAddBlock(bc, b, now)
    /\ bc' = AddBlock(bc, b, now)
    /\ Persist(bc')
    /\ signed' = signed \cup {<<GetSlot(now), b.hash>>}
    /\ UNCHANGED now

\* The process stops, or is killed, and starts again from its data file.
Restart ==
  /\ bc' = Restore(disk, now)
  /\ UNCHANGED <<disk, now, signed>>

Next ==
  \/ Tick
  \/ \E tx \in TxInput : SubmitTransaction(tx)
  \/ \E b \in BlockInput : ReceiveBlock(b)
  \/ \E c \in ChainInput : ReceiveChain(c)
  \/ SweepMempool
  \/ Propose
  \/ Restart

Spec == Init /\ [][Next]_vars

-----------------------------------------------------------------------------
(* Properties                                                              *)

\* Types: the object, the file, the clock and the history have their shapes.
TypeOK ==
  /\ DOMAIN bc = {"chain", "state", "pendingTransactions", "receivedAt"}
  /\ IsChain(bc.chain) /\ Len(bc.chain) > 0
  /\ bc.state \in WorldState
  /\ \A t \in bc.pendingTransactions : VerifyTransaction(t)
  /\ DOMAIN bc.receivedAt = HashesOf(bc.pendingTransactions)
  /\ \A h \in DOMAIN bc.receivedAt : bc.receivedAt[h] \in 0 .. now
  /\ disk # NoSnapshot => IsChain(disk.chain) /\ Len(disk.chain) > 0
  /\ now \in 0 .. MaxTime

\* Every chain the node holds or has saved is rooted in genesis and linked by
\* valid blocks, so it can be served to a peer and reloaded (validateChain).
ChainValid ==
  /\ IsRooted(bc.chain) /\ IsLinked(bc.chain, now)
  /\ disk # NoSnapshot => IsRooted(disk.chain) /\ IsLinked(disk.chain, now)

\* The incrementally updated balances and nonces are those a replay of the
\* chain from genesis gives, after appends, reorganisations and restarts.
StateIsReplay ==
  /\ ReplayChain(bc.chain) = Applied(bc.state)
  /\ disk # NoSnapshot => ReplayChain(disk.chain).ok

\* No transaction, block, reorganisation or restart creates or destroys money.
SupplyConserved ==
  SumFunction(bc.state.balance) = SumFunction(GenesisAllocations)

\* The transactions of a chain, in order: those of the blocks after genesis,
\* which validateChain replays.
ConfirmedTxs(c) == FlattenSeq([i \in 1 .. Len(c) - 1 |-> c[i + 1].transactions])

\* No signed transfer is ever confirmed twice: the k-th confirmed transaction
\* of a sender carries nonce k - 1, and the account nonce counts them.
NonceSpentOnce ==
  LET txs          == ConfirmedTxs(bc.chain)
      SentBy(a, n) == Cardinality({k \in 1 .. n : txs[k].from = a})
  IN  /\ \A k \in DOMAIN txs : txs[k].nonce = SentBy(txs[k].from, k - 1)
      /\ \A a \in Address : bc.state.nonce[a] = SentBy(a, Len(txs))

\* Over the whole chain, not only between neighbours, a slot holds at most
\* one block, signed by the validator the rotation gives it to.
OneBlockPerSlot ==
  \A i, j \in 1 .. Len(bc.chain) :
    i < j => /\ GetSlot(bc.chain[i].timestamp) < GetSlot(bc.chain[j].timestamp)
             /\ bc.chain[j].validatorPublicKey =
                  GetValidatorForSlot(GetSlot(bc.chain[j].timestamp))

\* A chain cannot outrun the clock: after any of its blocks there are at most
\* as many as there are slots from its own to that of now + drift.  (Counted
\* from our genesis block, which is of time 0, this bounds the height.  The time
\* in an offered first block is not looked at, and may be long before that.)
HeightBoundedByClock ==
  Len(bc.chain) > 1 =>
    \A i \in DOMAIN bc.chain :
      Len(bc.chain) - i
        <= GetSlot(now + MaxFutureDrift) - GetSlot(bc.chain[i].timestamp)

\* What waits in the pool after any block, reorganisation or restart is still
\* unconfirmed, and a sender uses each nonce once.
PendingUnconfirmed ==
  \A t \in bc.pendingTransactions :
    /\ t.nonce >= bc.state.nonce[t.from]
    /\ \A u \in bc.pendingTransactions :
         (t.from = u.from /\ t.nonce = u.nonce) => t = u

\* A sender's pending transactions together never exceed its balance, also
\* after a reorganisation has taken back the money it counted on.
PendingAffordable ==
  \A a \in Address : Total(PendingOf(bc, a)) <= bc.state.balance[a]

\* The pool and each sender's share of it stay within their limits, and so
\* does the file: a restart restores what it finds and checks no limit.
PoolBounded ==
  \A held \in {bc} \cup (IF disk = NoSnapshot THEN {} ELSE {disk}) :
    /\ Cardinality(held.pendingTransactions) <= MaxPoolSize
    /\ \A a \in Address :
         Cardinality(PendingOf(held, a)) <= MaxPendingPerSender

\* As the list of known gaps has it, the mempool has no bound: a new, signed
\* transfer with the next nonce that its sender can pay is always taken.
MempoolUnbounded ==
  \A tx \in TxInput :
    (/\ VerifyTransaction(tx)
     /\ tx.hash \notin HashesOf(bc.pendingTransactions)
     /\ tx.nonce = GetNextNonce(bc, tx.from)
     /\ bc.state.balance[tx.from] >= Total(PendingOf(bc, tx.from)) + tx.amount)
      => CanAddTransaction(bc, tx)

\* A wallet that uses the nextNonce of getAccount is never refused for its
\* nonce while its sender is below the pending limit.
NextNonceUsable ==
  \A a \in Address :
    LET n == GetNextNonce(bc, a)
    IN  Cardinality(PendingOf(bc, a)) < MaxPendingPerSender =>
          /\ n >= bc.state.nonce[a]
          /\ n < bc.state.nonce[a] + MaxPendingPerSender
          /\ \A t \in PendingOf(bc, a) : t.nonce # n

\* A block the proposer builds from its own mempool is never rejected by its
\* own addBlock (the "rejected locally" branch is dead).
OwnProposalAccepted ==
  \A b \in Proposals(bc, MyKey, now) : CanAddBlock(bc, b, now)

\* A validator publishes at most one block in a slot it owns.
SlotSignedOnce ==
  \A p, q \in signed : p[1] = q[1] => p = q

\* While the process runs, the chain changes only into a longer one, and a
\* changed prefix (a reorganisation) only comes with a CHAIN_RESPONSE.
ChainGrows ==
  [][bc'.chain # bc.chain =>
       \/ Restart
       \/ /\ Len(bc'.chain) > Len(bc.chain)
          /\ IsPrefix(bc.chain, bc'.chain)
               \/ \E c \in ChainInput : ReceiveChain(c)]_vars

\* With a disk that works, a restart loses nothing but arrival times: chain,
\* balances, nonces and pending transactions are those before the crash.
RestartLossless ==
  [][Restart => /\ bc'.chain = bc.chain
                /\ bc'.state = bc.state
                /\ bc'.pendingTransactions = bc.pendingTransactions]_vars

PaymentService ==
  INSTANCE Payments WITH
    Account  <- Address,
    Opening  <- GenesisAllocations,
    settled  <- ConfirmedTxs(bc.chain),
    accounts <- bc.state,
    waiting  <- bc.pendingTransactions,
    height   <- Len(bc.chain)

\* With a disk that works, the node implements Payments: to the holders of
\* accounts a block is a batch of transfers, a reorganisation a change to a
\* longer history, and a crash is not visible at all.
ServesPayments == PaymentService!Spec

=============================================================================
