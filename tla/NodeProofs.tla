----------------------------- MODULE NodeProofs -----------------------------
(***************************************************************************)
(* Proofs about Node, for every choice of its constants: any validator     *)
(* list, any accounts, any slot lengths and mempool limits, any messages   *)
(* from peers, and disks that may fail to save.                            *)
(*                                                                         *)
(* First the chain and the account state, then the mempool: what a sender  *)
(* has pending it can pay, the pool keeps its limits, nextNonce is usable; *)
(* and, with a disk that works, a restart loses nothing.                   *)
(***************************************************************************)
EXTENDS Node, BlockchainProofs

-----------------------------------------------------------------------------
(* The inductive invariant                                                 *)

IInv ==
  /\ ObjectOK(bc, now)
  /\ DiskOK(disk, now)
  /\ now \in 0 .. MaxTime

\* After persist, successful or not, the data file can be reloaded.
LEMMA PersistOK ==
  ASSUME IInv, ObjectOK(bc', now), Persist(bc')
  PROVE  DiskOK(disk', now)
<1>1. CASE disk' = Snapshot(bc')
  BY <1>1, SnapshotOK
<1>2. CASE disk' = disk
  BY <1>2 DEF IInv
<1> QED
  BY <1>1, <1>2 DEF Persist

-----------------------------------------------------------------------------
(* Invariance                                                              *)

\* The inductive invariant holds when the node first starts.
LEMMA InitIInv == Init => IInv
<1> SUFFICES ASSUME Init
             PROVE  IInv
  OBVIOUS
<1>1. now = 0 /\ now \in 0 .. MaxTime
  BY NodeAssumption DEF Init
<1>2. ObjectOK(bc, now)
  BY <1>1, NewBlockchainOK DEF Init
<1>3. DiskOK(disk, now)
  BY DEF Init, DiskOK
<1> QED
  BY <1>1, <1>2, <1>3 DEF IInv

\* Every handler, the clock and a restart keep the inductive invariant.
LEMMA NextIInv == IInv /\ [Next]_vars => IInv'
<1> SUFFICES ASSUME IInv, [Next]_vars
             PROVE  IInv'
  OBVIOUS
<1>0. now \in Nat /\ MaxTime \in Nat
  BY NodeAssumption DEF IInv
<1>1. CASE Tick
  <2>1. /\ now' = now + 1 /\ now' \in 0 .. MaxTime /\ bc' = bc /\ disk' = disk
    BY <1>0, <1>1 DEF Tick, IInv
  <2>2. \A c : ChainOK(c, now) => ChainOK(c, now')
    BY <1>0, <2>1, ChainOKLater
  <2>3. ObjectOK(bc', now')
    BY <1>0, <2>1, <2>2 DEF IInv, ObjectOK, UnprunedOK
  <2>4. DiskOK(disk', now')
    BY <2>1, <2>2 DEF IInv, DiskOK
  <2> QED
    BY <2>1, <2>3, <2>4 DEF IInv
<1>2. ASSUME NEW tx \in TxInput, SubmitTransaction(tx)
      PROVE  IInv'
  <2>1. ObjectOK(bc', now)
    BY <1>0, <1>2, AddTransactionOK DEF SubmitTransaction, IInv
  <2>2. DiskOK(disk', now) /\ now' = now
    BY <1>2, <2>1, PersistOK DEF SubmitTransaction
  <2> QED
    BY <2>1, <2>2 DEF IInv
<1>3. ASSUME NEW b \in BlockInput, ReceiveBlock(b)
      PROVE  IInv'
  <2>1. ObjectOK(bc', now)
    BY <1>0, <1>3, AddBlockOK, NodeAssumption DEF ReceiveBlock, IInv
  <2>2. DiskOK(disk', now) /\ now' = now
    BY <1>3, <2>1, PersistOK DEF ReceiveBlock
  <2> QED
    BY <2>1, <2>2 DEF IInv
<1>4. ASSUME NEW c \in ChainInput, ReceiveChain(c)
      PROVE  IInv'
  <2>1. ObjectOK(bc', now)
    BY <1>0, <1>4, ReplaceChainOK, NodeAssumption DEF ReceiveChain, IInv
  <2>2. DiskOK(disk', now) /\ now' = now
    BY <1>4, <2>1, PersistOK DEF ReceiveChain
  <2> QED
    BY <2>1, <2>2 DEF IInv
<1>5. CASE SweepMempool
  <2>1. ObjectOK(bc', now)
    BY <1>0, <1>5, PruneOK DEF SweepMempool, IInv, ObjectOK
  <2>2. DiskOK(disk', now) /\ now' = now
    BY <1>5, <2>1, PersistOK DEF SweepMempool
  <2> QED
    BY <2>1, <2>2 DEF IInv
<1>6. CASE Propose
  <2>1. PICK b \in Proposals(bc, MyKey, now) :
          bc' = AddBlock(bc, b, now) /\ Persist(bc') /\ now' = now
    BY <1>6 DEF Propose
  <2>2. IsBlock(b) /\ CanAddBlock(bc, b, now)
    BY <1>0, ProposalOK DEF IInv
  <2>3. ObjectOK(bc', now)
    BY <1>0, <2>1, <2>2, AddBlockOK DEF IInv
  <2>4. DiskOK(disk', now)
    BY <2>1, <2>3, PersistOK
  <2> QED
    BY <2>1, <2>3, <2>4 DEF IInv
<1>7. CASE Restart
  <2>1. ObjectOK(bc', now) /\ disk' = disk /\ now' = now
    BY <1>0, <1>7, RestoreOK DEF Restart, IInv
  <2> QED
    BY <2>1 DEF IInv
<1>8. CASE UNCHANGED vars
  BY <1>8 DEF vars, IInv
<1> QED
  BY <1>1, <1>2, <1>3, <1>4, <1>5, <1>6, <1>7, <1>8 DEF Next

\* The inductive invariant holds in every reachable state.
THEOREM Soundness == Spec => []IInv
BY InitIInv, NextIInv, PTL DEF Spec

\* Type correctness of the node's state, the account state included.
THEOREM TypeCorrect == Spec => []TypeOK
<1>1. IInv => TypeOK
  BY DEF IInv, ObjectOK, UnprunedOK, IsObject, DiskOK, ChainOK, TypeOK
<1> QED
  BY <1>1, Soundness, PTL

\* The chain in memory and the chain on disk always pass validateChain's
\* structural rules, so peers can be served and a restart succeeds.
THEOREM ChainsStayValid == Spec => []ChainValid
<1>1. IInv => ChainValid
  BY DEF IInv, ObjectOK, UnprunedOK, DiskOK, ChainOK, ChainValid
<1> QED
  BY <1>1, Soundness, PTL

\* The state updated block by block is the state a replay recomputes, and the
\* saved chain replays, even if saves fail and the node restarts at will.
THEOREM StateMatchesReplay == Spec => []StateIsReplay
<1>1. IInv => StateIsReplay
  BY DEF IInv, ObjectOK, UnprunedOK, DiskOK, StateIsReplay
<1> QED
  BY <1>1, Soundness, PTL

\* Pending transactions are unconfirmed and a sender's nonces are distinct.
THEOREM PoolUnconfirmed == Spec => []PendingUnconfirmed
<1>1. IInv => PendingUnconfirmed
  BY DEF IInv, ObjectOK, UnprunedOK, NoncesDistinct, PendingUnconfirmed
<1> QED
  BY <1>1, Soundness, PTL

\* Slots strictly increase along the whole chain and each belongs to the
\* validator that signed its block.
THEOREM SlotsUsedOnce == Spec => []OneBlockPerSlot
<1>1. IInv => OneBlockPerSlot
  <2> SUFFICES ASSUME IInv,
                      NEW i \in 1 .. Len(bc.chain), NEW j \in 1 .. Len(bc.chain),
                      i < j
               PROVE  /\ GetSlot(bc.chain[i].timestamp)
                           < GetSlot(bc.chain[j].timestamp)
                      /\ bc.chain[j].validatorPublicKey =
                           GetValidatorForSlot(GetSlot(bc.chain[j].timestamp))
    BY DEF OneBlockPerSlot
  <2>1. ChainOK(bc.chain, now) /\ now \in Nat
    BY NodeAssumption DEF IInv, ObjectOK, UnprunedOK
  <2>2. Len(bc.chain) \in Nat
    BY <2>1 DEF ChainOK, IsChain, IsSeq
  <2>3. j \in 2 .. Len(bc.chain)
    BY <2>2
  <2>4. IsValidNewBlock(bc.chain[j], bc.chain[j - 1], now)
    BY <2>1, <2>3 DEF ChainOK, IsLinked
  <2> QED
    BY <2>1, <2>4, SlotsIncrease DEF IsValidNewBlock
<1> QED
  BY <1>1, Soundness, PTL

\* The chain never outgrows the slots the clock has seen, counted from any of
\* its blocks, whatever time an offered first block claims: the last block is
\* within the drift, and every block takes a slot of its own.
THEOREM HeightBounded == Spec => []HeightBoundedByClock
<1>1. IInv => HeightBoundedByClock
  <2> DEFINE c == bc.chain
             n == Len(c)
             last == GetSlot(now + MaxFutureDrift)
  <2> SUFFICES ASSUME IInv, n > 1, NEW i \in DOMAIN c
               PROVE  n - i <= last - GetSlot(c[i].timestamp)
    BY DEF HeightBoundedByClock
  <2>1. ChainOK(c, now) /\ now \in Nat /\ MaxFutureDrift \in Nat
    BY NodeAssumption, LedgerAssumption DEF IInv, ObjectOK, UnprunedOK
  <2>2. /\ n \in 1 .. n /\ n \in Nat /\ i \in 1 .. n
        /\ c[n].timestamp \in Int /\ c[i].timestamp \in Int
    BY <2>1 DEF ChainOK, IsChain, IsSeq, IsBlock
  <2>3. IsValidNewBlock(c[n], c[n - 1], now)
    BY <2>1, <2>2 DEF ChainOK, IsLinked
  <2>4. c[n].timestamp <= now + MaxFutureDrift
    BY <2>3 DEF IsValidNewBlock
  <2> HIDE DEF c, n
  <2>5. GetSlot(c[n].timestamp) <= last
    BY <2>1, <2>2, <2>4, SlotMonotone
  <2>6. n - i <= GetSlot(c[n].timestamp) - GetSlot(c[i].timestamp)
    BY <2>1, <2>2, SlotsApart DEF n
  <2>7. /\ GetSlot(c[n].timestamp) \in Int /\ GetSlot(c[i].timestamp) \in Int
        /\ last \in Int
    BY <2>1, <2>2, SlotType
  <2> HIDE DEF last
  <2> QED
    BY <2>2, <2>5, <2>6, <2>7
<1> QED
  BY <1>1, Soundness, PTL

\* The proposer's own node never rejects the block it built: selection,
\* slot conditions and signing agree with validation.
THEOREM ProposalsAccepted == Spec => []OwnProposalAccepted
<1>1. IInv => OwnProposalAccepted
  <2> SUFFICES ASSUME IInv, NEW b \in Proposals(bc, MyKey, now)
               PROVE  CanAddBlock(bc, b, now)
    BY DEF OwnProposalAccepted
  <2>1. ObjectOK(bc, now) /\ now \in Nat
    BY NodeAssumption DEF IInv
  <2> QED
    BY <2>1, ProposalOK
<1> QED
  BY <1>1, Soundness, PTL

-----------------------------------------------------------------------------
(* Chain growth                                                            *)

\* Except by a restart the chain only ever grows, and history is rewritten
\* only by a longer chain that a peer sent in full.
THEOREM ChainOnlyGrows == Spec => ChainGrows
<1> DEFINE Grows == \/ bc'.chain = bc.chain
                    \/ Restart
                    \/ /\ Len(bc'.chain) > Len(bc.chain)
                       /\ \/ IsPrefix(bc.chain, bc'.chain)
                          \/ \E c \in ChainInput : ReceiveChain(c)
<1>1. ASSUME IInv, [Next]_vars
      PROVE  Grows
  <2>0. /\ ObjectOK(bc, now) /\ now \in Nat
        /\ IsObject(bc) /\ IsSeq(bc.chain)
    BY <1>1, NodeAssumption
       DEF IInv, ObjectOK, UnprunedOK, ChainOK, IsChain
  <2>1. CASE Tick
    BY <2>1 DEF Tick
  <2>2. ASSUME NEW tx \in TxInput, SubmitTransaction(tx)
        PROVE  Grows
    <3>1. bc'.chain = bc.chain
      BY <2>0, <2>2 DEF SubmitTransaction, AddTransaction, IsObject
    <3> QED
      BY <3>1
  <2>3. ASSUME NEW b \in BlockInput, ReceiveBlock(b)
        PROVE  Grows
    <3>1. bc'.chain = Append(bc.chain, b)
      BY <2>0, <2>3, AddBlockChain DEF ReceiveBlock
    <3> QED
      BY <2>0, <3>1, AppendExtends
  <2>4. ASSUME NEW c \in ChainInput, ReceiveChain(c)
        PROVE  Grows
    <3>1. bc'.chain = c /\ Len(c) > Len(bc.chain)
      BY <2>0, <2>4, ReplaceChainChain DEF ReceiveChain, CanReplaceChain
    <3> QED
      BY <2>4, <3>1
  <2>5. CASE SweepMempool
    <3>1. bc'.chain = bc.chain
      BY <2>0, <2>5, PruneFacts DEF SweepMempool, ObjectOK, UnprunedOK
    <3> QED
      BY <3>1
  <2>6. CASE Propose
    <3>1. PICK b \in Proposals(bc, MyKey, now) : bc' = AddBlock(bc, b, now)
      BY <2>6 DEF Propose
    <3>2. bc'.chain = Append(bc.chain, b)
      BY <2>0, <3>1, AddBlockChain
    <3> QED
      BY <2>0, <3>2, AppendExtends
  <2>7. CASE Restart
    BY <2>7
  <2>8. CASE UNCHANGED vars
    BY <2>8 DEF vars
  <2> QED
    BY <1>1, <2>1, <2>2, <2>3, <2>4, <2>5, <2>6, <2>7, <2>8 DEF Next
<1>2. IInv /\ [Next]_vars =>
        [bc'.chain # bc.chain =>
           \/ Restart
           \/ /\ Len(bc'.chain) > Len(bc.chain)
              /\ IsPrefix(bc.chain, bc'.chain)
                   \/ \E c \in ChainInput : ReceiveChain(c)]_vars
  BY <1>1
<1> QED
  BY <1>2, Soundness, PTL DEF Spec, ChainGrows

-----------------------------------------------------------------------------
(* The limits of the pool                                                  *)

\* What holds of the pool, and of the copy that a restart takes up.  The copy
\* need not be affordable: restorePending prunes it.
PoolInv ==
  /\ SizeOK(bc.pendingTransactions)
  /\ Fits(bc.state, bc.pendingTransactions)
  /\ disk # NoSnapshot => SizeOK(disk.pendingTransactions)

\* After persist, successful or not, the saved pool is within the limits.
LEMMA PersistPool ==
  ASSUME PoolInv, SizeOK(bc'.pendingTransactions), Persist(bc')
  PROVE  disk' # NoSnapshot => SizeOK(disk'.pendingTransactions)
BY DEF PoolInv, Persist, Snapshot

\* The limits of the pool hold when the node first starts.
LEMMA InitPool == Init => PoolInv
<1> SUFFICES ASSUME Init
             PROVE  PoolInv
  OBVIOUS
<1>1. DiskOK(NoSnapshot, 0) /\ Restore(NoSnapshot, 0) = NewBlockchain
  BY Zenon DEF DiskOK, Restore
<1>2. LET r == Restore(NoSnapshot, 0)
      IN  SizeOK(r.pendingTransactions) /\ Fits(r.state, r.pendingTransactions)
  BY <1>1, RestorePool
<1> QED
  BY <1>1, <1>2 DEF Init, PoolInv

\* Every handler, the clock and a restart keep the limits of the pool.
LEMMA NextPool == IInv /\ PoolInv /\ [Next]_vars => PoolInv'
<1> SUFFICES ASSUME IInv, PoolInv, [Next]_vars
             PROVE  PoolInv'
  OBVIOUS
<1>0. /\ now \in Nat /\ ObjectOK(bc, now) /\ DiskOK(disk, now)
      /\ SizeOK(bc.pendingTransactions) /\ Fits(bc.state, bc.pendingTransactions)
  BY NodeAssumption DEF IInv, PoolInv
<1>1. CASE Tick
  BY <1>1 DEF Tick, PoolInv
<1>2. ASSUME NEW tx \in TxInput, SubmitTransaction(tx)
      PROVE  PoolInv'
  <2>1. SizeOK(bc'.pendingTransactions) /\ Fits(bc'.state, bc'.pendingTransactions)
    BY <1>0, <1>2, AddTransactionPool DEF SubmitTransaction
  <2> QED
    BY <1>2, <2>1, PersistPool DEF SubmitTransaction, PoolInv
<1>3. ASSUME NEW b \in BlockInput, ReceiveBlock(b)
      PROVE  PoolInv'
  <2>1. ObjectOK(AddBlock(bc, b, now), now)
    BY <1>0, <1>3, AddBlockOK, NodeAssumption DEF ReceiveBlock
  <2>2. SizeOK(bc'.pendingTransactions) /\ Fits(bc'.state, bc'.pendingTransactions)
    BY <1>0, <1>3, <2>1, AddBlockPool DEF ReceiveBlock
  <2> QED
    BY <1>3, <2>2, PersistPool DEF ReceiveBlock, PoolInv
<1>4. ASSUME NEW c \in ChainInput, ReceiveChain(c)
      PROVE  PoolInv'
  <2>1. ObjectOK(ReplaceChain(bc, c, now), now)
    BY <1>0, <1>4, ReplaceChainOK, NodeAssumption DEF ReceiveChain
  <2>2. SizeOK(bc'.pendingTransactions) /\ Fits(bc'.state, bc'.pendingTransactions)
    BY <1>0, <1>4, <2>1, ReplaceChainPool DEF ReceiveChain
  <2> QED
    BY <1>4, <2>2, PersistPool DEF ReceiveChain, PoolInv
<1>5. CASE SweepMempool
  <2>1. Prunable(bc) /\ bc'.state = bc.state
    BY <1>0, <1>5, ObjectPrunable, PruneFacts
       DEF SweepMempool, ObjectOK, UnprunedOK
  <2>2. SizeOK(bc'.pendingTransactions) /\ Fits(bc'.state, bc'.pendingTransactions)
    BY <1>0, <1>5, <2>1, PrunePool DEF SweepMempool
  <2> QED
    BY <1>5, <2>2, PersistPool DEF SweepMempool, PoolInv
<1>6. CASE Propose
  <2>1. PICK b \in Proposals(bc, MyKey, now) :
          bc' = AddBlock(bc, b, now) /\ Persist(bc')
    BY <1>6 DEF Propose
  <2>2. ObjectOK(AddBlock(bc, b, now), now)
    BY <1>0, <2>1, ProposalOK, AddBlockOK
  <2>3. SizeOK(bc'.pendingTransactions) /\ Fits(bc'.state, bc'.pendingTransactions)
    BY <1>0, <2>1, <2>2, AddBlockPool
  <2> QED
    BY <2>1, <2>3, PersistPool DEF PoolInv
<1>7. CASE Restart
  BY <1>0, <1>7, RestorePool DEF Restart, PoolInv
<1>8. CASE UNCHANGED vars
  BY <1>8 DEF vars, PoolInv
<1> QED
  BY <1>1, <1>2, <1>3, <1>4, <1>5, <1>6, <1>7, <1>8 DEF Next

\* The limits of the pool hold in every reachable state.
THEOREM PoolSound == Spec => [](IInv /\ PoolInv)
BY InitIInv, NextIInv, InitPool, NextPool, PTL DEF Spec

\* The pool never outgrows its limit, nor a sender its share of it, whatever
\* is submitted, saved and taken up again after a crash.
THEOREM PoolStaysBounded == Spec => []PoolBounded
<1>1. PoolInv => PoolBounded
  BY DEF PoolInv, SizeOK, PoolBounded, PendingOf, SentBy
<1> QED
  BY <1>1, PoolSound, PTL

\* No sender ever has more pending than it can pay, although blocks, longer
\* chains and restarts change its balance under its pending transactions.
THEOREM PoolStaysAffordable == Spec => []PendingAffordable
<1>1. PoolInv => PendingAffordable
  BY DEF PoolInv, Fits, PendingAffordable, PendingOf, SentBy
<1> QED
  BY <1>1, PoolSound, PTL

-----------------------------------------------------------------------------
(* The next nonce                                                          *)

\* The nonce a wallet is told to use next is neither spent nor taken, and
\* within the range addTransaction accepts while the sender is below its limit.
THEOREM NextNonceIsUsable == Spec => []NextNonceUsable
<1>1. IInv => NextNonceUsable
  <2> SUFFICES ASSUME IInv, NEW a \in Address,
                      Cardinality(PendingOf(bc, a)) < MaxPendingPerSender
               PROVE  LET n == GetNextNonce(bc, a)
                      IN  /\ n >= bc.state.nonce[a]
                          /\ n < bc.state.nonce[a] + MaxPendingPerSender
                          /\ \A t \in PendingOf(bc, a) : t.nonce # n
    BY DEF NextNonceUsable
  <2> DEFINE n == GetNextNonce(bc, a)
             c == bc.state.nonce[a]
             k == Cardinality(PendingOf(bc, a))
  <2>1. /\ IsFiniteSet(bc.pendingTransactions) /\ c \in Nat
        /\ \A t \in bc.pendingTransactions : VerifyTransaction(t)
    BY DEF IInv, ObjectOK, UnprunedOK, WorldState
  <2>2. n \in c .. c + k /\ \A t \in PendingOf(bc, a) : t.nonce # n
    BY <2>1, NextNonceFree
  <2>3. k \in Nat
    <3>1. IsFiniteSet(PendingOf(bc, a))
      BY <2>1, FS_Subset DEF PendingOf
    <3> QED
      BY <3>1, FS_CardinalityType
  <2> HIDE DEF n, c, k
  <2>4. n >= c /\ n < c + MaxPendingPerSender
    <3>1. k < MaxPendingPerSender
      BY DEF k
    <3> QED
      BY <2>1, <2>2, <2>3, <3>1, BlockchainAssumption
  <2> QED
    BY <2>2, <2>4 DEF n, c
<1> QED
  BY <1>1, Soundness, PTL

-----------------------------------------------------------------------------
(* Restarts with a disk that works                                         *)

\* The file mirrors the object, once anything was saved.
Mirrored ==
  \/ disk = NoSnapshot /\ bc = NewBlockchain
  \/ disk = Snapshot(bc)

\* A restart gives the object that was saved last, arrival times aside.
LEMMA RestartKeeps ==
  ASSUME IInv, PoolInv, Mirrored, Restart
  PROVE  /\ bc'.chain = bc.chain
         /\ bc'.state = bc.state
         /\ bc'.pendingTransactions = bc.pendingTransactions
<1>1. now \in Nat /\ ObjectOK(bc, now) /\ Fits(bc.state, bc.pendingTransactions)
  BY NodeAssumption DEF IInv, PoolInv
<1>2. CASE disk = Snapshot(bc)
  BY <1>1, <1>2, ReloadKeeps DEF Restart
<1>3. CASE disk = NoSnapshot /\ bc = NewBlockchain
  BY <1>3, Zenon DEF Restart, Restore
<1> QED
  BY <1>2, <1>3 DEF Mirrored

\* If no save fails, the file mirrors the object after every handler.
LEMMA NextMirrored ==
  ASSUME DiskMayFail = FALSE, IInv, PoolInv, Mirrored, [Next]_vars
  PROVE  Mirrored'
<1>0. ASSUME Persist(bc')
      PROVE  Mirrored'
  BY <1>0 DEF Persist, Mirrored
<1>1. CASE Tick
  BY <1>1 DEF Tick, Mirrored
<1>2. CASE \E tx \in TxInput : SubmitTransaction(tx)
  BY <1>0, <1>2 DEF SubmitTransaction
<1>3. CASE \E b \in BlockInput : ReceiveBlock(b)
  BY <1>0, <1>3 DEF ReceiveBlock
<1>4. CASE \E c \in ChainInput : ReceiveChain(c)
  BY <1>0, <1>4 DEF ReceiveChain
<1>5. CASE SweepMempool
  BY <1>0, <1>5 DEF SweepMempool
<1>6. CASE Propose
  BY <1>0, <1>6 DEF Propose
<1>7. CASE Restart
  <2>1. CASE disk = Snapshot(bc)
    <3>1. Snapshot(bc') = Snapshot(bc) /\ disk' = disk
      BY <1>7, RestartKeeps DEF Snapshot, Restart
    <3> QED
      BY <2>1, <3>1 DEF Mirrored
  <2>2. CASE disk = NoSnapshot /\ bc = NewBlockchain
    <3>1. bc' = NewBlockchain /\ disk' = disk
      BY <1>7, <2>2, Zenon DEF Restart, Restore
    <3> QED
      BY <2>2, <3>1 DEF Mirrored
  <2> QED
    BY <2>1, <2>2 DEF Mirrored
<1>8. CASE UNCHANGED vars
  BY <1>8 DEF vars, Mirrored
<1> QED
  BY <1>1, <1>2, <1>3, <1>4, <1>5, <1>6, <1>7, <1>8 DEF Next

\* If no save fails, the file mirrors the object in every reachable state.
THEOREM DiskMirrors ==
  ASSUME DiskMayFail = FALSE
  PROVE  Spec => [](IInv /\ PoolInv /\ Mirrored)
<1>1. Init => Mirrored
  BY DEF Init, Mirrored
<1>2. IInv /\ PoolInv /\ Mirrored /\ [Next]_vars => Mirrored'
  BY NextMirrored
<1> QED
  BY <1>1, <1>2, InitIInv, NextIInv, InitPool, NextPool, PTL DEF Spec

\* If no save fails, a crash at any moment loses no block, no balance and no
\* pending transaction, however often and at whatever time the node restarts.
THEOREM RestartsLoseNothing ==
  ASSUME DiskMayFail = FALSE
  PROVE  Spec => RestartLossless
<1>1. IInv /\ PoolInv /\ Mirrored /\ [Next]_vars =>
        [Restart => /\ bc'.chain = bc.chain
                    /\ bc'.state = bc.state
                    /\ bc'.pendingTransactions = bc.pendingTransactions]_vars
  BY RestartKeeps
<1> QED
  BY <1>1, DiskMirrors, PTL DEF Spec, RestartLossless

=============================================================================
