# A TLA+ model of the proof-of-authority blockchain

The repository implements a small proof-of-authority blockchain in TypeScript:
validators own fixed time slots in rotation, sign blocks of signed transfers,
and gossip over a WebSocket mesh; a node keeps its chain and mempool in one JSON
file. This directory models the ledger rules, the blockchain object, a running
node with crashes, the gossip between nodes, how nodes find and keep each other,
the WebSocket API with its clients, and the wallet store. TLC checks the models on small
instances; TLAPS proves the safety properties of a node, the gossip, the connections,
the API, its clients and the wallet store for every instance.

## 1. Inventory of the system

| Part (source) | State | Operations | Modelled in |
| --- | --- | --- | --- |
| Transactions (`types.ts`, `transaction.ts`) | none | hash, sign, verify | `Ledger` |
| Account state (`state.ts`) | balance and nonce per address | `applyAll`, all or nothing | `Ledger` |
| Slots and validators (`validatorSet.ts`) | ordered list of keys | owner of a slot | `Ledger` |
| Blocks (`block.ts`) | none | hash, genesis, propose, verify | `Ledger` |
| Blockchain (`blockchain.ts`) | chain, account state, mempool, arrival times | `addTransaction`, `addBlock`, `replaceChain`, `pruneMempool`, `sweepMempool`, `selectTransactionsForBlock`, restore | `Ledger`, `Blockchain`, `Node` |
| Storage (`storage.ts`) | one file, replaced by rename | load, save | `Blockchain`, `Node` |
| Node process (`node.ts`) | timers | auto-propose, sweep, start | `Node` |
| P2P gossip (`p2p.ts`) | handshaken sockets | chain requests and answers, new blocks, new transactions | `Network` |
| P2P connections (`p2p.ts`) | sockets, dials, backoff, nodeId | dialling, handshake, duplicates, peer exchange, heartbeat | `Peering` |
| Peer table (`peerTable.ts`) | addresses, health, blocklist, file | add, success, failure, block, load | `PeerTable`, `Peering` |
| API (`api.ts`) | client sockets, subscriptions | submit, propose, queries, pushes, heartbeat | `Api`; requests in `Client`, `Node`, `Network` |
| Client (`nodeClient.ts`) | one pending request | request with timeout, `send` | `Client` |
| Wallet (`wallet.ts`, `walletStore.ts`, `scripts/wallet.ts`) | locked or unlocked key; files | create, import, unlock, lock, sign, save, load, delete | `WalletStore`; `send` in `Client` |
| Crypto (`crypto.ts`) | none | sha256, ECDSA, key stores | ideal operations in `Ledger`, `WalletStore` |
| Configuration, other scripts | none | start-up I/O | not modelled |

**Interaction.** The API, the peers' messages and two timers call into one
`Blockchain` object per process. `addTransaction`, `addBlock`, `replaceChain`
and `sweepMempool` change memory and then save; the API and the proposer
broadcast after that. The API learns of changes by the events `blocks` and
`pending`, and of peers by a timer. Messages received over P2P are applied with the same
methods and relayed if they were new. Balances and nonces are never saved: a
restart replays the chain.

**What is hard.** Node.js runs one callback at a time, so a handler is atomic;
the difficulty is in the order of handlers, in several nodes, and in time:

- reorganisations: the account state and the mempool belong to a chain that may
  be replaced, possibly inside the slot in which this node has just signed;
- restarts from a file that lacks the account state and arrival times, and that
  is old when a save failed (errors are logged and swallowed);
- gossip over connections that are half open, break and lose messages, in a
  protocol without acknowledgements that repairs gaps only by whole-chain sync;
- slots, waits and drift at their boundaries, with clocks that differ;
- two nodes that dial each other, each judging on its own view which of two
  sockets to close, with half-open sockets and restarts in between;
- clients that give up on requests that are still on their way;
- several programs in one wallet directory.

`PROJECT.json` lists these as hazards at their source lines, with the properties
aimed at each, or the reason why none is.

**What makes each part correct.**

- Ledger and blockchain: money is conserved, no nonce is spent twice, a slot
  holds one block by its owner, state equals replay, only longer valid chains
  are adopted.
- Mempool: bounded (in memory and in the file), unconfirmed, affordable; the nonce a wallet is told to use
  works; what a proposer selects applies.
- Node: restarts lose nothing if saves succeed and never corrupt anything if
  they fail; one block signed per slot.
- Network: when the gossip is over nobody is behind, and it ends.
- Connections: one per pair, and the pairs that can reach each other end up
  connected; only addresses that answered an own dial are passed on.
- API: a subscriber's picture is the node's; a client that vanished is dropped.
- Client: what a send reports is what happened, in spite of lost answers.
- Wallet store: a stored key is never lost or half-written, and a wallet signs
  only for the address its key belongs to.

## 2. Modules

    Ledger  <-  Blockchain  <-  Node     <-  MCNode
                                Node     <-  Client  <-  MCClient
                                Node     <-  Api     <-  MCApi
                            <-  Network  <-  MCNetwork
    Payments (implemented by Node)
    PeerTable  <-  Peering  <-  MCPeering
    WalletStore  <-  MCWalletStore

and the modules with the proofs, each of which extends the modules it is about:

    BlockchainProofs <- NodeProofs <- PaymentsProofs <- ClientProofs
                                   <- ApiProofs
                     <- NetworkProofs
    PeeringProofs
    WalletStoreProofs

**`Ledger`** holds constant operators only: the consensus rules. Each is the
translation of one function of the source and keeps its name (capitalised).
Hashes are the tuples of the hashed fields and signatures are records naming
the key, so both are injective and unforgeable. `ApplySteps` and `ReplaySteps`
are the loops of `applyAll` and `validateChain` as recursive functions;
`RECURSIVE` is avoided so that they can be reasoned about.
`IsRooted` compares index and hash of the first block and nothing else, as
`validateChain` does. Times and slots may be negative, as `getIndexForSlot` allows:
nothing in the code keeps a block's time from being before the epoch. Amounts and balances are natural numbers; the code uses
doubles, exact up to 2^53.

**`Blockchain`** models the object as a record `[chain, state,
pendingTransactions, receivedAt]` and each method as an operator on it:
`CanAddBlock` is the conjunction of `addBlock`'s early returns and `AddBlock`
its effect, pruning included. The mempool array is a set; its order matters only
where two transactions tie in the sort by nonce and timestamp, and `Proposals`
allows every way to break ties. `PruneMempool` uses one order, since what it
keeps depends only on the order within a sender, whose nonces are distinct.

**`Node`** adds the data file, the clock and one action per handler:

| Action | Code |
| --- | --- |
| `SubmitTransaction` | API `submitTransaction`, P2P `NEW_TRANSACTION`: `addTransaction` |
| `ReceiveBlock` | P2P `NEW_BLOCK`: `addBlock` |
| `ReceiveChain` | P2P `CHAIN_RESPONSE`: `replaceChain` |
| `SweepMempool` | the 30 s timer in `node.ts` |
| `Propose` | the auto-propose timer in `node.ts`, API `propose` (same conditions) |
| `Restart` | a crash or stop, and the `Blockchain` constructor on the next start |
| `Tick` | `Date.now()` advances |

Every input of the sets may arrive at any time and any number of times. `Persist` may
fail if `DiskMayFail`. A crash inside a handler needs no action of its own: before
the rename it equals a crash before the handler, because nothing has been sent
yet. After the rename, before the broadcast, it is `Restart` after the handler
(losing the broadcast, which `Node` does not observe). The variable `signed` is
history, used by `SlotSignedOnce` alone.

**`Network`** composes several blockchain objects with FIFO queues per
connection and direction. `Connect` puts a HELLO into both; handling it
completes the handshake at that end and requests the chain; `Disconnect` loses
what is in flight. Not part of it: duplicate and
refused connections and peer exchange (in `Peering`), crashes (in `Node`), and the
sweep timer, which would only expire transactions older than any run.

**`Payments`** is what a node promises the holders of accounts: a list of settled
transfers, accounts that are money received minus money sent, and transfers that
wait, can all be paid and do not compete for a nonce. There are no blocks, slots,
files or restarts in it. `Node` maps its variables onto it (`PaymentService`: the
transfers of the chain, the account state, the mempool, the chain's length), and
`ServesPayments` says that every behaviour of a node with a working disk is one of
`Payments`, restarts being stuttering steps or the expiry of waiting transfers.

**`PeerTable`** is class `PeerTable` as a record and an operator per method, with
addresses as `[scheme, host, port]` so that `NormalizeAddress` can identify the
spellings of the loopback host. The file is a function of the table and needs no
state. **`Peering`** adds sockets and processes:

| Action | Code in `p2p.ts` |
| --- | --- |
| `Maintain`, `BackoffOver` | `maintainConnections` on its timer; `nextAttempt` is reached |
| `Opened`, `Refused`, `Closed` | socket events `open`, `connection`, `error`, `close` and `onDialFailed` |
| `RejectHello`, `RejectDuplicate`, `AcceptHello` | the three ends of `handleHello` |
| `LearnPeers` | `GET_PEERS` and `PEERS` in `handleMessage` |
| `Heartbeat`, `HandshakeTimeout` | the ping timer and the handshake timer |
| `Restart` | a crash, and the constructors and `start` of the next process |
| `Break` | the network loses a connection and tells nobody |

A connection is `<<dialler, address, k>>` with an end at each side. The ends have
separate states, so that one side can have closed, replaced or never registered
what the other still counts on. The HELLO of a closed connection is still read if
it was sent before. A saved table that was not written (a failing disk), malformed
messages and the cap of 50 addresses per message are left out.

**`Client`** runs several calls of `NodeClient.send` against `Node`: ask for the
account (`Send`, `ServeGetAccount`), sign with the nonce that comes back
(`ReceiveAccount`), submit (`ServeSubmit` contains `Node`'s `SubmitTransaction`),
report (`ReceiveResult`). `Timeout` settles the promise at any time but does not
recall the request; `LoseConnection` and `NodeRestart` lose requests and answers.
The phase `unknown` stands for an error after the submission was sent. The node in it
makes blocks of its own but receives none: what a reorganisation does to a transfer
is the subject of `Node` and `Network`.

**`Api`** adds the subscribers of a node. `NodeEvent` joins `Node`'s actions with
the push each causes; `Subscribe` and `SendSnapshots` are the two callbacks of a
subscription; `StatusTimer` and `Heartbeat` are the timers. A view is what was
last sent of a topic. The time-based fields of a status are left out.

**`WalletStore`** cuts `save` into its calls (`SaveCheck`, `SaveOpen`,
`SaveWrite`, `SaveRename`) with the file descriptor between them, since several
programs may use the directory and any may die between two calls. `Create`,
`Import` and `Delete` are those of the command line, whose file checks come first.

**Proof modules.** `BlockchainProofs` holds lemmas about folds and sums over finite
sets and about the operators of `Ledger` and `Blockchain`. The others hold the theorems
of section 4: `NodeProofs` about chain, state, pool and restarts, `PaymentsProofs`
about money and the refinement, and each of the rest about the module of its name.

**Mutants.** Operators commented "Mutant:" are plausible bugs next to the
definition they imitate; no specification uses them. Each property is shown to
be violated when its mutant replaces the definition.

## 3. Runs

| Run | Instance | Shows |
| --- | --- | --- |
| `node` | validator v2 of three; slots of 2 ticks with a wait of 1, drift 1, clock to 9; 9 transactions, pool 3, 2 per sender, 2 per block, TTL 3 | all ledger, mempool, chain and restart properties; `Node` implements `Payments` |
| `node_faulty_disk` | clock to 6, 3 transactions, every save may fail | account state and mempool stay consistent when a restart finds an older file (that chains stay valid is proved) |
| `node_reorg` | validator v3, clock to 7 | violation of `SlotSignedOnce` (finding) |
| `node_pool_limit` | as `node` | violation of `MempoolUnbounded` (finding) |
| `network` | 3 nodes, full mesh, 2 transactions in blocks of 1, one clock ahead by the drift | `QuietAgreement` |
| `network_reconnect` | 2 nodes, 3 transactions in blocks of 1, one disconnection, clock to 3, fairness | `QuietAgreement` with lost messages; `NoTransferLost`; `GossipSettles` |
| `network_line` | 2 validators that only reach a full node | violation of `QuietAgreement` (finding) |
| `peering` | 4 hosts, one behind NAT, one of another network; tables of 2 addresses; fairness | crossing dials and peer exchange end in a mesh of single connections; only usable addresses are passed on |
| `peering_faults` | 2 nodes on one machine, one fault, one restart, fairness | the same after a dead wire, late HELLO, failed dial or new nodeId at any point |
| `client` | 2 sends of one payment, clock to 6, node restarts | what a send reports is what happened; no send hangs |
| `api` | 1 client, 1 transaction, a block and a reorganising chain, 2 changes, clock to 2, fairness | views are current; vanished clients are dropped |
| `wallet_store` | 2 programs, one writing; 2 names, 2 generated keys, 4 import files | keystores are whole, usable and not overwritten; signers own their address |

**Why the bounds are enough.** In the `node` instances the transactions include two
pairs in conflict over a nonce, one beyond the nonce window, one affordable only after a
payment arrives, a badly signed and an altered one; the blocks and chains fork
at genesis and at slot 1, and include wrong owners, early blocks and a reused
slot. One chain has our genesis hash but a first block of time -7, and blocks of
their slots' owners in slots -3 and -2: it is longer than the clock's slots allow,
is adopted by the code, and is what `HeightBoundedByClock` has to count from. (The
runs `node_faulty_disk` and `node_reorg` leave it out.) This gives reorganisations that take money back from a sender with pending
transactions, full pools, gaps, expiry and restarts at each point. Four slots
are enough for a fork of three blocks against two. The drift of one tick makes a
block from a slot that has not begun here acceptable. In `Network` every tick is
a slot, so that two validators can fork and each extend its own side; in
`network_reconnect` one side outgrows the other and the loser abandons a
confirmed transaction.

In `peering`, p and q dial each other and both verify the other by a dial-back, so
that there are up to two connections of a pair at any stage of the handshake. r
lists both and cannot be dialled back. When q's HELLO arrives, p's table may be
full of x and r, so that p hears of q only through r later. In
`peering_faults` two copies of each connection allow a new one while one end of
the old one has noticed nothing. The restarted process draws the identifier 3,
which turns the order of the two around if it is p and leaves it if it is q.
One failed dial is the limit there (`MaxFailures`), which both nodes reach as
each other's bootnode; the list of bootnodes is the same for both and spelled
differently from the addresses that HELLOs give.

In `client` the second send may come before, during or after the first, after a
block, an expiry (TTL 1) and a restart. In `api` a request names the three ledger
topics or the peers, and the changes are either two of
the peers, or one and the loss of the client. In `wallet_store` the import files are a
backup and three edits of it (address; public key and address; encrypted key);
the reading program loads, unlocks and locks at every point of a save.

**Deadlock.** `Node` can always restart, `Client` and `Api` contain it, and
programs of `WalletStore` can always be killed, so deadlock is checked there. The
network runs end when the clock and the clients stop, and a mesh that has settled
is quiet until the next fault, so the network and peering runs do not check it.

**Fairness.**

- `network_reconnect`: weak fairness of `Deliver` for each pair (the event loop handles
  what has arrived; written with "a message waits" for its enabledness, since
  every message has a handler) and of `Connect` (`maintainConnections` runs every 2 s and
  dials each known peer it is not connected to). None of the clock, clients,
  proposers or disconnects.
- Peering: weak fairness of `Maintain` and `BackoffOver` (an interval; a delay
  that is capped) and of `EndEvent` (a dial opens or fails, a HELLO, a close or a
  missing pong is handled). Faults and restarts are finitely many. None is needed
  of `HandshakeTimeout`: the heartbeat ends a dead socket as well.
- `client`: weak fairness of `Timeout` alone, the client's own timer. Nothing is
  assumed of the network or the node.
- `api`: weak fairness of the status timer, the heartbeat, the `setImmediate`
  callback and the `close` event of a terminated socket.

**Findings.**

1. `SlotSignedOnce`: the proposer judges whether its slot is used by the latest
   block of its present chain only. It signs, a longer chain of earlier slots
   replaces its block, and within the same slot it signs again.
2. `QuietAgreement` in a line p – f – q: f learns a chain by `CHAIN_RESPONSE`
   and does not announce it, so p stays behind until another block or a
   reconnect. In a full mesh the sender announces to everybody itself.
3. `MempoolUnbounded`: the list of known gaps (`README.md:106` of the repository) says
   "Unbounded mempool", but `addTransaction` refuses a transfer that is valid and affordable,
   with the next nonce, when the pool or its sender's share of it is full
   (`blockchain.ts:164` and `186`), as `docs/PROTOCOL.md:45` and the rules below it say.
   `PoolBounded` and its proof show that these limits hold; the list is out of date.

**Limits of the results.** Under other constants the models reach the
following; each is a consequence of the cited code.

- Two addresses of one node (a host name among the bootnodes, and the IP address
  its HELLO gives). `isConnected` (`p2p.ts:123`) compares addresses, so the one
  without a live socket is dialled again; the rule for two connections of one
  dialler is "keep the newer" (`p2p.ts:347`), so it replaces the other, and
  `MeshSettles` fails under fairness: the two are dialled in turn for ever.
  `SameSocketClosed` fails too, since "newer" is the order in which each side
  handles the HELLOs.
- With a fault `SameSocketClosed` fails as well, if an address is dialled again while the
  other end of the old connection has noticed nothing: one end is kept or accepted
  that the other has given up. The pair recovers (`MeshSettles` in `peering_faults`).
- After a restart an address whose last dial failed counts as healthy
  (`peerTable.ts:170`): `SharedHealthy` speaks of dials of the present process.
- `PeersReachSubscribers` starts from a subscriber that has what the timer saw
  last. One whose first snapshot shows a change that is undone before the timer
  runs keeps it, since the timer compares with its own last tick (`api.ts:123`).
- With two programs in `Writers`, `NoSilentOverwrite` fails (both pass the check,
  `walletStore.ts:69`, then the second rename replaces the first keystore), and so does
  `StoredUsable` (the temporary file has a fixed name: one truncates what the
  other is about to rename, and dies). `SignerOwnsAddress` holds with two.
- `NoTransferLost` is claimed until a connection is lost. A node that was away when
  a transaction was sent does not hold it, the mempool is not exchanged on connect
  (`p2p.ts:416`), and `replaceChain` returns nothing to it (`blockchain.ts:472`).
- `QuietAgreement` says equal heights, not equal chains: two forks of equal length
  stay until one grows, as the length rule intends.
- Of the first block of an offered chain `replaceChain` compares index and stored hash
  (`blockchain.ts:436`, where the comment asks for "the exact same genesis block");
  its hash is not computed from its contents, so a chain whose first block has other
  contents under the same hash is adopted with them. Balances do not depend on it: a
  replay starts from the configured allocations. The slots do: if that block claims a
  time before the epoch, the owners of negative slots can fill them with valid blocks,
  a single validator all of its own, and such a chain is longer than an honest one can
  be. So `HeightBoundedByClock` bounds the blocks after any block by the slots after
  it, and the height by the clock alone only if the first block has the time of our own.

## 4. Proofs

The theorems hold for all constants that satisfy the named assumptions:

- `LedgerAssumption`: finitely many addresses, a non-empty validator list, natural
  starting balances, a wait shorter than a slot. (The code has no finite list of
  addresses, but a run meets finitely many; sums of balances need it.)
- `BlockchainAssumption`: limits of the pool and of blocks that are at least 1.
- `NodeAssumption`: the inputs are blocks and chains by shape (`IsBlock`: integer index
  and time, either of which may be negative, and a sequence of transactions), which may be
  invalid in every other way, and the clock is bounded by some `MaxTime`.
- `NetworkAssumption`: peers are pairs of different nodes, and clients are attached to nodes.
- `PeeringAssumption`, `PeerTableAssumption`: finite bootnode lists of known addresses,
  identifiers that are drawn once, natural limits.
- `ApiAssumption`, `WalletStoreAssumption`, `KeystoreAssumption`: model values are
  distinct from data; a keystore has its four fields and is not an absent or torn file.

A theorem that says "working disk" has the hypothesis `DiskMayFail = FALSE`: with a
failing one the property is false, as a restart finds an older file. "One writer" is
`OneWriter`; section 3 says what fails with two. The hypotheses about layouts are defined
at the end of `Network` and `Peering`:

- `IsFullMesh`: any two nodes can reach each other. `QuietAgreement` is false without it
  (finding 2).
- `ClocksClose`: no two clocks differ by more than `MAX_FUTURE_DRIFT`, the precondition
  the repository states (`README.md:104`).
- `OneAddress`: no node answers at two addresses that another one may dial. `SeenTruly`:
  the address an inbound HELLO gives does not belong to a third node or to the receiver.
- `NoLeftovers`: no fault happens, or nobody dials an address while one end of the last
  connection to it is left.

Section 3 says under "Limits" how `SameSocketClosed` fails without `OneAddress` or
`NoLeftovers`; `SeenTruly` rules out that one end refuses, as blocked, a peer whose own end has
accepted the connection. TLC evaluates
`OneAddress`, `SeenTruly` and `ClocksClose` on the layouts of the runs (`PeeringHypotheses`,
`NetworkHypotheses`); the run `peering` meets all the hypotheses of `SameSocketIsClosed`.

| Theorem | Property | Hypothesis |
| --- | --- | --- |
| `NodeProofs!Soundness` | the inductive invariant `IInv` | |
| `TypeCorrect` | `TypeOK` | |
| `ChainsStayValid` | `ChainValid` | |
| `StateMatchesReplay` | `StateIsReplay` | |
| `PoolUnconfirmed` | `PendingUnconfirmed` | |
| `SlotsUsedOnce` | `OneBlockPerSlot` | |
| `HeightBounded` | `HeightBoundedByClock` | |
| `ProposalsAccepted` | `OwnProposalAccepted` | |
| `ChainOnlyGrows` | `ChainGrows` | |
| `PoolSound` | the inductive invariant with `PoolInv` | |
| `PoolStaysBounded` | `PoolBounded` | |
| `PoolStaysAffordable` | `PendingAffordable` | |
| `NextNonceIsUsable` | `NextNonceUsable` | |
| `DiskMirrors` | the file mirrors the object (`Mirrored`) | working disk |
| `RestartsLoseNothing` | `RestartLossless` | working disk |
| `PaymentsProofs!NoncesSpentOnce` | `NonceSpentOnce` | |
| `SupplyIsConserved` | `SupplyConserved` | |
| `NodeServesPayments` | `ServesPayments`, the refinement of `Payments` | working disk |
| `WalletStoreProofs!SignersOwnTheirAddress` | `SignerOwnsAddress` | |
| `StoreStaysUsable` | `StoredUsable` | one writer |
| `OverwriteOnlyOnRequest` | `NoSilentOverwrite` | one writer |
| `NetworkProofs!ChainsAreServable` | chains and blocks on their way are valid everywhere (`SoundInv`) | `ClocksClose` |
| `QuietNodesAgree` | `QuietAgreement` | `IsFullMesh`, `ClocksClose` |
| `PeeringProofs!PeeringTypes` | `TypeOK` | |
| `TablesStaySound` | `TableSound` | |
| `SharedIsReachable` | `SharedReachable` | |
| `SharedIsHealthy` | `SharedHealthy` | |
| `PeersHaveOneSocket` | `OneSocketPerPeer` | |
| `SameSocketIsClosed` | `SameSocketClosed` | `OneAddress`, `SeenTruly`, `NoLeftovers` |
| `ApiProofs!ViewsStayCurrent` | `ViewsCurrent` | |
| `ClientProofs!ReportsAreTrue` | `ReportsTruthful` | |
| `ClientsSound` | the invariant of node and clients | working disk |
| `AcceptedStaysAlive` | `AcceptedKept` | working disk |
| `AcceptedNoncesDiffer` | `NonceNotShared` | working disk |

**The chain.** `IInv` says that the object is sound (`ObjectOK`), that the
file is absent or holds a sound snapshot (`DiskOK`) and that the clock is within
its bound. `ObjectOK` consists of `ChainOK` (a well-formed chain, rooted and linked as
seen at time `now`), state = replay of the chain, verified pending transactions whose
arrival times are recorded, distinct nonces per sender, and pending nonces not
below the confirmed one. The last part fails between pushing a block and
pruning, so `UnprunedOK` is the invariant without it, and `PruneOK` leads back.
`DiskOK` is needed since `Restart` makes the file the object; it speaks about the
chain as of now, which later times preserve (`ChainOKLater`).

`ReplayAppend` shows that replaying a chain with one more block
is replaying the chain and applying that block, so an incremental `addBlock` and
a full `replaceChain` agree. `SelectionApplies` shows that the list the selection
loop builds, transaction by transaction, applies as a whole with `applyAll`;
together with the slot conditions of `MayPropose` this gives `ProposalOK`.
`SlotsApart` carries the neighbour rule of `isValidNewBlock` over the chain: of two blocks
the later one is at least as many slots after the earlier one as it is blocks.
`SlotsUsedOnce` and `HeightBounded` are consequences.

**The mempool.** `PoolInv` adds that the pool and each sender's share of it are
within their limits, in memory and in the file, and that each sender can pay what
it has pending (`Fits`). Of the file's copy `Fits` is not needed, since a restart
prunes it against the chain of the file. `PruneResult` shows what `pruneMempool` computes,
whatever the order of the fold; `NextNonceIsUsable` is a pigeonhole argument on the
nonces in use. For restarts, `Mirrored` says that with a working disk the file is
the snapshot of the object, and `ReloadKeeps` that reloading such a snapshot drops
nothing: all that is pending verifies again, fits and starts a fresh TTL.

**Payments.** One fact does the work: `Hist(list, st)`, that the account state is
what the transactions of the chain, flattened, make of the starting balances, each
of them next for its sender and covered when it was applied, at equal total supply.
`HistAppend` and `HistBlock` carry it over the loop of `applyAll`, `HistReplay` over a
chain, so it holds after a reorganisation as well, with nothing assumed of the chain
that was left. `NonceSpentOnce` and `SupplyConserved` follow. For the refinement,
`PaymentsProofs` shows for each handler which step of `Payments` it maps to.

**Clients.** `Stage` lists where a send can be: what it has in flight, and whether
the node has taken its transfer. `ReportsTruthful` needs its last case, a promise
that was settled by a timeout while its submission is still on the way. For
`AcceptedKept` the invariant is `Alive`: the transfer is pending with its arrival time,
or confirmed, or too old. The hard case is a block of the node's own pool that takes
some of a sender's transfers: `Spent` says, transaction by transaction, that those
left over remain next in line and affordable, so that pruning drops only what has expired.
`AcceptedNoncesDiffer` combines it with the admission rule: a rival is
admitted only when the earlier transfer is not alive (`NoLivingRival`).

**Network.** Three layers. `SoundInv`: every node's object is sound, and every chain and
block in flight is one that each node would accept now, whatever its clock
(`ClocksClose`), so that a longer chain in a `CHAIN_RESPONSE` is never refused.
`LinkInv`: what a peer has sent before its HELLO was handled starts with that HELLO, and
contains a `CHAIN_REQUEST` if it has handled ours; it holds across connections
that break half-way. `LeaderInv`: some node is `Ahead` (no chain and nothing in flight
exceeds its own), and every other node is `Told`: not behind, or about to ask it,
or has asked, or has something in its queue that will bring it there. A block that
makes a new leader is announced to all its handshaken peers, and the mesh makes these
all nodes but those that are about to ask. When nothing is in flight only "not
behind" is left, which is `QuietAgreement`.

**Peering.** The tables (`TableInv`) and the ends of connections (`ConnInv`) have separate
invariants, one lemma for each `PeerTable` method and for each way an end changes. They meet
where an address is verified: only an answer to an own dial does that, so somebody
listens there, of the same network since the HELLO was `Acceptable`, and not the
dialler itself, because whoever dials itself reads its own identifier (`EndOK`). The file
of a table passes this on to the next process. `OneSocketPerPeer` is inductive by
itself once `AcceptHello` is known to close all that a new socket wins over and to
fail if it loses against any.

`SameSocketClosed` compares what two nodes do on views of their own. `SocketInv` reduces it
to one connection at a time (`PairOK`): if one end was closed on purpose while the other
is there, the connection was dialled by the node with the greater identifier
(`Loses`), or joins nodes that do not fit each other, which both ends find out. Of two
connections in opposite directions only one can lose; two in the same direction
do not exist (`DialsOnce`, with `OneAddress`). It needs that an end whose other
end is there has read the identifier of the process at the other end, and not of
one that has died since (`Names`); and, for a dial that its dialler has given up, why
(last part of `PairOK`, with `MaxFaults = 0`).

**API.** A step of `Api` is one of `Node` or leaves it alone (`ApiStepIsNodeStep`), so
`IInv` holds there; it shows that an event which publishes only the mempool has not
changed the chain. `ViewInv` says that whoever follows a topic was last sent what
the node has, and that a client without a socket follows nothing.

**Wallet store.** `SignInv` holds for any number of programs: a wallet's key is that of its
address, because a key gets into a wallet object only by `Unlocks`, which compares the
two, or together with the keystore made from it. `StoreInv` is the
protocol of `save` for one writer: between the check and the rename a name that may not
be overwritten is still free (`SaveOK`), and the temporary file is complete before it is renamed.

**Technique.** Induction over sequences and sets is done with `SetInduction`: a set of
naturals that contains 0 and is closed under successor is all of them, derived from the
least member of its complement (`LeastMember`). The loops of the model are recursive
functions and unfolded by lemmas (`ApplyStepsUnfold`, `ReplayStepsUnfold`,
`SelectStepsUnfold`, `FlattenUnfold`). A fold of the community modules is a
recursive function on the subsets of a finite set; `BlockchainProofs` shows that such a
recursion has exactly one solution and that a sum does not depend on the order in which
the elements are taken. `TotalIsSum`, `AmountIsSum` and their like tie the operators of the model to it.

**Only model-checked.** `NoTransferLost`, which is about the runs with room in every pool:
a node whose pool is full does not take a transfer that others confirm and abandon.
And every liveness property (`GossipSettles`, `MeshSettles`, `EverySendSettles`,
`VanishedDropped`, `PeersReachSubscribers`): the prover has no rules for fairness or
`ENABLED`. `SlotSignedOnce`, `MempoolUnbounded` and, in a line, `QuietAgreement` are false.

## 5. Plan

Done: a module for every component of the table in section 1, and proofs of every safety
property of `Node`, `Payments`, `Peering`, `WalletStore` and `Client`, of the views of
`Api`, and of agreement in `Network`. What is left:

1. `NoTransferLost` under hypotheses on pools and balances that make it true in general.
2. `SameSocketClosed` with faults: a weaker property that survives a stale end.
3. Larger peering instances (three nodes with faults) if their cost comes down.

## 6. Not modelled

PEM and JSON encodings, PBKDF2 and AES (library calls on bytes), console output, start-up
configuration (`nodeInfo.ts`, environment), npm scripts and tests, the React
console (not in this repository). WebSocket framing is external and appears as
the FIFO queues of `Network` and the ends of `Peering`. A clock that is set back,
or that is beyond the drift, is left out: `README.md:104` of the repository
names synchronised clocks as a precondition. So are messages that do not parse,
the API's `getValidators` (it reads files) and queries without effect.

## 7. Running

    tlc -config MCNode.cfg MCNode          # likewise the other configurations
    for m in Blockchain Node Payments Network Peering WalletStore Api Client
    do tlapm ${m}Proofs.tla; done
