------------------------------- MODULE Network -------------------------------
(***************************************************************************)
(* Several nodes that gossip (the message handlers of p2p.ts composed with *)
(* Blockchain).  A connection between two nodes is a pair of FIFO queues   *)
(* that starts with a HELLO in each direction; a node talks to a peer from *)
(* the moment it has handled the peer's HELLO.  Breaking a connection      *)
(* loses what is in flight; the maintenance timer dials again.             *)
(*                                                                         *)
(* Left to other modules: which addresses are dialled, duplicate           *)
(* connections, the peer exchange, crashes and the mempool sweep (Node);   *)
(* a sweep only expires transactions, which no run here is long enough for.*)
(***************************************************************************)
EXTENDS Blockchain

CONSTANTS
  Node,            \* the nodes
  KeyOf,           \* node -> its validator key (not in ValidatorKey if none)
  Peering,         \* the pairs {m, n} of nodes that can reach each other
  ClientInput,     \* <<n, tx>>: a client may submit tx to node n
  StartConnected,  \* whether the initial handshakes are already over
  ClockOffset,     \* node -> how far its clock is ahead of the slowest one
  MaxTime,         \* bound on the clock
  MaxDisconnects   \* bound on broken connections

ASSUME NetworkAssumption ==
  /\ Peering \subseteq {e \in SUBSET Node : Cardinality(e) = 2}
  /\ \A s \in ClientInput : s[1] \in Node
  /\ StartConnected \in BOOLEAN
  /\ ClockOffset \in [Node -> Nat]
  /\ MaxTime \in Nat
  /\ MaxDisconnects \in Nat

VARIABLES
  bc,          \* node -> its Blockchain object
  queue,       \* <<from, to>> -> messages in flight, oldest first
  handshaken,  \* <<n, m>> : n has handled m's HELLO on the open connection
  now,         \* true time; a node reads now + ClockOffset
  disconnects  \* number of broken connections so far

vars == <<bc, queue, handshaken, now, disconnects>>

Pairs == {p \in Node \X Node : {p[1], p[2]} \in Peering}

Clock(n) == now + ClockOffset[n]

Hello == [type |-> "HELLO"]
ChainRequest == [type |-> "CHAIN_REQUEST"]
ChainResponse(c) == [type |-> "CHAIN_RESPONSE", chain |-> c]
NewBlock(b) == [type |-> "NEW_BLOCK", block |-> b]
NewTransaction(tx) == [type |-> "NEW_TRANSACTION", transaction |-> tx]

\* A connection is open while either end has something to handle or has
\* handled the other's HELLO.
IsOpen(m, n) ==
  \/ <<m, n>> \in handshaken \/ queue[<<m, n>>] # <<>>
  \/ <<n, m>> \in handshaken \/ queue[<<n, m>>] # <<>>

Init ==
  /\ bc = [n \in Node |-> NewBlockchain]
  /\ queue = [p \in Pairs |-> <<>>]
  /\ handshaken = IF StartConnected THEN Pairs ELSE {}
  /\ now = 0
  /\ disconnects = 0

-----------------------------------------------------------------------------
(* Sending                                                                 *)

\* send: one message to one peer.
Send(q, from, to, msg) == [q EXCEPT ![<<from, to>>] = Append(@, msg)]

\* broadcast: to every handshaken peer but the one the message came from.
Broadcast(q, from, excluded, msg) ==
  [p \in Pairs |->
     IF p[1] = from /\ p[2] # excluded /\ p \in handshaken
     THEN Append(q[p], msg)
     ELSE q[p]]

\* The queues after n has taken the oldest message from m.
Taken(m, n) == [queue EXCEPT ![<<m, n>>] = Tail(@)]

\* n takes a message of this type from m; Incoming is that message.
Incoming(m, n) == Head(queue[<<m, n>>])

Takes(n, m, type) ==
  /\ queue[<<m, n>>] # <<>>
  /\ Incoming(m, n).type = type

-----------------------------------------------------------------------------
(* Local events                                                            *)

Tick ==
  /\ now < MaxTime
  /\ now' = now + 1
  /\ UNCHANGED <<bc, queue, handshaken, disconnects>>

\* Mutant: the transaction stays with the node that was asked.
SubmitTransactionLocal(n, tx) ==
  /\ CanAddTransaction(bc[n], tx)
  /\ bc' = [bc EXCEPT ![n] = AddTransaction(@, tx, Clock(n))]
  /\ UNCHANGED <<queue, handshaken, now, disconnects>>

\* The API's submitTransaction: added, then told to every peer.
SubmitTransaction(n, tx) ==
  /\ CanAddTransaction(bc[n], tx)
  /\ bc' = [bc EXCEPT ![n] = AddTransaction(@, tx, Clock(n))]
  /\ queue' = Broadcast(queue, n, n, NewTransaction(tx))
  /\ UNCHANGED <<handshaken, now, disconnects>>

\* The proposer's timer: the block is added locally, then told to every peer.
Propose(n) ==
  /\ \E b \in Proposals(bc[n], KeyOf[n], Clock(n)) :
       /\ CanAddBlock(bc[n], b, Clock(n))
       /\ bc' = [bc EXCEPT ![n] = AddBlock(@, b, Clock(n))]
       /\ queue' = Broadcast(queue, n, n, NewBlock(b))
  /\ UNCHANGED <<handshaken, now, disconnects>>

-----------------------------------------------------------------------------
(* Connections                                                             *)

\* A dial succeeds: both ends register the socket and send their HELLO.
Connect(m, n) ==
  /\ {m, n} \in Peering
  /\ ~IsOpen(m, n)
  /\ queue' = [queue EXCEPT ![<<m, n>>] = <<Hello>>, ![<<n, m>>] = <<Hello>>]
  /\ UNCHANGED <<bc, handshaken, now, disconnects>>

\* The connection breaks and both ends forget it.
Disconnect(m, n) ==
  /\ {m, n} \in Peering
  /\ IsOpen(m, n)
  /\ disconnects < MaxDisconnects
  /\ disconnects' = disconnects + 1
  /\ queue' = [queue EXCEPT ![<<m, n>>] = <<>>, ![<<n, m>>] = <<>>]
  /\ handshaken' = handshaken \ {<<m, n>>, <<n, m>>}
  /\ UNCHANGED <<bc, now>>

\* Mutant: the chain is not requested when the handshake completes.
HandleHelloNoSync(n, m) ==
  /\ Takes(n, m, "HELLO")
  /\ handshaken' = handshaken \cup {<<n, m>>}
  /\ queue' = Taken(m, n)
  /\ UNCHANGED <<bc, now, disconnects>>

\* handleHello, compatible peer: the handshake is done, sync the chain.
HandleHello(n, m) ==
  /\ Takes(n, m, "HELLO")
  /\ handshaken' = handshaken \cup {<<n, m>>}
  /\ queue' = Send(Taken(m, n), n, m, ChainRequest)
  /\ UNCHANGED <<bc, now, disconnects>>

-----------------------------------------------------------------------------
(* Messages (handleMessage); the first HELLO of a queue precedes them all  *)

HandleChainRequest(n, m) ==
  /\ Takes(n, m, "CHAIN_REQUEST")
  /\ queue' = Send(Taken(m, n), n, m, ChainResponse(bc[n].chain))
  /\ UNCHANGED <<bc, handshaken, now, disconnects>>

\* An adopted chain is not passed on to the other peers.
HandleChainResponse(n, m) ==
  /\ Takes(n, m, "CHAIN_RESPONSE")
  /\ LET c == Incoming(m, n).chain
     IN  bc' = [bc EXCEPT ![n] = IF CanReplaceChain(@, c, Clock(n))
                                 THEN ReplaceChain(@, c, Clock(n))
                                 ELSE @]
  /\ queue' = Taken(m, n)
  /\ UNCHANGED <<handshaken, now, disconnects>>

\* Mutant: a block that does not fit is dropped without asking for the chain.
HandleNewBlockNoRequest(n, m) ==
  LET b == Incoming(m, n).block
  IN
  /\ Takes(n, m, "NEW_BLOCK")
  /\ IF CanAddBlock(bc[n], b, Clock(n))
     THEN /\ bc' = [bc EXCEPT ![n] = AddBlock(@, b, Clock(n))]
          /\ queue' = Broadcast(Taken(m, n), n, m, NewBlock(b))
     ELSE /\ queue' = Taken(m, n)
          /\ UNCHANGED bc
  /\ UNCHANGED <<handshaken, now, disconnects>>

\* Mutant: a block we already have is announced again, to its sender too.
HandleNewBlockEcho(n, m) ==
  LET b == Incoming(m, n).block
  IN
  /\ Takes(n, m, "NEW_BLOCK")
  /\ IF CanAddBlock(bc[n], b, Clock(n))
     THEN bc' = [bc EXCEPT ![n] = AddBlock(@, b, Clock(n))]
     ELSE UNCHANGED bc
  /\ queue' = Broadcast(Taken(m, n), n, n, NewBlock(b))
  /\ UNCHANGED <<handshaken, now, disconnects>>

\* A block that is added is relayed; one we are past is ignored; for any other
\* the sender's whole chain is requested.
HandleNewBlock(n, m) ==
  LET b == Incoming(m, n).block
  IN
  /\ Takes(n, m, "NEW_BLOCK")
  /\ \/ /\ CanAddBlock(bc[n], b, Clock(n))
        /\ bc' = [bc EXCEPT ![n] = AddBlock(@, b, Clock(n))]
        /\ queue' = Broadcast(Taken(m, n), n, m, NewBlock(b))
     \/ /\ AlreadyHave(bc[n], b)
        /\ queue' = Taken(m, n)
        /\ UNCHANGED bc
     \/ /\ ~CanAddBlock(bc[n], b, Clock(n))
        /\ ~AlreadyHave(bc[n], b)
        /\ queue' = Send(Taken(m, n), n, m, ChainRequest)
        /\ UNCHANGED bc
  /\ UNCHANGED <<handshaken, now, disconnects>>

\* A transaction is relayed only when it was new here.
HandleNewTransaction(n, m) ==
  LET tx == Incoming(m, n).transaction
  IN
  /\ Takes(n, m, "NEW_TRANSACTION")
  /\ IF CanAddTransaction(bc[n], tx)
     THEN /\ bc' = [bc EXCEPT ![n] = AddTransaction(@, tx, Clock(n))]
          /\ queue' = Broadcast(Taken(m, n), n, m, NewTransaction(tx))
     ELSE /\ queue' = Taken(m, n)
          /\ UNCHANGED bc
  /\ UNCHANGED <<handshaken, now, disconnects>>

\* n handles the oldest message from m.
Deliver(n, m) ==
  \/ HandleHello(n, m)
  \/ HandleChainRequest(n, m)
  \/ HandleChainResponse(n, m)
  \/ HandleNewBlock(n, m)
  \/ HandleNewTransaction(n, m)

Next ==
  \/ Tick
  \/ \E s \in ClientInput : SubmitTransaction(s[1], s[2])
  \/ \E n \in Node : Propose(n)
  \/ \E p \in Pairs : Connect(p[1], p[2])
  \/ \E p \in Pairs : Disconnect(p[1], p[2])
  \/ \E p \in Pairs : Deliver(p[1], p[2])

\* The event loop handles what has arrived, and maintainConnections dials
\* every peer that is not connected.  Nothing else is owed.  The first conjunct
\* is WF_vars(Deliver(n, m)) without ENABLED, which TLC would evaluate for each
\* step: some handler takes whatever message is the oldest.
Fairness ==
  /\ \A p \in Pairs :
       \/ []<>(queue[<<p[2], p[1]>>] = <<>>)
       \/ []<><<Deliver(p[1], p[2])>>_vars
  /\ \A p \in Pairs : WF_vars(Connect(p[1], p[2]))

Spec == Init /\ [][Next]_vars

FairSpec == Spec /\ Fairness

-----------------------------------------------------------------------------
(* Properties                                                              *)

Height(n) == Len(bc[n].chain)

\* Every connection is up in both directions and nothing is in flight.
Quiet ==
  /\ handshaken = Pairs
  /\ \A p \in Pairs : queue[p] = <<>>

\* Once the gossip has drained, nobody is behind: all chains are equally long
\* (of two equally long forks each node keeps its own, by the length rule).
QuietAgreement == Quiet => \A m, n \in Node : Height(m) = Height(n)

\* A transfer that some node holds or confirms, or that is on its way to one.
Survives(tx) ==
  \/ \E n \in Node :
       \/ tx \in bc[n].pendingTransactions
       \/ \E i \in DOMAIN bc[n].chain : tx \in Range(bc[n].chain[i].transactions)
  \/ \E e \in Pairs : NewTransaction(tx) \in Range(queue[e])

\* As long as no connection was lost, no reorganisation loses a transfer: the
\* nodes that confirmed it on the branch they abandon have forgotten it, but
\* then some other node still holds it.
NoTransferLost ==
  [][\A s \in ClientInput :
       (StartConnected /\ disconnects' = 0 /\ Survives(s[2])) => Survives(s[2])']_vars

\* Flooding, chain requests and their answers come to an end: once clients and
\* connections are stable, the network comes to rest with all heights equal.
GossipSettles == <>[](Quiet /\ QuietAgreement)

-----------------------------------------------------------------------------
(* Hypotheses of the theorems about agreement                              *)

\* Any two nodes can reach each other.
IsFullMesh == \A m, n \in Node : m # n => {m, n} \in Peering

\* Clocks are synchronised, so that nodes accept each other's new blocks.
ClocksClose ==
  \A m, n \in Node : ClockOffset[m] <= ClockOffset[n] + MaxFutureDrift

=============================================================================
