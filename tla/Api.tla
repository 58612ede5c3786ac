-------------------------------- MODULE Api --------------------------------
(***************************************************************************)
(* The subscriptions of a node's WebSocket API (api.ts), on top of Node.   *)
(* What a client was last sent of each topic is its view; a connection     *)
(* delivers in order, so that is what a client that reads will show.       *)
(*                                                                         *)
(* A client that vanishes without a word leaves a half-open socket: the    *)
(* node goes on sending until two heartbeats have passed.  The time-based  *)
(* part of a status (serverTime, slot, proposers) is left out.             *)
(***************************************************************************)
EXTENDS Node

CONSTANTS
  Clients,     \* clients of the API
  TopicSets,   \* the sets of topics a request may name
  PeerInfo,    \* what getPeerInfo may return
  NoPeers,     \* what it returns when no peer is connected
  NoView,      \* nothing was sent yet; also lastPeersJson before its first use
  MaxChanges   \* bound: changes of the peers, and clients that vanish

ASSUME ApiAssumption == NoPeers \in PeerInfo

VARIABLES
  socket,         \* client -> "none", "open", "halfopen" (vanished) or "closing"
  subscriptions,  \* client -> its topics; {} for one without a socket
  due,            \* client -> topics whose first snapshot is to be sent
  alive,          \* client -> it answered since the last ping
  view,           \* client -> topic -> what it was last sent
  peers,          \* what getPeerInfo returns now
  lastPeersJson,  \* what it returned at the last push of peers
  changes         \* number of changes so far

apiVars ==
  <<socket, subscriptions, due, alive, view, peers, lastPeersJson, changes>>

allVars == <<vars, apiVars>>

Topics == {"status", "blocks", "pending", "peers"}

GetStatus(b) ==
  [ latest  |-> GetLatestBlock(b),
    pending |-> Cardinality(b.pendingTransactions) ]

\* snapshots: what a topic shows of a node's state.
SnapshotOf(topic, b, info) ==
  CASE topic = "status"  -> GetStatus(b)
    [] topic = "blocks"  -> b.chain
    [] topic = "pending" -> b.pendingTransactions
    [] topic = "peers"   -> info

IsOpen(c) == socket[c] \in {"open", "halfopen"}

\* publish, for several topics: to every open subscriber.
Publish(topics, b, info) ==
  view' = [c \in Clients |-> [t \in Topics |->
             IF IsOpen(c) /\ t \in topics \cap subscriptions[c]
             THEN SnapshotOf(t, b, info)
             ELSE view[c][t]]]

ApiInit ==
  /\ Init
  /\ socket = [c \in Clients |-> "none"]
  /\ subscriptions = [c \in Clients |-> {}]
  /\ due = [c \in Clients |-> {}]
  /\ alive = [c \in Clients |-> FALSE]
  /\ view = [c \in Clients |-> [t \in Topics |-> NoView]]
  /\ peers = NoPeers
  /\ lastPeersJson = NoView
  /\ changes = 0

-----------------------------------------------------------------------------
(* Events of the blockchain                                                *)

\* Mutant: a new block is pushed without the mempool it has pruned.
BlocksTopicsOnly == {"blocks", "status"}

\* What a 'pending' and a 'blocks' event publish.
PendingTopics == {"pending", "status"}

BlocksTopics == {"blocks", "pending", "status"}

\* addTransaction and sweepMempool emit 'pending', addBlock and replaceChain
\* emit 'blocks', each at its end.
NodeEvent ==
  /\ \/ /\ SweepMempool \/ \E tx \in TxInput : SubmitTransaction(tx)
        /\ Publish(PendingTopics, bc', peers)
     \/ /\ \/ Propose
           \/ \E b \in BlockInput : ReceiveBlock(b)
           \/ \E ch \in ChainInput : ReceiveChain(ch)
        /\ Publish(BlocksTopics, bc', peers)
  /\ UNCHANGED <<socket, subscriptions, due, alive, peers, lastPeersJson, changes>>

\* A crash takes all connections with it, those to peers too.
NodeRestart ==
  /\ Restart
  /\ socket' = [c \in Clients |-> "none"]
  /\ subscriptions' = [c \in Clients |-> {}]
  /\ due' = [c \in Clients |-> {}]
  /\ alive' = [c \in Clients |-> FALSE]
  /\ view' = [c \in Clients |-> [t \in Topics |-> NoView]]
  /\ peers' = NoPeers
  /\ lastPeersJson' = NoView
  /\ UNCHANGED changes

TimePasses == Tick /\ UNCHANGED apiVars

-----------------------------------------------------------------------------
(* Timers                                                                  *)

\* Peers connect and disconnect; no event tells the API.
PeersChange ==
  /\ changes < MaxChanges
  /\ \E info \in PeerInfo \ {peers} : peers' = info
  /\ changes' = changes + 1
  /\ UNCHANGED <<vars, socket, subscriptions, due, alive, view, lastPeersJson>>

\* Mutant: a change of the peers is noted, but not sent.
StatusTimerSilent ==
  /\ Publish({"status"}, bc, peers)
  /\ lastPeersJson' = peers
  /\ UNCHANGED <<vars, socket, subscriptions, due, alive, peers, changes>>

\* Every second: status to all, and peers if they differ from the last push.
StatusTimer ==
  /\ Publish(IF peers = lastPeersJson THEN {"status"} ELSE {"status", "peers"},
             bc, peers)
  /\ lastPeersJson' = peers
  /\ UNCHANGED <<vars, socket, subscriptions, due, alive, peers, changes>>

\* Mutant: a client that does not answer is pinged for ever.
HeartbeatPatient(c) ==
  /\ IsOpen(c) /\ alive[c]
  /\ alive' = [alive EXCEPT ![c] = FALSE]
  /\ UNCHANGED <<vars, socket, subscriptions, due, view, peers,
                 lastPeersJson, changes>>

\* The heartbeat, for one client: a ping, or the end of a silent socket.
Heartbeat(c) ==
  /\ IsOpen(c)
  /\ \/ /\ alive[c]
        /\ alive' = [alive EXCEPT ![c] = FALSE]
        /\ UNCHANGED socket
     \/ /\ ~alive[c]
        /\ socket' = [socket EXCEPT ![c] = "closing"]
        /\ UNCHANGED alive
  /\ UNCHANGED <<vars, subscriptions, due, view, peers, lastPeersJson, changes>>

-----------------------------------------------------------------------------
(* Connections and requests                                                *)

Connect(c) ==
  /\ socket[c] = "none"
  /\ socket' = [socket EXCEPT ![c] = "open"]
  /\ alive' = [alive EXCEPT ![c] = TRUE]
  /\ UNCHANGED <<vars, subscriptions, due, view, peers, lastPeersJson, changes>>

\* A client that is there answers the ping.
Pong(c) ==
  /\ socket[c] = "open" /\ ~alive[c]
  /\ alive' = [alive EXCEPT ![c] = TRUE]
  /\ UNCHANGED <<vars, socket, subscriptions, due, view, peers,
                 lastPeersJson, changes>>

\* A client disappears without closing its connection.
Vanish(c) ==
  /\ socket[c] = "open"
  /\ changes < MaxChanges
  /\ changes' = changes + 1
  /\ socket' = [socket EXCEPT ![c] = "halfopen"]
  /\ UNCHANGED <<vars, subscriptions, due, alive, view, peers, lastPeersJson>>

\* The 'close' event, of a socket we terminated or one the client closed.
Close(c) ==
  /\ socket[c] \in {"open", "closing"}
  /\ socket' = [socket EXCEPT ![c] = "none"]
  /\ subscriptions' = [subscriptions EXCEPT ![c] = {}]
  /\ due' = [due EXCEPT ![c] = {}]
  /\ alive' = [alive EXCEPT ![c] = FALSE]
  /\ view' = [view EXCEPT ![c] = [t \in Topics |-> NoView]]
  /\ UNCHANGED <<vars, peers, lastPeersJson, changes>>

\* subscribe: from now on pushes go out; the first snapshot follows in a
\* callback of its own (setImmediate).
Subscribe(c, topics) ==
  /\ socket[c] = "open"
  /\ subscriptions' = [subscriptions EXCEPT ![c] = @ \cup topics]
  /\ due' = [due EXCEPT ![c] = @ \cup topics]
  /\ UNCHANGED <<vars, socket, alive, view, peers, lastPeersJson, changes>>

SendSnapshots(c) ==
  /\ due[c] # {}
  /\ due' = [due EXCEPT ![c] = {}]
  /\ view' = IF IsOpen(c)
             THEN [view EXCEPT ![c] = [t \in Topics |->
                     IF t \in due[c] THEN SnapshotOf(t, bc, peers) ELSE @[t]]]
             ELSE view
  /\ UNCHANGED <<vars, socket, subscriptions, alive, peers, lastPeersJson, changes>>

Unsubscribe(c, topics) ==
  /\ socket[c] = "open"
  /\ subscriptions' = [subscriptions EXCEPT ![c] = @ \ topics]
  /\ UNCHANGED <<vars, socket, due, alive, view, peers, lastPeersJson, changes>>

-----------------------------------------------------------------------------
ApiNext ==
  \/ NodeEvent \/ NodeRestart \/ TimePasses
  \/ PeersChange \/ StatusTimer
  \/ \E c \in Clients :
       \/ Connect(c) \/ Close(c) \/ Vanish(c)
       \/ Heartbeat(c) \/ Pong(c) \/ SendSnapshots(c)
       \/ \E topics \in TopicSets : Subscribe(c, topics) \/ Unsubscribe(c, topics)

\* The timers run, and what is due or closing is handled.
ApiFairness ==
  /\ WF_allVars(StatusTimer)
  /\ \A c \in Clients :
       /\ WF_allVars(Heartbeat(c))
       /\ WF_allVars(SendSnapshots(c))
       /\ WF_allVars(socket[c] = "closing" /\ Close(c))

ApiSpec == ApiInit /\ [][ApiNext]_allVars /\ ApiFairness

-----------------------------------------------------------------------------
(* Properties                                                              *)

\* c's subscription to a topic is up and its first snapshot is out.
Follows(c, topic) ==
  IsOpen(c) /\ topic \in subscriptions[c] \ due[c]

\* What a subscriber shows of blocks, mempool and status is the node's, after
\* its first snapshot and after every transaction, block, reorganisation and sweep.
ViewsCurrent ==
  \A c \in Clients :
    \A topic \in {"blocks", "pending", "status"} :
      Follows(c, topic) => view[c][topic] = SnapshotOf(topic, bc, peers)

\* A subscription of a client that has vanished does not last.
VanishedDropped ==
  \A c \in Clients : socket[c] = "halfopen" ~> subscriptions[c] = {}

\* A subscriber that was sent what the timer saw last is told when the peers
\* are different from then on.  (One whose first snapshot shows a change that
\* is undone before the timer has seen it is not.)
PeersReachSubscribers ==
  \A c \in Clients :
    (Follows(c, "peers") /\ view[c]["peers"] = lastPeersJson)
      ~> (~Follows(c, "peers") \/ view[c]["peers"] = peers)

=============================================================================
