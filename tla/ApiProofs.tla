------------------------------ MODULE ApiProofs ------------------------------
(***************************************************************************)
(* Proofs about Api: what a subscriber was last sent of the blocks, the    *)
(* mempool and the status is what the node has, whatever happens to the    *)
(* node, to its clients and to their connections.                          *)
(*                                                                         *)
(* The steps of the node are those of Node, so its inductive invariant     *)
(* holds here too; it is what shows that an event which publishes only     *)
(* the mempool has not changed the chain.                                  *)
(***************************************************************************)
EXTENDS Api, NodeProofs

-----------------------------------------------------------------------------
(* The node under its API                                                  *)

\* A step of the node with its API is one of the node, or none.
LEMMA ApiStepIsNodeStep == [ApiNext]_allVars => [Next]_vars
<1>1. NodeEvent => Next
  BY DEF NodeEvent, Next
<1>2. NodeRestart => Next
  BY DEF NodeRestart, Next
<1>3. TimePasses => Next
  BY DEF TimePasses, Next
<1>4. PeersChange \/ StatusTimer => UNCHANGED vars
  BY DEF PeersChange, StatusTimer
<1>5. ASSUME NEW c \in Clients,
             \/ Connect(c) \/ Close(c) \/ Vanish(c)
             \/ Heartbeat(c) \/ Pong(c) \/ SendSnapshots(c)
             \/ \E topics \in TopicSets :
                  Subscribe(c, topics) \/ Unsubscribe(c, topics)
      PROVE  UNCHANGED vars
  BY <1>5 DEF Connect, Close, Vanish, Heartbeat, Pong, SendSnapshots,
              Subscribe, Unsubscribe
<1> QED
  BY <1>1, <1>2, <1>3, <1>4, <1>5 DEF ApiNext, allVars

\* The inductive invariant of the node holds under its API.
LEMMA NodeSoundUnderApi == ApiInit /\ [][ApiNext]_allVars => []IInv
<1>1. ApiInit => Init
  BY DEF ApiInit
<1> QED
  BY <1>1, ApiStepIsNodeStep, InitIInv, NextIInv, PTL

-----------------------------------------------------------------------------
(* Views                                                                   *)

LedgerTopics == {"blocks", "pending", "status"}

\* What the topics show: only peers depends on the connections of the node.
LEMMA Snapshots ==
  ASSUME NEW o, NEW info
  PROVE  /\ SnapshotOf("blocks", o, info) = o.chain
         /\ SnapshotOf("pending", o, info) = o.pendingTransactions
         /\ SnapshotOf("status", o, info) = GetStatus(o)
BY DEF SnapshotOf

\* What a topic shows does not depend on the peers, nor on arrival times.
LEMMA SameSnapshots ==
  ASSUME NEW o, NEW r, r.chain = o.chain,
         r.pendingTransactions = o.pendingTransactions,
         NEW topic \in LedgerTopics, NEW info, NEW info2
  PROVE  SnapshotOf(topic, r, info2) = SnapshotOf(topic, o, info)
BY Snapshots DEF LedgerTopics, GetStatus, GetLatestBlock

ApiShape ==
  /\ socket = [c \in Clients |-> socket[c]]
  /\ subscriptions = [c \in Clients |-> subscriptions[c]]
  /\ due = [c \in Clients |-> due[c]]
  /\ view = [c \in Clients |-> [t \in Topics |-> view[c][t]]]

\* c does not miss what topic shows of the object b.
Shows(c, topic, b) ==
  Follows(c, topic) => view[c][topic] = SnapshotOf(topic, b, peers)

\* A client without a socket has no subscriptions: one that comes back starts
\* from a first snapshot.
ViewInv ==
  /\ ApiShape
  /\ \A c \in Clients : socket[c] = "none" => subscriptions[c] = {}
  /\ \A c \in Clients : \A topic \in LedgerTopics : Shows(c, topic, bc)

LEMMA InitView == ApiInit => ViewInv
<1> SUFFICES ASSUME ApiInit
             PROVE  ViewInv
  OBVIOUS
<1>1. ApiShape
  BY DEF ApiInit, ApiShape
<1>2. \A c \in Clients : socket[c] = "none" /\ subscriptions[c] = {}
  BY DEF ApiInit
<1> QED
  BY <1>1, <1>2 DEF ViewInv, Shows, Follows, IsOpen

\* A publication of all that has changed keeps every subscriber up to date.
LEMMA PublishShows ==
  ASSUME ViewInv, NEW topics, Publish(topics, bc', peers'),
         \A topic \in LedgerTopics \ topics :
           SnapshotOf(topic, bc', peers') = SnapshotOf(topic, bc, peers),
         UNCHANGED <<socket, subscriptions, due>>
  PROVE  ViewInv'
<1>1. \A c \in Clients : \A t \in Topics :
        view'[c][t] = IF IsOpen(c) /\ t \in topics \cap subscriptions[c]
                      THEN SnapshotOf(t, bc', peers')
                      ELSE view[c][t]
  BY DEF Publish
<1>2. ApiShape'
  BY DEF Publish, ViewInv, ApiShape
<1>3. ASSUME NEW c \in Clients, NEW topic \in LedgerTopics, Follows(c, topic)'
      PROVE  view'[c][topic] = SnapshotOf(topic, bc', peers')
  <2>1. topic \in Topics
    BY DEF LedgerTopics, Topics
  <2>2. Follows(c, topic) /\ IsOpen(c) /\ topic \in subscriptions[c]
    BY <1>3 DEF Follows, IsOpen
  <2>3. view[c][topic] = SnapshotOf(topic, bc, peers)
    BY <2>2 DEF ViewInv, Shows
  <2> QED
    BY <1>1, <2>1, <2>2, <2>3
<1> QED
  BY <1>2, <1>3 DEF ViewInv, Shows

\* A step that leaves the ledger and the views alone, and lets nobody follow
\* more than before.
LEMMA QuietStep ==
  ASSUME ViewInv, UNCHANGED <<bc, view>>, ApiShape',
         \A c \in Clients : socket'[c] = "none" => subscriptions'[c] = {},
         \A c \in Clients : \A topic : Follows(c, topic)' => Follows(c, topic)
  PROVE  ViewInv'
<1>1. \A c \in Clients : \A topic \in LedgerTopics : Shows(c, topic, bc)'
  BY SameSnapshots DEF ViewInv, Shows
<1> QED
  BY <1>1 DEF ViewInv

\* What the node does, and tells its subscribers.
LEMMA NodeEventShows == IInv /\ ViewInv /\ NodeEvent => ViewInv'
<1> SUFFICES ASSUME IInv, ViewInv, NodeEvent
             PROVE  ViewInv'
  OBVIOUS
<1>0. /\ ObjectOK(bc, now) /\ now \in Nat /\ IsObject(bc)
      /\ UNCHANGED <<socket, subscriptions, due>> /\ peers' = peers
  BY NodeAssumption DEF IInv, ObjectOK, UnprunedOK, NodeEvent
<1>1. CASE /\ SweepMempool \/ \E tx \in TxInput : SubmitTransaction(tx)
           /\ Publish(PendingTopics, bc', peers)
  <2>1. bc'.chain = bc.chain
    <3>1. CASE SweepMempool
      BY <1>0, <3>1, PruneFacts DEF SweepMempool, ObjectOK, UnprunedOK
    <3>2. CASE \E tx \in TxInput : SubmitTransaction(tx)
      BY <1>0, <3>2 DEF SubmitTransaction, AddTransaction, IsObject
    <3> QED
      BY <1>1, <3>1, <3>2
  <2>2. \A topic \in LedgerTopics \ PendingTopics :
          SnapshotOf(topic, bc', peers') = SnapshotOf(topic, bc, peers)
    BY <2>1, Snapshots DEF LedgerTopics, PendingTopics
  <2> QED
    BY <1>0, <1>1, <2>2, PublishShows
<1>2. CASE Publish(BlocksTopics, bc', peers)
  <2>1. \A topic \in LedgerTopics \ BlocksTopics :
          SnapshotOf(topic, bc', peers') = SnapshotOf(topic, bc, peers)
    BY DEF LedgerTopics, BlocksTopics
  <2> QED
    BY <1>0, <1>2, <2>1, PublishShows
<1> QED
  BY <1>1, <1>2 DEF NodeEvent

\* The timers of the API.
LEMMA TimersShow ==
  ASSUME ViewInv, PeersChange \/ StatusTimer \/ TimePasses
  PROVE  ViewInv'
<1>1. CASE PeersChange \/ TimePasses
  <2>1. /\ UNCHANGED <<bc, view, socket, subscriptions, due>>
    BY <1>1 DEF PeersChange, TimePasses, Tick, vars, apiVars
  <2> QED
    BY <2>1, QuietStep DEF ViewInv, ApiShape, Follows, IsOpen
<1>2. CASE StatusTimer
  <2>1. /\ UNCHANGED <<bc, peers, socket, subscriptions, due>>
        /\ \E topics : Publish(topics, bc', peers')
    BY <1>2 DEF StatusTimer, vars
  <2> QED
    BY <2>1, PublishShows
<1> QED
  BY <1>1, <1>2

\* What the clients do, and what becomes of their connections.
LEMMA ClientsShow ==
  ASSUME ViewInv, NEW c \in Clients,
         \/ Connect(c) \/ Close(c) \/ Vanish(c)
         \/ Heartbeat(c) \/ Pong(c) \/ SendSnapshots(c)
         \/ \E topics \in TopicSets :
              Subscribe(c, topics) \/ Unsubscribe(c, topics)
  PROVE  ViewInv'
<1>0. /\ ApiShape
      /\ socket[c] = "none" => subscriptions[c] = {}
      /\ UNCHANGED <<bc, peers>>
  BY DEF ViewInv, Connect, Close, Vanish, Heartbeat, Pong, SendSnapshots,
         Subscribe, Unsubscribe, vars
<1>1. CASE Connect(c) \/ Vanish(c) \/ Heartbeat(c) \/ Pong(c)
  <2>1. /\ UNCHANGED <<bc, view, subscriptions, due>>
        /\ \A d \in Clients :
             \/ socket'[d] = socket[d]
             \/ socket[d] = "none" /\ subscriptions[d] = {}
             \/ socket[d] \in {"open", "halfopen"} /\ socket'[d] # "none"
        /\ ApiShape'
    BY <1>0, <1>1
       DEF Connect, Vanish, Heartbeat, Pong, IsOpen, ApiShape, vars
  <2> QED
    BY <2>1, QuietStep DEF ViewInv, Follows, IsOpen
<1>2. CASE Close(c)
  <2>1. /\ ApiShape'
        /\ socket'[c] = "none" /\ subscriptions'[c] = {}
        /\ \A d \in Clients : d # c =>
             /\ socket'[d] = socket[d] /\ subscriptions'[d] = subscriptions[d]
             /\ due'[d] = due[d] /\ view'[d] = view[d]
    BY <1>0, <1>2 DEF Close, ApiShape
  <2> QED
    BY <1>0, <2>1 DEF ViewInv, Shows, Follows, IsOpen
<1>3. CASE SendSnapshots(c)
  <2>1. /\ ApiShape'
        /\ UNCHANGED <<socket, subscriptions>>
        /\ due'[c] = {}
        /\ \A d \in Clients : d # c => due'[d] = due[d] /\ view'[d] = view[d]
    BY <1>0, <1>3 DEF SendSnapshots, ApiShape
  <2>2. ASSUME NEW topic \in LedgerTopics, Follows(c, topic)'
        PROVE  view'[c][topic] = SnapshotOf(topic, bc', peers')
    <3>1. IsOpen(c) /\ topic \in subscriptions[c] /\ topic \in Topics
      BY <2>1, <2>2 DEF Follows, IsOpen, LedgerTopics, Topics
    <3>2. view'[c][topic] = IF topic \in due[c]
                            THEN SnapshotOf(topic, bc, peers)
                            ELSE view[c][topic]
      BY <1>0, <1>3, <3>1 DEF SendSnapshots, ApiShape
    <3>3. topic \notin due[c] => view[c][topic] = SnapshotOf(topic, bc, peers)
      BY <3>1 DEF ViewInv, Shows, Follows
    <3> QED
      BY <1>0, <3>2, <3>3
  <2> QED
    BY <1>0, <2>1, <2>2 DEF ViewInv, Shows, Follows, IsOpen
<1>4. CASE \E topics \in TopicSets :
             Subscribe(c, topics) \/ Unsubscribe(c, topics)
  <2>1. PICK topics : Subscribe(c, topics) \/ Unsubscribe(c, topics)
    BY <1>4
  <2>2. /\ ApiShape' /\ UNCHANGED <<bc, view, socket>>
        /\ socket[c] = "open"
        /\ \A d \in Clients : d # c =>
             subscriptions'[d] = subscriptions[d] /\ due'[d] = due[d]
        /\ \A topic : topic \in subscriptions'[c] \ due'[c]
                        => topic \in subscriptions[c] \ due[c]
    BY <1>0, <2>1 DEF Subscribe, Unsubscribe, ApiShape, vars
  <2> QED
    BY <2>2, QuietStep DEF ViewInv, Follows, IsOpen
<1> QED
  BY <1>1, <1>2, <1>3, <1>4

\* A restart leaves nobody connected.
LEMMA RestartShows ==
  ASSUME ViewInv, NodeRestart
  PROVE  ViewInv'
<1>1. ApiShape' /\ \A c \in Clients : socket'[c] = "none" /\ subscriptions'[c] = {}
  BY DEF NodeRestart, ApiShape
<1> QED
  BY <1>1 DEF ViewInv, Shows, Follows, IsOpen

LEMMA NextView == IInv /\ ViewInv /\ [ApiNext]_allVars => ViewInv'
<1> SUFFICES ASSUME IInv, ViewInv, [ApiNext]_allVars
             PROVE  ViewInv'
  OBVIOUS
<1>1. CASE UNCHANGED allVars
  BY <1>1 DEF allVars, vars, apiVars, ViewInv, ApiShape, Shows, Follows, IsOpen
<1> QED
  BY <1>1, NodeEventShows, RestartShows, TimersShow, ClientsShow DEF ApiNext

\* Once its first snapshot is out a subscriber never shows an older mempool,
\* chain or status than the node has, for any number of clients.
THEOREM ViewsStayCurrent == ApiSpec => []ViewsCurrent
<1>1. ViewInv => ViewsCurrent
  BY DEF ViewInv, Shows, LedgerTopics, ViewsCurrent
<1>2. ApiInit /\ [][ApiNext]_allVars => []ViewInv
  BY InitView, NextView, NodeSoundUnderApi, PTL
<1> QED
  BY <1>1, <1>2, PTL DEF ApiSpec

=============================================================================
