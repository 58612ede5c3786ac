------------------------------ MODULE Peering ------------------------------
(***************************************************************************)
(* How nodes find each other and keep one connection per pair: dialling,   *)
(* the HELLO handshake, duplicate connections, peer exchange, backoff and  *)
(* the heartbeat (p2p.ts with PeerTable).                                  *)
(*                                                                         *)
(* A connection <<n, a, k>> was dialled by n at address a; k tells apart a *)
(* new connection from an old one whose other end has not noticed its end. *)
(* It has an "out" end at n and an "in" end at the node that listens at a, *)
(* each with its own view: what it handles, and when it notices that the   *)
(* other side is gone, is up to the scheduler.  TCP delivers in order, so  *)
(* an end reads the HELLO that was sent before it sees the close; a wire   *)
(* that breaks loses it, and neither end is told.                          *)
(*                                                                         *)
(* Abstracted: the listening side's 'connection' and the dialler's 'open'  *)
(* are one step (the former can do nothing before the latter); GET_PEERS   *)
(* and its PEERS answer, or a PEERS push, are one step; backoff delays are *)
(* "not yet" and "over"; a live peer answers pings in time.  The chain     *)
(* messages are in Network.                                                *)
(***************************************************************************)
EXTENDS PeerTable

CONSTANTS
  Node,        \* the nodes
  NoNode,      \* "nobody listens there"
  ListensAt,   \* address -> the node that answers there, or NoNode
  RemoteIp,    \* node -> the IP address others see its connections come from
  Port,        \* node -> the port it listens on (p2pPort)
  Bootnodes,   \* node -> the addresses it is configured with
  Genesis,     \* node -> its genesis hash and slot parameters
  NodeIds,     \* random identifiers, ordered; one per process start
  FirstIds,    \* what the random choice may give the nodes at first
  NoId,        \* "no HELLO", and "not handshaken"
  Copy,        \* bound: connections of one dialler to one address at a time
  MaxFaults    \* bound on broken wires and failed dials to live addresses

Address == DOMAIN ListensAt

\* Where the others see a node listen: its remote IP and announced port.
SeenAs == [n \in Node |-> AddressFromRemote(RemoteIp[n], Port[n])]

ASSUME PeeringAssumption ==
  /\ ListensAt \in [Address -> Node \cup {NoNode}]
  /\ SeenAs \in [Node -> Address]
  /\ \A n \in Node : /\ IsFiniteSet(Normalized(Bootnodes[n]))
                     /\ Normalized(Bootnodes[n]) \subseteq Address
  /\ NodeIds \subseteq Nat /\ NoId \notin NodeIds
  /\ \A f \in FirstIds : /\ f \in [Node -> NodeIds]
                         /\ \A m, n \in Node : f[m] = f[n] => m = n
  /\ Copy \subseteq Nat
  /\ MaxFaults \in Nat

VARIABLES
  conn,     \* connection -> [out, in : its ends, up : the wire works]
  table,    \* node -> its PeerTable object
  backoff,  \* node -> addresses it may not dial yet (nextAttempt > now)
  id,       \* node -> its nodeId
  spare,    \* identifiers no process has used
  faults,   \* number of faults so far
  failing   \* history: node -> addresses whose latest dial by this process failed

vars == <<conn, table, backoff, id, spare, faults, failing>>

-----------------------------------------------------------------------------
(* Connections                                                             *)

\* Every node blocks this address before it dials for the first time.
OwnAddress(n) ==
  NormalizeAddress([scheme |-> "ws", host |-> "localhost", port |-> Port[n]])

Connection == {c \in Node \X Address \X Copy : c[2] # OwnAddress(c[1])}

\* TrackedSocket: peer is the remote nodeId once handshaken; hello is the
\* HELLO that is on its way to this end.  An end is in `sockets` when open or
\* closing (terminated, its 'close' event still to come).
End(st, hello) ==
  [st |-> st, peer |-> NoId, expectedClose |-> FALSE, hello |-> hello]

NoEnd == End("none", NoId)
NoConnection == [out |-> NoEnd, in |-> NoEnd, up |-> TRUE]

Ends == {"out", "in"}
Other(e) == IF e = "out" THEN "in" ELSE "out"
Owner(c, e) == IF e = "out" THEN c[1] ELSE ListensAt[c[2]]

IsHandshaken(c, e) == conn[c][e].peer # NoId

\* The ends that are in some node's sockets and handshaken.
Handshaken == {x \in Connection \X Ends : IsHandshaken(x[1], x[2])}

\* Where the peer at the other end can be dialled, as this end sees it.
AnnouncedAddress(c, e) ==
  IF e = "out" THEN c[2] ELSE SeenAs[c[1]]

\* terminate: no more messages here; the 'close' event follows.
Terminated(end) == [end EXCEPT !.st = "closing", !.hello = NoId]
ClosedOnPurpose(end) == [Terminated(end) EXCEPT !.expectedClose = TRUE]

\* Mutant: an end that is gone keeps what it knew.
GoneStale(cs, c, e) == [cs EXCEPT ![c][e].st = "none"]

\* The connections after one end is gone; both ends gone frees the name.
Gone(cs, c, e) ==
  [cs EXCEPT ![c] = IF @[Other(e)].st = "none"
                    THEN NoConnection
                    ELSE [@ EXCEPT ![e] = NoEnd]]

-----------------------------------------------------------------------------
(* Dialling                                                                *)

\* dialing: from the dial until the socket's 'close' event.
IsDialing(cs, n, a) == \E k \in Copy : cs[<<n, a, k>>].out.st # "none"

\* isConnected.
IsConnected(cs, n, a) ==
  \E c \in Connection, e \in Ends :
    /\ Owner(c, e) = n
    /\ cs[c][e].peer # NoId
    /\ AnnouncedAddress(c, e) = a
    /\ cs[c][e].st = "open"

\* The addresses maintainConnections dials.  An unverified one is dialled
\* also when its owner is connected to us: that dial verifies it.
Dialable(cs, n, t, waiting) ==
  {a \in DOMAIN t.entries :
     /\ ~IsDialing(cs, n, a)
     /\ a \notin waiting
     /\ ~(t.entries[a].seen /\ IsConnected(cs, n, a))}

\* maintainConnections and dial: all of them at once.
MaintainConnections(cs, n, t, waiting) ==
  LET dials   == Dialable(cs, n, t, waiting)
      Free(a) == {k \in Copy : cs[<<n, a, k>>] = NoConnection}
  IN  [c \in Connection |->
         IF /\ c[1] = n
            /\ c[2] \in dials
            /\ c[3] \in Free(c[2])
            /\ \A k \in Free(c[2]) : c[3] <= k
         THEN [NoConnection EXCEPT !.out = End("connecting", NoId)]
         ELSE cs[c]]

\* onDialFailed.
DialFailed(n, a) ==
  LET t == RecordFailure(table[n], a, Normalized(Bootnodes[n]))
  IN  /\ table' = [table EXCEPT ![n] = t]
      /\ backoff' = [backoff EXCEPT ![n] =
           IF a \in DOMAIN table[n].entries /\ a \notin DOMAIN t.entries
           THEN @ \ {a}
           ELSE @ \cup {a}]
      /\ failing' = [failing EXCEPT ![n] = @ \cup {a}]

-----------------------------------------------------------------------------
(* Process start                                                           *)

\* The constructors of PeerTable and P2PNode: our own address is blocked.
FreshTables(n, saved) ==
  {Block(t, OwnAddress(n)) : t \in NewTables(Normalized(Bootnodes[n]), saved)}

\* start of every node: each dials its bootnodes.
Init ==
  /\ table \in {f \in [Node -> UNION {FreshTables(n, <<>>) : n \in Node}] :
                  \A n \in Node : f[n] \in FreshTables(n, <<>>)}
  /\ conn = [c \in Connection |->
       IF c[2] \in DOMAIN table[c[1]].entries /\ \A k \in Copy : c[3] <= k
       THEN [NoConnection EXCEPT !.out = End("connecting", NoId)]
       ELSE NoConnection]
  /\ backoff = [n \in Node |-> {}]
  /\ id \in FirstIds
  /\ spare = NodeIds \ Range(id)
  /\ faults = 0
  /\ failing = [n \in Node |-> {}]

\* The process dies and starts again: its sockets are gone, its peer table
\* comes from the file, and it has a new nodeId.
Restart(n) ==
  \E i \in spare, t \in FreshTables(n, Saved(table[n])) :
    LET Mine(c, e) == Owner(c, e) = n
        left == [c \in Connection |->
          IF \A e \in Ends : Mine(c, e) \/ conn[c][e].st = "none"
          THEN NoConnection
          ELSE [conn[c] EXCEPT !.out = IF Mine(c, "out") THEN NoEnd ELSE @,
                               !.in  = IF Mine(c, "in") THEN NoEnd ELSE @]]
    IN  /\ id' = [id EXCEPT ![n] = i]
        /\ spare' = spare \ {i}
        /\ table' = [table EXCEPT ![n] = t]
        /\ backoff' = [backoff EXCEPT ![n] = {}]
        /\ conn' = MaintainConnections(left, n, t, {})
        /\ failing' = [failing EXCEPT ![n] = {}]
        /\ UNCHANGED faults

-----------------------------------------------------------------------------
(* Timers                                                                  *)

\* The maintenance timer.
Maintain(n) ==
  /\ Dialable(conn, n, table[n], backoff[n]) # {}
  /\ conn' = MaintainConnections(conn, n, table[n], backoff[n])
  /\ conn' # conn
  /\ UNCHANGED <<table, backoff, id, spare, faults, failing>>

\* A backoff delay is over.
BackoffOver(n) ==
  \E a \in backoff[n] :
    /\ backoff' = [backoff EXCEPT ![n] = @ \ {a}]
    /\ UNCHANGED <<conn, table, id, spare, faults, failing>>

\* Mutant: only the sockets we dialled are pinged.
HeartbeatOutbound(c, e) ==
  /\ e = "out"
  /\ conn[c][e].st = "open"
  /\ ~conn[c].up
  /\ conn' = [conn EXCEPT ![c][e] = Terminated(@)]
  /\ UNCHANGED <<table, backoff, id, spare, faults, failing>>

\* runHeartbeat, second ping without an answer: the socket is terminated.
Heartbeat(c, e) ==
  /\ conn[c][e].st = "open"
  /\ ~conn[c].up
  /\ conn' = [conn EXCEPT ![c][e] = Terminated(@)]
  /\ UNCHANGED <<table, backoff, id, spare, faults, failing>>

\* The handshake timer: no HELLO came in time; on a wire that works, a HELLO
\* that is merely late is a fault of the network.
HandshakeTimeout(c, e) ==
  /\ conn[c][e].st = "open"
  /\ ~IsHandshaken(c, e)
  /\ \/ ~conn[c].up /\ UNCHANGED faults
     \/ conn[c].up /\ faults < MaxFaults /\ faults' = faults + 1
  /\ conn' = [conn EXCEPT ![c][e] = Terminated(@)]
  /\ UNCHANGED <<table, backoff, id, spare, failing>>

-----------------------------------------------------------------------------
(* Socket events                                                           *)

\* The dial succeeds; both ends register the socket and send their HELLO.
Opened(c) ==
  LET m == ListensAt[c[2]]
  IN  /\ conn[c].out.st = "connecting"
      /\ m \in Node
      /\ conn' = [conn EXCEPT ![c].out = End("open", id[m]),
                              ![c].in  = End("open", id[c[1]])]
      /\ UNCHANGED <<table, backoff, id, spare, faults, failing>>

\* The dial fails: nobody listens there, or the network does not deliver.
Refused(c) ==
  /\ conn[c].out.st = "connecting"
  /\ \/ ListensAt[c[2]] = NoNode /\ UNCHANGED faults
     \/ ListensAt[c[2]] # NoNode /\ faults < MaxFaults /\ faults' = faults + 1
  /\ conn' = Gone(conn, c, "out")
  /\ DialFailed(c[1], c[2])
  /\ UNCHANGED <<id, spare>>

\* The 'close' event, of a socket we terminated or whose other end is gone.
\* An outbound socket that never shook hands counts as a failed dial; a lost
\* connection may be dialled again after a short pause.
Closed(c, e) ==
  LET end == conn[c][e]
      n   == Owner(c, e)
  IN  /\ \/ end.st = "closing"
         \/ /\ end.st = "open" /\ end.hello = NoId /\ conn[c].up
            /\ conn[c][Other(e)].st \in {"closing", "none"}
      /\ conn' = Gone(conn, c, e)
      /\ \/ /\ ~end.expectedClose /\ end.peer = NoId /\ e = "out"
            /\ DialFailed(n, c[2])
         \/ /\ ~end.expectedClose /\ end.peer # NoId
            /\ backoff' = [backoff EXCEPT ![n] = @ \cup {AnnouncedAddress(c, e)}]
            /\ UNCHANGED <<table, failing>>
         \/ /\ end.expectedClose \/ (end.peer = NoId /\ e = "in")
            /\ UNCHANGED <<table, backoff, failing>>
      /\ UNCHANGED <<id, spare, faults>>

\* The wire goes dead: what is on it is lost and nobody is told.
Break(c) ==
  /\ faults < MaxFaults
  /\ conn[c].up
  /\ \E e \in Ends : conn[c][e].st = "open"
  /\ conn' = [conn EXCEPT ![c].up = FALSE, ![c].out.hello = NoId,
                          ![c].in.hello = NoId]
  /\ faults' = faults + 1
  /\ UNCHANGED <<table, backoff, id, spare, failing>>

-----------------------------------------------------------------------------
(* handleHello at end e of c                                               *)

HelloAt(c, e) == conn[c][e].st = "open" /\ conn[c][e].hello # NoId

IsSelf(c, e) == conn[c][e].hello = id[Owner(c, e)]
IsIncompatible(c, e) == Genesis[Owner(c, e)] # Genesis[Owner(c, Other(e))]

\* Mutant: inbound peers must be in the table already.
IsUnknownPeer(c, e) == AnnouncedAddress(c, e) \notin DOMAIN table[Owner(c, e)].entries

IsBlockedPeer(c, e) ==
  AnnouncedAddress(c, e) \in table[Owner(c, e)].blocked

\* None of the reasons to reject applies.
Acceptable(c, e) ==
  ~IsSelf(c, e) /\ ~IsIncompatible(c, e) /\ ~IsBlockedPeer(c, e)

\* This node, another network, or a blocked address: reject; in the first two
\* cases the address we dialled is blocked.
RejectHello(c, e) ==
  LET n == Owner(c, e)
  IN  /\ HelloAt(c, e)
      /\ ~Acceptable(c, e)
      /\ conn' = [conn EXCEPT ![c][e] = ClosedOnPurpose(@)]
      /\ table' = IF e = "out" /\ (IsSelf(c, e) \/ IsIncompatible(c, e))
                  THEN [table EXCEPT ![n] = Block(@, c[2])]
                  ELSE table
      /\ UNCHANGED <<backoff, id, spare, faults, failing>>

\* existing: another socket of this node, handshaken with the same node.
Existing(c, e, nodeId) ==
  {x \in Handshaken \ {<<c, e>>} :
     /\ Owner(x[1], x[2]) = Owner(c, e)
     /\ conn[x[1]][x[2]].peer = nodeId
     /\ ~conn[x[1]][x[2]].expectedClose}

\* The node that dialled, as the owner of end e with this peer sees it.
Initiator(c, e, peer) == IF e = "out" THEN id[c[1]] ELSE peer

\* Mutant: each side keeps the connection it dialled itself.
ShouldReplaceOwn(c, e, d, f) == e = "out"

\* shouldReplace: does <<c, e>> win over <<d, f>>?
ShouldReplace(c, e, d, f) ==
  LET incoming == Initiator(c, e, conn[c][e].hello)
      existing == Initiator(d, f, conn[d][f].peer)
  IN  incoming = existing \/ incoming < existing

\* The socket loses against an existing one; the address did answer, though.
RejectDuplicate(c, e) ==
  LET n == Owner(c, e)
  IN  /\ HelloAt(c, e)
      /\ Acceptable(c, e)
      /\ \E x \in Existing(c, e, conn[c][e].hello) :
           ~ShouldReplace(c, e, x[1], x[2])
      /\ conn' = [conn EXCEPT ![c][e] = ClosedOnPurpose(@)]
      /\ IF e = "out"
         THEN /\ table' = [table EXCEPT ![n] = RecordSuccess(@, c[2])]
              /\ failing' = [failing EXCEPT ![n] = @ \ {c[2]}]
         ELSE UNCHANGED <<table, failing>>
      /\ UNCHANGED <<backoff, id, spare, faults>>

\* Mutant: the connection that is replaced stays open.
ReplacedKept(c, e, nodeId) ==
  [conn EXCEPT ![c][e].peer = nodeId, ![c][e].hello = NoId]

\* The sockets once <<c, e>> is handshaken and has replaced what it wins over.
Replaced(c, e, nodeId) ==
  LET lost == Existing(c, e, nodeId)
      Kept(d, f) == IF <<d, f>> \in lost
                    THEN ClosedOnPurpose(conn[d][f])
                    ELSE conn[d][f]
  IN  [[d \in Connection |->
          [conn[d] EXCEPT !.out = Kept(d, "out"), !.in = Kept(d, "in")]]
       EXCEPT ![c][e].peer = nodeId, ![c][e].hello = NoId]

\* The handshake completes.  Outbound: the address is verified.  Inbound: the
\* claimed address becomes a candidate and the peers are looked after at once.
AcceptHello(c, e) ==
  LET n      == Owner(c, e)
      nodeId == conn[c][e].hello
      after  == Replaced(c, e, nodeId)
  IN  /\ HelloAt(c, e)
      /\ Acceptable(c, e)
      /\ \A x \in Existing(c, e, nodeId) : ShouldReplace(c, e, x[1], x[2])
      /\ \/ /\ e = "out"
            /\ table' = [table EXCEPT ![n] = RecordSuccess(@, c[2])]
            /\ backoff' = [backoff EXCEPT ![n] = @ \ {c[2]}]
            /\ failing' = [failing EXCEPT ![n] = @ \ {c[2]}]
            /\ conn' = after
         \/ /\ e = "in"
            /\ \E more \in Addables(table[n], {AnnouncedAddress(c, e)}) :
                 table' = [table EXCEPT ![n] = Add(@, more)]
            /\ conn' = MaintainConnections(after, n, table'[n], backoff[n])
            /\ UNCHANGED <<backoff, failing>>
      /\ UNCHANGED <<id, spare, faults>>

HandleHello(c, e) ==
  RejectHello(c, e) \/ RejectDuplicate(c, e) \/ AcceptHello(c, e)

\* PEERS: the owner of e takes up addresses its peer has verified.
LearnPeers(c, e) ==
  LET n == Owner(c, e)
      m == Owner(c, Other(e))
      known == Verified(table[m]) \ {AnnouncedAddress(c, Other(e))}
  IN  /\ conn[c].up
      /\ \A f \in Ends : conn[c][f].st = "open" /\ IsHandshaken(c, f)
      /\ \E more \in Addables(table[n], known) :
           /\ more # {}
           /\ table' = [table EXCEPT ![n] = Add(@, more)]
           /\ conn' = MaintainConnections(conn, n, table'[n], backoff[n])
      /\ UNCHANGED <<backoff, id, spare, faults, failing>>

-----------------------------------------------------------------------------
\* What happens to end e of c and its owner handles; a dial that neither
\* succeeds nor fails by then is ended by the operating system.
EndEvent(c, e) ==
  \/ e = "out" /\ (Opened(c) \/ Refused(c))
  \/ HandleHello(c, e)
  \/ LearnPeers(c, e)
  \/ Heartbeat(c, e)
  \/ Closed(c, e)

Next ==
  \/ \E n \in Node : Maintain(n) \/ BackoffOver(n) \/ Restart(n)
  \/ \E c \in Connection : Break(c)
  \/ \E c \in Connection, e \in Ends : EndEvent(c, e) \/ HandshakeTimeout(c, e)

\* Timers fire, sockets open or fail, and events are handled; faults and
\* restarts owe nothing.
Fairness ==
  /\ \A n \in Node : WF_vars(Maintain(n)) /\ WF_vars(BackoffOver(n))
  /\ \A c \in Connection, e \in Ends : WF_vars(EndEvent(c, e))

Spec == Init /\ [][Next]_vars

FairSpec == Spec /\ Fairness

-----------------------------------------------------------------------------
(* Properties                                                              *)

\* Types: ends, tables, backoff sets and identifiers have their shapes.
TypeOK ==
  /\ \A c \in Connection, e \in Ends :
       /\ conn[c][e].st \in {"none", "connecting", "open", "closing"}
       /\ conn[c][e].peer \in NodeIds \cup {NoId}
       /\ conn[c][e].hello \in NodeIds \cup {NoId}
       /\ conn[c][e].st \in {"none", "connecting"} =>
            conn[c][e] = End(conn[c][e].st, NoId)
  /\ \A n \in Node : /\ DOMAIN table[n].entries \subseteq Address
                     /\ backoff[n] \subseteq Address
                     /\ id[n] \in NodeIds \ spare

\* A node never holds two connections it means to keep to the same process.
OneSocketPerPeer ==
  \A x, y \in Handshaken :
    LET mine == conn[x[1]][x[2]]
        also == conn[y[1]][y[2]]
    IN  (x # y /\ Owner(x[1], x[2]) = Owner(y[1], y[2]) /\ mine.peer = also.peer)
          => mine.expectedClose \/ also.expectedClose

\* The owner of end e has kept this connection, and the other side closes it.
KeptHereClosedThere(c, e) ==
  LET there == conn[c][Other(e)]
  IN  /\ conn[c].up /\ conn[c][e].st = "open"
      /\ there.st = "closing" /\ there.expectedClose

\* When two nodes are connected twice they close the same socket: it never
\* happens that each of them closes the one the other has kept.
SameSocketClosed ==
  \A x, y \in Handshaken :
    LET c == x[1]  e == x[2]  d == y[1]  f == y[2]
    IN  (/\ KeptHereClosedThere(c, e) /\ KeptHereClosedThere(d, f)
         /\ Owner(c, e) = Owner(d, Other(f)))
          => Owner(c, Other(e)) # Owner(d, f)

\* What a node hands out is never itself, an unreachable address or a node of
\* another network, whatever bootnode lists, peers and inbound HELLOs claim.
SharedReachable ==
  \A n \in Node : \A a \in Verified(table[n]) :
    /\ ListensAt[a] \in Node \ {n}
    /\ Genesis[ListensAt[a]] = Genesis[n]

\* A table never outgrows its limit (or its bootnodes), keeps its bootnodes
\* unless they turned out to be unusable, and holds no blocked address.
TableSound ==
  \A n \in Node :
    LET known == DOMAIN table[n].entries
        boot  == Normalized(Bootnodes[n])
    IN  /\ \/ Cardinality(known) <= MaxSize
           \/ known \subseteq boot
        /\ boot \subseteq known \cup table[n].blocked
        /\ known \cap table[n].blocked = {}

\* An address whose latest dial failed is not handed out by the process that
\* dialled it.  (Failures are not in the file, so a restart forgets them.)
SharedHealthy ==
  \A n \in Node : Verified(table[n]) \cap failing[n] = {}

\* Exactly one connection between two nodes, and both ends hold it.
Connected(m, n) ==
  LET between == {c \in Connection : {Owner(c, "out"), Owner(c, "in")} = {m, n}}
  IN  \E c \in between :
        /\ \A e \in Ends : conn[c][e].st = "open" /\ IsHandshaken(c, e)
        /\ conn[c].up
        /\ \A d \in between \ {c} : conn[d] = NoConnection

Compatible(m, n) == m # n /\ Genesis[m] = Genesis[n]

\* After faults and restarts end, the network becomes and stays a full mesh of
\* the compatible nodes with exactly one connection per pair.
MeshSettles ==
  <>[](\A m, n \in Node : Compatible(m, n) => Connected(m, n))

-----------------------------------------------------------------------------
(* Hypotheses of the theorem about SameSocketClosed                        *)

\* Nobody answers at two addresses that another node may dial.
OneAddress ==
  \A n \in Node : \A a, b \in Address \ {OwnAddress(n)} :
    ListensAt[a] = ListensAt[b] /\ ListensAt[a] \in Node \ {n} => a = b

\* An inbound connection is not taken for one of this or of a third node.
SeenTruly ==
  \A m, n \in Node :
    Compatible(m, n) => /\ SeenAs[m] # OwnAddress(n)
                        /\ ListensAt[SeenAs[m]] \in Node => ListensAt[SeenAs[m]] = m

\* No HELLO is late and no wire breaks; or nobody dials an address again while
\* one end of the last connection to it is left.
NoLeftovers == MaxFaults = 0 \/ \A j, k \in Copy : j = k

=============================================================================
