--------------------------- MODULE NetworkProofs ---------------------------
(***************************************************************************)
(* Proofs about Network: in a full mesh of nodes whose clocks differ by at *)
(* most the drift, nobody is behind once the gossip has drained, for any   *)
(* number of nodes and however often connections break and come back.      *)
(*                                                                         *)
(* The argument is about a node that is ahead.  Whoever makes the block    *)
(* that exceeds all chains tells it to every peer it has shaken hands with, *)
(* and any other peer asks it for its chain when that happens; so as long  *)
(* as a node is behind, something is on its way between the two that will  *)
(* help it.  None of this holds without the mesh: a node that learnt a     *)
(* chain from an answer tells nobody.                                      *)
(***************************************************************************)
EXTENDS Network, BlockchainProofs

-----------------------------------------------------------------------------
(* The inductive invariant                                                 *)

\* A chain that every node would find valid now.
Servable(c) ==
  /\ ReplayChain(c).ok
  /\ \A n \in Node : ChainOK(c, Clock(n))

\* A block from no node's future.
InTime(b) == \A n \in Node : b.timestamp <= Clock(n) + MaxFutureDrift

MessageOK(msg) ==
  /\ msg.type = "CHAIN_RESPONSE" => Servable(msg.chain)
  /\ msg.type = "NEW_BLOCK" => IsBlock(msg.block) /\ InTime(msg.block)

\* Every node is sound and serves a chain the others accept; so are the
\* messages in flight.
SoundInv ==
  /\ now \in Nat
  /\ DOMAIN bc = Node /\ DOMAIN queue = Pairs /\ handshaken \subseteq Pairs
  /\ \A n \in Node : ObjectOK(bc[n], Clock(n)) /\ Servable(bc[n].chain)
  /\ \A p \in Pairs : /\ IsSeq(queue[p])
                      /\ \A msg \in Range(queue[p]) : MessageOK(msg)

\* What x has sent to y, until y has handled its HELLO: nothing, as there is
\* no connection, or first of all the HELLO, and a request for y's chain if x
\* has handled y's.
LinkOK(x, y) ==
  LET sent == queue[<<x, y>>]
  IN  \/ <<y, x>> \in handshaken
      \/ /\ sent = <<>> /\ queue[<<y, x>>] = <<>>
         /\ <<x, y>> \notin handshaken
      \/ /\ sent # <<>> /\ Head(sent) = Hello
         /\ <<x, y>> \in handshaken => ChainRequest \in Range(sent)

LinkInv == \A p \in Pairs : LinkOK(p[1], p[2])

\* The message makes the receiver's chain at least so long, or makes it ask.
Raises(msg, height) ==
  \/ msg.type = "CHAIN_RESPONSE" /\ Len(msg.chain) >= height
  \/ msg.type = "NEW_BLOCK" /\ msg.block.index + 1 >= height

\* n is not behind o, or will ask o for its chain, or has asked, or is told.
Told(o, n) ==
  \/ Height(n) >= Height(o)
  \/ <<n, o>> \notin handshaken
  \/ ChainRequest \in Range(queue[<<n, o>>])
  \/ \E msg \in Range(queue[<<o, n>>]) : Raises(msg, Height(o))

\* Nobody is ahead of o, and nothing in flight is.
Ahead(o) ==
  /\ \A n \in Node : Height(n) <= Height(o)
  /\ \A p \in Pairs : \A msg \in Range(queue[p]) : ~Raises(msg, Height(o) + 1)

\* In a full mesh some node leads.
LeaderInv ==
  IsFullMesh /\ Node # {} =>
    \E o \in Node : Ahead(o) /\ \A n \in Node \ {o} : Told(o, n)

-----------------------------------------------------------------------------
(* Sequences                                                               *)

\* A message put at the end of a queue leaves what was there in its place.
LEMMA AppendRange ==
  ASSUME NEW s, IsSeq(s), NEW e
  PROVE  /\ IsSeq(Append(s, e)) /\ Append(s, e) # <<>>
         /\ Range(Append(s, e)) = Range(s) \cup {e}
         /\ s # <<>> => Head(Append(s, e)) = Head(s)
<1> DEFINE d == Append(s, e)
<1>1. /\ IsSeq(d) /\ Len(s) \in Nat /\ Len(d) = Len(s) + 1
      /\ \A i \in 1 .. Len(s) : d[i] = s[i]
      /\ d[Len(s) + 1] = e
  BY AppendIsSeq
<1> HIDE DEF d
<1>2. DOMAIN s = 1 .. Len(s) /\ DOMAIN d = 1 .. (Len(s) + 1)
  BY <1>1 DEF IsSeq
<1>3. Range(d) = Range(s) \cup {e}
  <2>1. Range(d) \subseteq Range(s) \cup {e}
    BY <1>1, <1>2 DEF Range
  <2>2. e \in Range(d)
    BY <1>1, <1>2 DEF Range
  <2>3. Range(s) \subseteq Range(d)
    BY <1>1, <1>2 DEF Range
  <2> QED
    BY <2>1, <2>2, <2>3
<1>4. d # <<>>
  BY <1>1
<1>5. s # <<>> => Head(d) = Head(s)
  BY <1>1, <1>4 DEF IsSeq
<1> QED
  BY <1>1, <1>3, <1>4, <1>5 DEF d

\* Taking the oldest message from a queue leaves the others.
LEMMA TailRange ==
  ASSUME NEW s, IsSeq(s), s # <<>>
  PROVE  /\ IsSeq(Tail(s))
         /\ Head(s) \in Range(s)
         /\ Range(s) = {Head(s)} \cup Range(Tail(s))
<1> DEFINE d == Tail(s)
<1>1. s \in Seq(Range(s)) /\ Len(s) \in Nat /\ Len(s) > 0
  BY DEF IsSeq
<1>2. d \in Seq(Range(s)) /\ Len(d) = Len(s) - 1
  BY <1>1
<1>3. \A i \in 1 .. Len(d) : d[i] = s[i + 1]
  BY <1>1
<1>4. DOMAIN s = 1 .. Len(s) /\ DOMAIN d = 1 .. Len(d) /\ Head(s) = s[1]
  BY <1>1, <1>2
<1>5. IsSeq(d)
  BY <1>2, SeqIsSeq
<1> HIDE DEF d
<1>6. Head(s) \in Range(s)
  BY <1>1, <1>4 DEF Range
<1>7. Range(d) \subseteq Range(s)
  BY <1>1, <1>2, <1>3, <1>4 DEF Range
<1>8. ASSUME NEW e \in Range(s), e # Head(s)
      PROVE  e \in Range(d)
  <2>1. PICK i \in 1 .. Len(s) : e = s[i]
    BY <1>4 DEF Range
  <2>2. i - 1 \in 1 .. Len(d) /\ (i - 1) + 1 = i
    BY <1>1, <1>2, <1>4, <1>8, <2>1
  <2>3. d[i - 1] = e
    BY <1>3, <2>1, <2>2
  <2> QED
    BY <1>4, <2>2, <2>3 DEF Range
<1> QED
  BY <1>5, <1>6, <1>7, <1>8 DEF d

-----------------------------------------------------------------------------
(* Heights                                                                 *)

\* The index of the last block of a valid chain is one less than its length.
LEMMA LatestIndex ==
  ASSUME NEW c, NEW t, ChainOK(c, t)
  PROVE  Len(c) \in Nat /\ c[Len(c)].index = Len(c) - 1
<1> DEFINE S == {n \in Nat : n + 1 <= Len(c) => c[n + 1].index = n}
<1>1. Len(c) \in Nat /\ Len(c) > 0
  BY DEF ChainOK, IsChain, IsSeq
<1>2. \A k \in 2 .. Len(c) : c[k].index = c[k - 1].index + 1
  BY DEF ChainOK, IsLinked, IsValidNewBlock
<1>3. 0 \in S
  BY DEF ChainOK, IsRooted
<1>4. ASSUME NEW n \in Nat, n \in S
      PROVE  n + 1 \in S
  <2> SUFFICES ASSUME n + 2 <= Len(c)
               PROVE  c[(n + 1) + 1].index = n + 1
    OBVIOUS
  <2>1. n + 2 \in 2 .. Len(c) /\ (n + 2) - 1 = n + 1 /\ (n + 1) + 1 = n + 2
    BY <1>1
  <2>2. c[n + 1].index = n
    BY <1>1, <1>4
  <2>3. c[n + 2].index = c[(n + 2) - 1].index + 1
    BY <1>2, <2>1
  <2> QED
    BY <2>1, <2>2, <2>3
<1>5. Len(c) - 1 \in S
  <2>1. Len(c) - 1 \in Nat
    BY <1>1
  <2> HIDE DEF S
  <2> QED
    BY <1>3, <1>4, <2>1, SetInduction
<1>6. c[(Len(c) - 1) + 1].index = Len(c) - 1 /\ (Len(c) - 1) + 1 = Len(c)
  BY <1>1, <1>5
<1> QED
  BY <1>1, <1>6

\* A block is proposed with the time of its proposal.
LEMMA ProposalTime ==
  ASSUME NEW o, NEW t, NEW key, NEW b \in Proposals(o, key, t)
  PROVE  b.timestamp = t
<1>1. PICK s \in SortedOrders(o.pendingTransactions) : b = Proposal(o, key, t, s)
  BY DEF Proposals
<1> QED
  BY <1>1 DEF Proposal, ProposeBlock, MakeBlock

\* A clock shows a natural number.
LEMMA ClockType ==
  ASSUME NEW n \in Node, now \in Nat
  PROVE  Clock(n) \in Nat
<1>1. ClockOffset[n] \in Nat
  BY NetworkAssumption
<1> QED
  BY <1>1 DEF Clock

\* Connections go between two nodes, both ways.
LEMMA PairFacts ==
  /\ \A p \in Pairs : /\ p[1] \in Node /\ p[2] \in Node /\ p[1] # p[2]
                      /\ p = <<p[1], p[2]>> /\ <<p[2], p[1]>> \in Pairs
  /\ IsFullMesh => \A m, n \in Node : m # n => <<m, n>> \in Pairs
<1>1. ASSUME NEW p \in Pairs
      PROVE  /\ p[1] \in Node /\ p[2] \in Node /\ p[1] # p[2]
             /\ p = <<p[1], p[2]>> /\ <<p[2], p[1]>> \in Pairs
  <2>1. p \in Node \X Node /\ {p[1], p[2]} \in Peering
    BY DEF Pairs
  <2>2. Cardinality({p[1], p[2]}) = 2
    BY <2>1, NetworkAssumption
  <2>3. ASSUME p[1] = p[2]
        PROVE  FALSE
    <3>1. {p[1], p[2]} = {p[1]}
      BY <2>3
    <3>2. Cardinality({p[1]}) = 1
      BY FS_Singleton
    <3> QED
      BY <2>2, <3>1, <3>2
  <2>4. {p[2], p[1]} = {p[1], p[2]}
    OBVIOUS
  <2>5. <<p[2], p[1]>> \in Pairs
    BY <2>1, <2>4 DEF Pairs
  <2> QED
    BY <2>1, <2>3, <2>5
<1>2. ASSUME IsFullMesh, NEW m \in Node, NEW n \in Node, m # n
      PROVE  <<m, n>> \in Pairs
  <2>1. {m, n} \in Peering
    BY <1>2 DEF IsFullMesh
  <2> QED
    BY <2>1 DEF Pairs
<1> QED
  BY <1>1, <1>2

-----------------------------------------------------------------------------
(* Steps that take a message, send one, or both                            *)

\* The queues with one more message on some of them.
Sends(q, targets, msg) ==
  [p \in Pairs |-> IF p \in targets THEN Append(q[p], msg) ELSE q[p]]

\* From q, the queues with nothing or one message taken, a step sends msg to
\* targets.  Whoever shakes hands has taken a message, and asks for the chain.
Talks(q, targets, msg) ==
  /\ queue' = Sends(q, targets, msg)
  /\ targets \subseteq handshaken'
  /\ handshaken \subseteq handshaken' /\ handshaken' \subseteq Pairs
  /\ \A p \in Pairs :
       \/ q[p] = queue[p]
       \/ /\ queue[p] # <<>> /\ q[p] = Tail(queue[p])
          /\ <<p[2], p[1]>> \in handshaken'
  /\ \A p \in handshaken' \ handshaken :
       /\ queue[<<p[2], p[1]>>] # <<>>
       /\ p \in targets /\ msg = ChainRequest

\* What such a step does to one queue.
LEMMA TalksQueue ==
  ASSUME SoundInv, NEW q, NEW T, NEW msg, Talks(q, T, msg), NEW p \in Pairs
  PROVE  /\ IsSeq(queue'[p])
         /\ Range(queue'[p]) \subseteq Range(queue[p]) \cup {msg}
         /\ p \in T => msg \in Range(queue'[p])
         /\ q[p] = queue[p] => /\ Range(queue[p]) \subseteq Range(queue'[p])
                               /\ queue[p] # <<>> => /\ queue'[p] # <<>>
                                                     /\ Head(queue'[p]) = Head(queue[p])
         /\ q[p] = Tail(queue[p]) /\ queue[p] # <<>> =>
              Range(queue[p]) \subseteq {Head(queue[p])} \cup Range(queue'[p])
         /\ q[p] = queue[p] /\ p \notin T => queue'[p] = queue[p]
<1>1. IsSeq(queue[p])
  BY DEF SoundInv
<1>2. queue'[p] = IF p \in T THEN Append(q[p], msg) ELSE q[p]
  BY DEF Talks, Sends
<1>3. \/ q[p] = queue[p]
      \/ queue[p] # <<>> /\ q[p] = Tail(queue[p])
  BY DEF Talks
<1>4. queue[p] # <<>> => /\ IsSeq(Tail(queue[p]))
                         /\ Range(queue[p]) = {Head(queue[p])} \cup Range(Tail(queue[p]))
  BY <1>1, TailRange
<1>5. IsSeq(q[p]) /\ Range(q[p]) \subseteq Range(queue[p])
  BY <1>1, <1>3, <1>4
<1>6. p \in T => /\ IsSeq(queue'[p]) /\ queue'[p] # <<>>
                 /\ Range(queue'[p]) = Range(q[p]) \cup {msg}
                 /\ q[p] # <<>> => Head(queue'[p]) = Head(q[p])
  BY <1>2, <1>5, AppendRange
<1>7. p \notin T => queue'[p] = q[p]
  BY <1>2
<1>8. Range(q[p]) \subseteq Range(queue'[p])
  BY <1>6, <1>7
<1> QED
  BY <1>4, <1>5, <1>6, <1>7, <1>8

\* Such a step keeps what is known of every link.
LEMMA TalksLinks ==
  ASSUME SoundInv, LinkInv, NEW q, NEW T, NEW msg, Talks(q, T, msg)
  PROVE  LinkInv'
<1> SUFFICES ASSUME NEW p \in Pairs
             PROVE  LinkOK(p[1], p[2])'
  BY DEF LinkInv, Pairs
<1> DEFINE x == p[1]
           y == p[2]
<1>1. p = <<x, y>> /\ <<y, x>> \in Pairs
  BY PairFacts
<1>2. CASE <<y, x>> \in handshaken'
  BY <1>2 DEF LinkOK
<1>3. CASE <<y, x>> \notin handshaken'
  <2>1. <<y, x>> \notin handshaken /\ <<y, x>> \notin T
    BY <1>3 DEF Talks
  <2>2. q[p] = queue[p]
    BY <1>1, <1>3 DEF Talks
  <2>3. LinkOK(x, y)
    BY DEF LinkInv
  <2>4. CASE queue[p] = <<>> /\ queue[<<y, x>>] = <<>> /\ p \notin handshaken
    <3>1. p \notin handshaken'
      BY <1>1, <2>4 DEF Talks
    <3>2. p \notin T
      BY <3>1 DEF Talks
    <3>3. q[<<y, x>>] = queue[<<y, x>>]
      BY <1>1, <2>4 DEF Talks
    <3>4. queue'[p] = <<>>
      BY <2>2, <2>4, <3>2, TalksQueue
    <3>5. queue'[<<y, x>>] = <<>>
      BY <1>1, <2>1, <2>4, <3>3, TalksQueue
    <3> QED
      BY <1>1, <3>1, <3>4, <3>5 DEF LinkOK
  <2>5. CASE /\ queue[p] # <<>> /\ Head(queue[p]) = Hello
             /\ p \in handshaken => ChainRequest \in Range(queue[p])
    <3>1. queue'[p] # <<>> /\ Head(queue'[p]) = Hello
      BY <2>2, <2>5, TalksQueue
    <3>2. p \in handshaken => ChainRequest \in Range(queue'[p])
      BY <2>2, <2>5, TalksQueue
    <3>3. p \in handshaken' \ handshaken => ChainRequest \in Range(queue'[p])
      <4> SUFFICES ASSUME p \in handshaken' \ handshaken
                   PROVE  ChainRequest \in Range(queue'[p])
        OBVIOUS
      <4>1. p \in T /\ msg = ChainRequest
        BY DEF Talks
      <4> QED
        BY <4>1, TalksQueue
    <3> QED
      BY <1>1, <3>1, <3>2, <3>3 DEF LinkOK
  <2> QED
    BY <1>1, <2>1, <2>3, <2>4, <2>5 DEF LinkOK
<1> QED
  BY <1>2, <1>3

-----------------------------------------------------------------------------
(* Soundness                                                               *)

\* The node's operations keep its object sound and its chain servable.
LEMMA ServableAppend ==
  ASSUME now \in Nat, NEW n \in Node, NEW c, Servable(c),
         NEW b, IsBlock(b), InTime(b), IsValidNewBlock(b, c[Len(c)], Clock(n)),
         ReplayChain(Append(c, b)).ok
  PROVE  Servable(Append(c, b))
<1> SUFFICES ASSUME NEW k \in Node
             PROVE  ChainOK(Append(c, b), Clock(k))
  BY DEF Servable
<1>1. ChainOK(c, Clock(k)) /\ Clock(k) \in Nat
  BY ClockType DEF Servable
<1>2. IsValidNewBlock(b, c[Len(c)], Clock(k))
  BY DEF IsValidNewBlock, InTime
<1> QED
  BY <1>1, <1>2, ChainOKAppend

\* A valid block, added: the object stays sound, its chain servable.
LEMMA AddBlockSound ==
  ASSUME SoundInv, NEW n \in Node, NEW b, IsBlock(b), InTime(b),
         CanAddBlock(bc[n], b, Clock(n))
  PROVE  LET o == AddBlock(bc[n], b, Clock(n))
         IN  /\ ObjectOK(o, Clock(n)) /\ Servable(o.chain)
             /\ Len(o.chain) = Height(n) + 1 /\ b.index = Height(n)
<1> DEFINE o == AddBlock(bc[n], b, Clock(n))
           c == bc[n].chain
<1>1. now \in Nat /\ Clock(n) \in Nat
  BY ClockType DEF SoundInv
<1>2. ObjectOK(bc[n], Clock(n)) /\ Servable(c)
  BY DEF SoundInv
<1>3. ObjectOK(o, Clock(n))
  BY <1>1, <1>2, AddBlockOK
<1>4. o.chain = Append(c, b)
  BY <1>1, <1>2, AddBlockChain
<1>5. ReplayChain(o.chain).ok
  BY <1>3 DEF ObjectOK, UnprunedOK, Applied
<1>6. IsValidNewBlock(b, c[Len(c)], Clock(n))
  BY DEF CanAddBlock, GetLatestBlock
<1>7. ChainOK(c, Clock(n))
  BY <1>2 DEF ObjectOK, UnprunedOK
<1>8. Len(c) \in Nat /\ c[Len(c)].index = Len(c) - 1
  BY <1>7, LatestIndex
<1>9. Len(Append(c, b)) = Len(c) + 1
  BY <1>7, AppendIsSeq DEF ChainOK, IsChain
<1>10. b.index = Len(c)
  BY <1>6, <1>8 DEF IsValidNewBlock
<1> HIDE DEF o
<1>11. Servable(o.chain)
  BY <1>1, <1>2, <1>4, <1>5, <1>6, ServableAppend
<1> QED
  BY <1>3, <1>4, <1>9, <1>10, <1>11 DEF o, Height

\* Nothing but the object of n and the queues changes, as described.
Affects(n, o, q, targets, msg) ==
  /\ DOMAIN bc' = Node
  /\ \A k \in Node : bc'[k] = IF k = n THEN o ELSE bc[k]
  /\ now' = now
  /\ Talks(q, targets, msg)

\* Such a step is sound if the new object and the message are.
LEMMA SoundStep ==
  ASSUME SoundInv, NEW n \in Node, NEW o, NEW q, NEW T, NEW msg,
         Affects(n, o, q, T, msg), MessageOK(msg),
         ObjectOK(o, Clock(n)), Servable(o.chain)
  PROVE  SoundInv'
<1>1. now' = now /\ Talks(q, T, msg)
  BY DEF Affects
<1>2. \A k : Clock(k)' = Clock(k)
  BY <1>1 DEF Clock
<1>3. \A c : Servable(c) => Servable(c)'
  BY <1>2 DEF Servable
<1>4. \A m : MessageOK(m) => MessageOK(m)'
  BY <1>2, <1>3 DEF MessageOK, InTime
<1>5. now' \in Nat /\ DOMAIN bc' = Node
  BY <1>1 DEF SoundInv, Affects
<1>6. DOMAIN queue' = Pairs /\ handshaken' \subseteq Pairs
  BY <1>1 DEF Talks, Sends
<1>7. ASSUME NEW k \in Node
      PROVE  /\ ObjectOK(bc'[k], Clock(k))
             /\ ReplayChain(bc'[k].chain).ok
             /\ \A j \in Node : ChainOK(bc'[k].chain, Clock(j))
  <2>1. bc'[k] = IF k = n THEN o ELSE bc[k]
    BY DEF Affects
  <2>2. ObjectOK(bc[k], Clock(k)) /\ Servable(bc[k].chain)
    BY DEF SoundInv
  <2> QED
    BY <2>1, <2>2 DEF Servable
<1>8. ASSUME NEW p \in Pairs
      PROVE  IsSeq(queue'[p]) /\ \A m \in Range(queue'[p]) : MessageOK(m)'
  <2>1. IsSeq(queue'[p]) /\ Range(queue'[p]) \subseteq Range(queue[p]) \cup {msg}
    BY <1>1, TalksQueue
  <2>2. \A m \in Range(queue[p]) : MessageOK(m)
    BY DEF SoundInv
  <2> QED
    BY <1>4, <2>1, <2>2
<1>9. \A k \in Node : ObjectOK(bc'[k], Clock(k)') /\ Servable(bc[k].chain)'
  BY <1>2, <1>7 DEF Servable
<1> QED
  BY <1>5, <1>6, <1>8, <1>9 DEF SoundInv

-----------------------------------------------------------------------------
(* The leader                                                              *)

\* The object that n has after the step and the message it sends do what the
\* message it took asks for: a request is answered with its chain, and what
\* would raise it does, or makes it ask the sender.
Answers(n, o, q, targets, msg) ==
  \A p \in Pairs :
    q[p] # queue[p] =>
      /\ p[2] = n
      /\ Head(queue[p]) = ChainRequest =>
           <<n, p[1]>> \in targets /\ Raises(msg, Height(n))
      /\ \A x \in Nat : Raises(Head(queue[p]), x) =>
           \/ Len(o.chain) >= x
           \/ <<n, p[1]>> \in targets /\ msg = ChainRequest

\* Heights after a step that affects the object of one node.
LEMMA HeightFacts ==
  ASSUME SoundInv, NEW n \in Node, NEW o, ChainOK(o.chain, Clock(n)),
         \A k \in Node : bc'[k] = IF k = n THEN o ELSE bc[k]
  PROVE  /\ \A k \in Node : Height(k) \in Nat
         /\ Len(o.chain) \in Nat
         /\ \A k \in Node : Height(k)' = IF k = n THEN Len(o.chain) ELSE Height(k)
<1>1. \A k \in Node : Height(k) \in Nat
  <2> SUFFICES ASSUME NEW k \in Node
               PROVE  Height(k) \in Nat
    OBVIOUS
  <2>1. ChainOK(bc[k].chain, Clock(k))
    BY DEF SoundInv, Servable
  <2> QED
    BY <2>1, LatestIndex DEF Height
<1>2. Len(o.chain) \in Nat
  BY LatestIndex
<1> QED
  BY <1>1, <1>2 DEF Height

\* A leader that no step exceeds stays one.
LEMMA LeadStays ==
  ASSUME SoundInv, NEW o \in Node, Ahead(o), \A k \in Node \ {o} : Told(o, k),
         NEW n \in Node, NEW r, NEW q, NEW T, NEW msg,
         Affects(n, r, q, T, msg), Answers(n, r, q, T, msg),
         ChainOK(r.chain, Clock(n)),
         Height(n) <= Len(r.chain), Len(r.chain) <= Height(o),
         ~Raises(msg, Height(o) + 1)
  PROVE  Ahead(o)' /\ \A k \in Node \ {o} : Told(o, k)'
<1>1. /\ \A k \in Node : bc'[k] = IF k = n THEN r ELSE bc[k]
      /\ Talks(q, T, msg)
  BY DEF Affects
<1>2. /\ \A k \in Node : Height(k) \in Nat
      /\ Len(r.chain) \in Nat
      /\ \A k \in Node : Height(k)' = IF k = n THEN Len(r.chain) ELSE Height(k)
  BY <1>1, HeightFacts
<1>3. Height(o)' = Height(o)
  BY <1>2
<1>4. \A k \in Node : Height(k)' >= Height(k) /\ Height(k)' <= Height(o)
  BY <1>2 DEF Ahead
<1>5. Ahead(o)'
  <2>1. ASSUME NEW p \in Pairs, NEW m \in Range(queue'[p])
        PROVE  ~Raises(m, Height(o) + 1)
    <3>1. m \in Range(queue[p]) \cup {msg}
      BY <1>1, <2>1, TalksQueue
    <3> QED
      BY <3>1 DEF Ahead
  <2> QED
    BY <1>3, <1>4, <2>1 DEF Ahead, Raises
<1>6. ASSUME NEW k \in Node \ {o}
      PROVE  Told(o, k)'
  <2> DEFINE there == <<o, k>>
             back == <<k, o>>
  <2>1. CASE back \notin handshaken'
    BY <2>1 DEF Told
  <2>2. CASE back \in handshaken'
    <3>1. back \in Pairs /\ there \in Pairs
      <4>1. back \in Pairs
        BY <1>1, <2>2 DEF Talks
      <4> QED
        BY <4>1, PairFacts
    <3>2. CASE Height(k) >= Height(o)
      BY <1>2, <1>3, <1>4, <3>2 DEF Told
    <3>3. CASE back \notin handshaken
      <4>1. back \in T /\ msg = ChainRequest
        BY <1>1, <2>2, <3>3 DEF Talks
      <4>2. ChainRequest \in Range(queue'[back])
        BY <1>1, <3>1, <4>1, TalksQueue
      <4> QED
        BY <4>2 DEF Told
    <3>4. CASE ChainRequest \in Range(queue[back])
      <4>1. CASE q[back] = queue[back]
        <5>1. ChainRequest \in Range(queue'[back])
          BY <1>1, <3>1, <3>4, <4>1, TalksQueue
        <5> QED
          BY <5>1 DEF Told
      <4>2. CASE q[back] # queue[back] /\ Head(queue[back]) = ChainRequest
        <5>1. n = o /\ there \in T /\ Raises(msg, Height(o))
          BY <3>1, <4>2 DEF Answers
        <5>2. msg \in Range(queue'[there])
          BY <1>1, <3>1, <5>1, TalksQueue
        <5> QED
          BY <1>3, <5>1, <5>2 DEF Told, Raises
      <4>3. CASE q[back] # queue[back] /\ Head(queue[back]) # ChainRequest
        <5>1. q[back] = Tail(queue[back]) /\ queue[back] # <<>>
          BY <1>1, <3>1, <4>3 DEF Talks
        <5>2. Range(queue[back]) \subseteq {Head(queue[back])} \cup Range(queue'[back])
          BY <1>1, <3>1, <5>1, TalksQueue
        <5>3. ChainRequest \in Range(queue'[back])
          BY <3>4, <4>3, <5>2
        <5> QED
          BY <5>3 DEF Told
      <4> QED
        BY <4>1, <4>2, <4>3
    <3>5. ASSUME NEW m \in Range(queue[there]), Raises(m, Height(o))
          PROVE  Told(o, k)'
      <4>1. CASE m \in Range(queue'[there])
        BY <1>3, <3>5, <4>1 DEF Told, Raises
      <4>2. CASE m \notin Range(queue'[there])
        <5>1. q[there] # queue[there]
          BY <1>1, <3>1, <3>5, <4>2, TalksQueue
        <5>2. q[there] = Tail(queue[there]) /\ queue[there] # <<>>
          BY <1>1, <3>1, <5>1 DEF Talks
        <5>3. m = Head(queue[there])
          <6>1. Range(queue[there]) \subseteq {Head(queue[there])} \cup Range(queue'[there])
            BY <1>1, <3>1, <5>2, TalksQueue
          <6> QED
            BY <3>5, <4>2, <6>1
        <5>4. n = k /\ \/ Len(r.chain) >= Height(o)
                       \/ back \in T /\ msg = ChainRequest
          BY <1>2, <3>1, <3>5, <5>1, <5>3 DEF Answers
        <5>5. CASE Len(r.chain) >= Height(o)
          <6>1. Height(k)' >= Height(o)'
            BY <1>2, <1>3, <5>4, <5>5
          <6> QED
            BY <6>1 DEF Told
        <5>6. CASE back \in T /\ msg = ChainRequest
          <6>1. ChainRequest \in Range(queue'[back])
            BY <1>1, <3>1, <5>6, TalksQueue
          <6> QED
            BY <6>1 DEF Told
        <5> QED
          BY <5>4, <5>5, <5>6
      <4> QED
        BY <4>1, <4>2
    <3>6. Told(o, k)
      OBVIOUS
    <3> QED
      BY <3>2, <3>3, <3>4, <3>5, <3>6 DEF Told
  <2> QED
    BY <2>1, <2>2
<1> QED
  BY <1>5, <1>6

\* What n adds to its chain or announces is not beyond what it had or what
\* was announced before: so is every step but the proposal of a block.
Modest(n, o, msg) ==
  \A x \in Nat :
    (Len(o.chain) >= x \/ Raises(msg, x)) =>
      \/ x <= Height(n)
      \/ \E p \in Pairs : \E h \in Range(queue[p]) : Raises(h, x)

\* A step as the handlers make it: sound, and answering what it took.
Serves(n, o, q, targets, msg) ==
  /\ Affects(n, o, q, targets, msg) /\ MessageOK(msg)
  /\ ObjectOK(o, Clock(n)) /\ Servable(o.chain)
  /\ Answers(n, o, q, targets, msg)
  /\ Height(n) <= Len(o.chain)

IInv == SoundInv /\ LinkInv /\ LeaderInv

\* A modest step of this kind keeps the invariant.
LEMMA ModestStep ==
  ASSUME IInv, NEW n \in Node, NEW r, NEW q, NEW T, NEW msg,
         Serves(n, r, q, T, msg), Modest(n, r, msg)
  PROVE  IInv'
<1>1. SoundInv'
  BY SoundStep DEF IInv, Serves
<1>2. LinkInv'
  BY TalksLinks DEF IInv, Serves, Affects
<1>3. LeaderInv'
  <2> SUFFICES ASSUME IsFullMesh
               PROVE  LeaderInv'
    BY DEF LeaderInv
  <2>1. PICK o \in Node : Ahead(o) /\ \A k \in Node \ {o} : Told(o, k)
    BY DEF IInv, LeaderInv
  <2>2. ChainOK(r.chain, Clock(n))
    BY DEF Serves, Servable
  <2>3. \A k \in Node : bc'[k] = IF k = n THEN r ELSE bc[k]
    BY DEF Serves, Affects
  <2>4. /\ Height(o) \in Nat /\ Height(n) \in Nat /\ Len(r.chain) \in Nat
        /\ Height(n) <= Height(o)
    BY <2>1, <2>2, <2>3, HeightFacts DEF IInv, Ahead
  <2>5. ~(Len(r.chain) >= Height(o) + 1) /\ ~Raises(msg, Height(o) + 1)
    <3>1. Height(o) + 1 \in Nat /\ ~(Height(o) + 1 <= Height(n))
      BY <2>4
    <3>2. \A p \in Pairs : \A h \in Range(queue[p]) : ~Raises(h, Height(o) + 1)
      BY <2>1 DEF Ahead
    <3> QED
      BY <3>1, <3>2 DEF Modest
  <2>6. Len(r.chain) <= Height(o)
    BY <2>4, <2>5
  <2>7. Ahead(o)' /\ \A k \in Node \ {o} : Told(o, k)'
    <3>1. /\ Affects(n, r, q, T, msg) /\ Answers(n, r, q, T, msg)
          /\ Height(n) <= Len(r.chain)
      BY DEF Serves
    <3> QED
      BY <2>1, <2>2, <2>5, <2>6, <3>1, LeadStays DEF IInv
  <2> QED
    BY <2>1, <2>7 DEF LeaderInv
<1> QED
  BY <1>1, <1>2, <1>3 DEF IInv

-----------------------------------------------------------------------------
(* The handlers                                                            *)

\* The oldest message of a queue is sound, and anything but a HELLO comes from
\* a peer whose HELLO has been handled.
LEMMA IncomingFacts ==
  ASSUME IInv, NEW m, NEW n, <<m, n>> \in Pairs, queue[<<m, n>>] # <<>>
  PROVE  /\ m \in Node /\ n \in Node /\ <<n, m>> \in Pairs
         /\ Incoming(m, n) \in Range(queue[<<m, n>>])
         /\ MessageOK(Incoming(m, n))
         /\ Incoming(m, n).type # "HELLO" => <<n, m>> \in handshaken
<1>1. m \in Node /\ n \in Node /\ <<n, m>> \in Pairs
  BY PairFacts
<1>2. Incoming(m, n) \in Range(queue[<<m, n>>])
  BY TailRange DEF Incoming, IInv, SoundInv
<1>3. MessageOK(Incoming(m, n))
  BY <1>2 DEF IInv, SoundInv
<1>4. ASSUME <<n, m>> \notin handshaken
      PROVE  Incoming(m, n).type = "HELLO"
  <2>1. LinkOK(m, n)
    BY DEF IInv, LinkInv
  <2>2. Incoming(m, n) = Hello
    BY <1>4, <2>1 DEF LinkOK, Incoming
  <2> QED
    BY <2>2 DEF Hello
<1> QED
  BY <1>1, <1>2, <1>3, <1>4

\* A message is taken and msg sent on.
Handles(n, m, targets, msg) ==
  /\ <<m, n>> \in Pairs /\ queue[<<m, n>>] # <<>>
  /\ queue' = Sends(Taken(m, n), targets, msg)
  /\ handshaken' = handshaken \cup {<<n, m>>}
  /\ targets \subseteq handshaken'
  /\ <<n, m>> \notin handshaken => <<n, m>> \in targets /\ msg = ChainRequest

LEMMA TakenTalks ==
  ASSUME IInv, NEW m, NEW n, NEW T, NEW msg, Handles(n, m, T, msg)
  PROVE  Talks(Taken(m, n), T, msg)
<1> DEFINE q == Taken(m, n)
<1>1. \A p \in Pairs : q[p] = IF p = <<m, n>> THEN Tail(queue[p]) ELSE queue[p]
  BY DEF Taken, IInv, SoundInv
<1>2. <<n, m>> \in Pairs /\ handshaken \subseteq Pairs
  BY PairFacts DEF Handles, IInv, SoundInv
<1>3. queue' = Sends(q, T, msg) /\ T \subseteq handshaken'
  BY DEF Handles
<1> HIDE DEF q
<1>4. handshaken \subseteq handshaken' /\ handshaken' \subseteq Pairs
  BY <1>2 DEF Handles
<1>5. ASSUME NEW p \in Pairs, p # <<m, n>>
      PROVE  q[p] = queue[p]
  BY <1>1, <1>5
<1>6. ASSUME NEW p \in Pairs, p = <<m, n>>
      PROVE  /\ queue[p] # <<>> /\ q[p] = Tail(queue[p])
             /\ <<p[2], p[1]>> \in handshaken'
  BY <1>1, <1>6 DEF Handles
<1>7. ASSUME NEW p \in handshaken' \ handshaken
      PROVE  /\ queue[<<p[2], p[1]>>] # <<>>
             /\ p \in T /\ msg = ChainRequest
  <2>1. p = <<n, m>>
    BY DEF Handles
  <2> QED
    BY <2>1 DEF Handles
<1> QED
  BY <1>3, <1>4, <1>5, <1>6, <1>7 DEF Talks, q

\* Only the message that was taken asks for an answer.
LEMMA TakenAnswers ==
  ASSUME IInv, NEW m, NEW n, NEW T, NEW msg, NEW o, <<m, n>> \in Pairs,
         Incoming(m, n) = ChainRequest =>
           <<n, m>> \in T /\ Raises(msg, Height(n)),
         \A x \in Nat : Raises(Incoming(m, n), x) =>
           \/ Len(o.chain) >= x
           \/ <<n, m>> \in T /\ msg = ChainRequest
  PROVE  Answers(n, o, Taken(m, n), T, msg)
<1> SUFFICES ASSUME NEW p \in Pairs, Taken(m, n)[p] # queue[p]
             PROVE  /\ p[2] = n
                    /\ Head(queue[p]) = ChainRequest =>
                         <<n, p[1]>> \in T /\ Raises(msg, Height(n))
                    /\ \A x \in Nat : Raises(Head(queue[p]), x) =>
                         \/ Len(o.chain) >= x
                         \/ <<n, p[1]>> \in T /\ msg = ChainRequest
  BY DEF Answers
<1>1. p = <<m, n>>
  BY DEF Taken, IInv, SoundInv
<1>2. p[1] = m /\ p[2] = n /\ Head(queue[p]) = Incoming(m, n)
  BY <1>1 DEF Incoming
<1> QED
  BY <1>2

\* Broadcast, send and taking a message without an answer, as Sends.
LEMMA BroadcastForm ==
  ASSUME NEW q, NEW n, NEW k, NEW msg
  PROVE  Broadcast(q, n, k, msg) =
           Sends(q, {p \in handshaken : p[1] = n /\ p[2] # k}, msg)
BY DEF Broadcast, Sends

LEMMA SendForms ==
  ASSUME SoundInv, NEW m, NEW n, <<n, m>> \in Pairs, NEW msg
  PROVE  /\ Send(Taken(m, n), n, m, msg) =
              Sends(Taken(m, n), {<<n, m>>}, msg)
         /\ Taken(m, n) = Sends(Taken(m, n), {}, msg)
<1> DEFINE q == Taken(m, n)
<1>1. q = [p \in Pairs |-> q[p]]
  BY DEF Taken, SoundInv
<1> HIDE DEF q
<1>2. Send(q, n, m, msg) = Sends(q, {<<n, m>>}, msg)
  BY <1>1 DEF Send, Sends
<1>3. q = Sends(q, {}, msg)
  BY <1>1 DEF Sends
<1> QED
  BY <1>2, <1>3 DEF q

\* These messages raise nobody's chain, and are always sound.
LEMMA OtherMessages ==
  ASSUME NEW msg,
         msg.type # "CHAIN_RESPONSE", msg.type # "NEW_BLOCK"
  PROVE  MessageOK(msg) /\ \A x : ~Raises(msg, x)
BY DEF MessageOK, Raises

\* The node's own object and chain, when the step leaves them alone.
LEMMA OwnChain ==
  ASSUME IInv, NEW n \in Node
  PROVE  /\ ObjectOK(bc[n], Clock(n)) /\ Servable(bc[n].chain)
         /\ Height(n) \in Nat /\ Height(n) = Len(bc[n].chain)
         /\ GetLatestBlock(bc[n]).index = Height(n) - 1
         /\ now \in Nat /\ Clock(n) \in Nat
<1>1. ObjectOK(bc[n], Clock(n)) /\ Servable(bc[n].chain) /\ now \in Nat
  BY DEF IInv, SoundInv
<1>2. ChainOK(bc[n].chain, Clock(n))
  BY <1>1 DEF Servable
<1>3. /\ Len(bc[n].chain) \in Nat
      /\ bc[n].chain[Len(bc[n].chain)].index = Len(bc[n].chain) - 1
  BY <1>2, LatestIndex
<1> QED
  BY <1>1, <1>3, ClockType DEF Height, GetLatestBlock

\* The node's object is left alone.
LEMMA QuietObject ==
  ASSUME IInv, NEW n \in Node, UNCHANGED <<bc, now>>,
         NEW q, NEW T, NEW msg, Talks(q, T, msg), MessageOK(msg),
         Answers(n, bc[n], q, T, msg),
         \A x \in Nat : Raises(msg, x) => x <= Height(n)
  PROVE  IInv'
<1>1. /\ ObjectOK(bc[n], Clock(n)) /\ Servable(bc[n].chain)
      /\ Height(n) \in Nat /\ Height(n) = Len(bc[n].chain)
  BY OwnChain
<1>2. Affects(n, bc[n], q, T, msg)
  BY DEF Affects, IInv, SoundInv
<1>3. Serves(n, bc[n], q, T, msg)
  BY <1>1, <1>2 DEF Serves
<1>4. Modest(n, bc[n], msg)
  BY <1>1 DEF Modest
<1> QED
  BY <1>3, <1>4, ModestStep

\* A HELLO completes the handshake, and the chain is asked for.
LEMMA HelloStep ==
  ASSUME IInv, NEW n, NEW m, <<n, m>> \in Pairs, HandleHello(n, m)
  PROVE  IInv'
<1> DEFINE T == {<<n, m>>}
           msg == ChainRequest
<1>1. <<m, n>> \in Pairs /\ n \in Node /\ queue[<<m, n>>] # <<>>
  BY PairFacts DEF HandleHello, Takes
<1>2. UNCHANGED <<bc, now>> /\ handshaken' = handshaken \cup {<<n, m>>}
  BY DEF HandleHello
<1>3. queue' = Sends(Taken(m, n), T, msg)
  BY SendForms DEF HandleHello, IInv
<1>4. Handles(n, m, T, msg)
  BY <1>1, <1>2, <1>3 DEF Handles
<1>5. Talks(Taken(m, n), T, msg)
  BY <1>4, TakenTalks
<1>6. Incoming(m, n) # ChainRequest
  BY DEF HandleHello, Takes, ChainRequest
<1>7. Answers(n, bc[n], Taken(m, n), T, msg)
  BY <1>1, <1>6, TakenAnswers
<1>8. MessageOK(msg) /\ \A x : ~Raises(msg, x)
  BY OtherMessages DEF ChainRequest
<1> HIDE DEF T, msg
<1> QED
  BY <1>1, <1>2, <1>5, <1>7, <1>8, QuietObject

\* A request is answered with the chain.
LEMMA ChainRequestStep ==
  ASSUME IInv, NEW n, NEW m, <<n, m>> \in Pairs, HandleChainRequest(n, m)
  PROVE  IInv'
<1> DEFINE T == {<<n, m>>}
           msg == ChainResponse(bc[n].chain)
<1>1. <<m, n>> \in Pairs /\ n \in Node /\ queue[<<m, n>>] # <<>>
  BY PairFacts DEF HandleChainRequest, Takes
<1>2. UNCHANGED <<bc, now, handshaken>>
  BY DEF HandleChainRequest
<1>3. queue' = Sends(Taken(m, n), T, msg)
  BY SendForms DEF HandleChainRequest, IInv
<1>4. <<n, m>> \in handshaken
  BY <1>1, IncomingFacts DEF HandleChainRequest, Takes
<1>5. Handles(n, m, T, msg)
  BY <1>1, <1>2, <1>3, <1>4 DEF Handles
<1>6. Talks(Taken(m, n), T, msg)
  BY <1>5, TakenTalks
<1>7. /\ Height(n) \in Nat /\ Height(n) = Len(bc[n].chain)
      /\ Servable(bc[n].chain)
  BY <1>1, OwnChain
<1>8. MessageOK(msg)
  BY <1>7 DEF MessageOK, ChainResponse
<1>9. \A x \in Nat : Raises(msg, x) <=> x <= Height(n)
  BY <1>7 DEF Raises, ChainResponse
<1>10. \A x : ~Raises(Incoming(m, n), x)
  BY OtherMessages DEF HandleChainRequest, Takes
<1>11. Answers(n, bc[n], Taken(m, n), T, msg)
  BY <1>1, <1>7, <1>9, <1>10, TakenAnswers
<1> HIDE DEF T, msg
<1> QED
  BY <1>1, <1>2, <1>6, <1>8, <1>9, <1>11, QuietObject

\* A longer chain is adopted, as it is servable, hence valid here.
LEMMA ChainResponseStep ==
  ASSUME IInv, NEW n, NEW m, <<n, m>> \in Pairs, HandleChainResponse(n, m)
  PROVE  IInv'
<1> DEFINE c == Incoming(m, n).chain
           o == bc[n]
           r == IF CanReplaceChain(o, c, Clock(n))
                THEN ReplaceChain(o, c, Clock(n)) ELSE o
<1>1. <<m, n>> \in Pairs /\ n \in Node /\ queue[<<m, n>>] # <<>>
  BY PairFacts DEF HandleChainResponse, Takes
<1>2. UNCHANGED <<now, handshaken>> /\ queue' = Sends(Taken(m, n), {}, Hello)
  BY SendForms DEF HandleChainResponse, IInv
<1>3. Incoming(m, n).type = "CHAIN_RESPONSE"
  BY DEF HandleChainResponse, Takes
<1>4. Servable(c) /\ <<n, m>> \in handshaken
  BY <1>1, <1>3, IncomingFacts DEF MessageOK
<1>5. Talks(Taken(m, n), {}, Hello)
  <2>1. Handles(n, m, {}, Hello)
    BY <1>1, <1>2, <1>4 DEF Handles
  <2> QED
    BY <2>1, TakenTalks
<1>6. /\ ObjectOK(o, Clock(n)) /\ Servable(o.chain)
      /\ Height(n) \in Nat /\ Height(n) = Len(o.chain) /\ Clock(n) \in Nat
  BY <1>1, OwnChain
<1>7. ChainOK(c, Clock(n)) /\ ReplayChain(c).ok /\ Len(c) \in Nat
  <2>1. ChainOK(c, Clock(n)) /\ ReplayChain(c).ok
    BY <1>1, <1>4 DEF Servable
  <2> QED
    BY <2>1, LatestIndex
<1>8. CanReplaceChain(o, c, Clock(n)) <=> Len(c) > Height(n)
  BY <1>6, <1>7 DEF CanReplaceChain, IsChainValid, ChainOK
<1>9. Len(c) > Height(n) => r = ReplaceChain(o, c, Clock(n))
  BY <1>8
<1>10. ~(Len(c) > Height(n)) => r = o
  BY <1>8
<1>11. Affects(n, r, Taken(m, n), {}, Hello)
  BY <1>2, <1>5 DEF HandleChainResponse, Affects, IInv, SoundInv
<1> HIDE DEF r
<1>12. /\ ObjectOK(r, Clock(n)) /\ Servable(r.chain)
       /\ Len(r.chain) = IF Len(c) > Height(n) THEN Len(c) ELSE Height(n)
  <2>1. CASE Len(c) > Height(n)
    <3>1. ObjectOK(r, Clock(n))
      BY <1>6, <1>7, <1>8, <1>9, <2>1, ReplaceChainOK DEF ChainOK
    <3>2. r.chain = c
      BY <1>6, <1>9, <2>1, ReplaceChainChain
    <3> QED
      BY <1>4, <2>1, <3>1, <3>2
  <2>2. CASE ~(Len(c) > Height(n))
    BY <1>6, <1>10, <2>2
  <2> QED
    BY <2>1, <2>2
<1>13. \A x \in Nat : Raises(Incoming(m, n), x) <=> Len(c) >= x
  BY <1>3 DEF Raises
<1>14. Answers(n, r, Taken(m, n), {}, Hello)
  <2>1. Incoming(m, n) # ChainRequest
    BY <1>3 DEF ChainRequest
  <2>2. \A x \in Nat : Raises(Incoming(m, n), x) => Len(r.chain) >= x
    BY <1>6, <1>7, <1>12, <1>13
  <2> QED
    BY <1>1, <2>1, <2>2, TakenAnswers
<1>15. MessageOK(Hello) /\ \A x : ~Raises(Hello, x)
  BY OtherMessages DEF Hello
<1>16. Serves(n, r, Taken(m, n), {}, Hello)
  <2>1. Height(n) <= Len(r.chain)
    BY <1>6, <1>7, <1>12
  <2> QED
    BY <1>11, <1>12, <1>14, <1>15, <2>1 DEF Serves
<1>17. Modest(n, r, Hello)
  <2> SUFFICES ASSUME NEW x \in Nat, Len(r.chain) >= x, ~(x <= Height(n))
               PROVE  \E p \in Pairs : \E h \in Range(queue[p]) : Raises(h, x)
    BY <1>15 DEF Modest
  <2>1. Raises(Incoming(m, n), x)
    BY <1>6, <1>7, <1>12, <1>13
  <2>2. Incoming(m, n) \in Range(queue[<<m, n>>])
    BY <1>1, IncomingFacts
  <2> QED
    BY <1>1, <2>1, <2>2
<1> QED
  BY <1>1, <1>16, <1>17, ModestStep

\* A block that fits is added and passed on, one we are past is dropped, and
\* any other makes the receiver ask for the sender's chain.
LEMMA NewBlockStep ==
  ASSUME IInv, NEW n, NEW m, <<n, m>> \in Pairs, HandleNewBlock(n, m)
  PROVE  IInv'
<1> DEFINE b == Incoming(m, n).block
           o == bc[n]
           q == Taken(m, n)
<1>1. <<m, n>> \in Pairs /\ n \in Node /\ queue[<<m, n>>] # <<>>
  BY PairFacts DEF HandleNewBlock, Takes
<1>2. UNCHANGED <<now, handshaken>>
  BY DEF HandleNewBlock
<1>3. Incoming(m, n).type = "NEW_BLOCK"
  BY DEF HandleNewBlock, Takes
<1>4. IsBlock(b) /\ InTime(b) /\ <<n, m>> \in handshaken /\ b.index \in Int
  BY <1>1, <1>3, IncomingFacts DEF MessageOK, IsBlock
<1>5. /\ ObjectOK(o, Clock(n)) /\ Servable(o.chain)
      /\ Height(n) \in Nat /\ Height(n) = Len(o.chain) /\ Clock(n) \in Nat
      /\ GetLatestBlock(o).index = Height(n) - 1
  BY <1>1, OwnChain
<1>6. /\ Incoming(m, n) # ChainRequest
      /\ \A x \in Nat : Raises(Incoming(m, n), x) <=> b.index + 1 >= x
  BY <1>3 DEF ChainRequest, Raises
<1>7. ASSUME NEW T, NEW msg, T \subseteq handshaken, queue' = Sends(q, T, msg)
      PROVE  Talks(q, T, msg)
  <2>1. Handles(n, m, T, msg)
    BY <1>1, <1>2, <1>4, <1>7 DEF Handles
  <2> QED
    BY <2>1, TakenTalks
<1>8. CASE /\ CanAddBlock(o, b, Clock(n))
           /\ bc' = [bc EXCEPT ![n] = AddBlock(@, b, Clock(n))]
           /\ queue' = Broadcast(q, n, m, NewBlock(b))
  <2> DEFINE r == AddBlock(o, b, Clock(n))
             T == {p \in handshaken : p[1] = n /\ p[2] # m}
             msg == NewBlock(b)
  <2>1. Talks(q, T, msg)
    BY <1>7, <1>8, BroadcastForm
  <2>2. Affects(n, r, q, T, msg)
    BY <1>2, <1>8, <2>1 DEF Affects, IInv, SoundInv
  <2>3. MessageOK(msg) /\ \A x \in Nat : Raises(msg, x) <=> b.index + 1 >= x
    BY <1>4 DEF MessageOK, NewBlock, Raises
  <2> HIDE DEF r, T, msg
  <2>4. /\ ObjectOK(r, Clock(n)) /\ Servable(r.chain)
        /\ Len(r.chain) = Height(n) + 1 /\ b.index = Height(n)
    BY <1>1, <1>4, <1>8, AddBlockSound DEF IInv, r
  <2>5. Answers(n, r, q, T, msg)
    <3>1. \A x \in Nat : Raises(Incoming(m, n), x) => Len(r.chain) >= x
      BY <1>6, <2>4
    <3> QED
      BY <1>1, <1>6, <3>1, TakenAnswers
  <2>6. Serves(n, r, q, T, msg)
    BY <1>5, <2>2, <2>3, <2>4, <2>5 DEF Serves
  <2>7. Modest(n, r, msg)
    <3> SUFFICES ASSUME NEW x \in Nat, Len(r.chain) >= x \/ Raises(msg, x)
                 PROVE  \E p \in Pairs : \E h \in Range(queue[p]) : Raises(h, x)
      BY DEF Modest
    <3>1. Raises(Incoming(m, n), x)
      BY <1>6, <2>3, <2>4
    <3>2. Incoming(m, n) \in Range(queue[<<m, n>>])
      BY <1>1, IncomingFacts
    <3> QED
      BY <1>1, <3>1, <3>2
  <2> QED
    BY <1>1, <2>6, <2>7, ModestStep
<1>9. CASE AlreadyHave(o, b) /\ queue' = q /\ UNCHANGED bc
  <2>1. Talks(q, {}, Hello)
    <3>1. queue' = Sends(q, {}, Hello)
      BY <1>9, SendForms DEF IInv
    <3> QED
      BY <1>7, <3>1
  <2>2. \A x \in Nat : Raises(Incoming(m, n), x) => Len(o.chain) >= x
    BY <1>4, <1>5, <1>6, <1>9 DEF AlreadyHave
  <2>3. Answers(n, o, q, {}, Hello)
    BY <1>1, <1>6, <2>2, TakenAnswers
  <2>4. MessageOK(Hello) /\ \A x : ~Raises(Hello, x)
    BY OtherMessages DEF Hello
  <2> QED
    BY <1>1, <1>2, <1>9, <2>1, <2>3, <2>4, QuietObject
<1>10. CASE queue' = Send(q, n, m, ChainRequest) /\ UNCHANGED bc
  <2> DEFINE T == {<<n, m>>}
  <2>1. Talks(q, T, ChainRequest)
    <3>1. queue' = Sends(q, T, ChainRequest)
      BY <1>10, SendForms DEF IInv
    <3> QED
      BY <1>4, <1>7, <3>1
  <2>2. Answers(n, o, q, T, ChainRequest)
    BY <1>1, <1>6, TakenAnswers
  <2>3. MessageOK(ChainRequest) /\ \A x : ~Raises(ChainRequest, x)
    BY OtherMessages DEF ChainRequest
  <2> QED
    BY <1>1, <1>2, <1>10, <2>1, <2>2, <2>3, QuietObject
<1> QED
  BY <1>8, <1>9, <1>10 DEF HandleNewBlock

\* A transaction taken into the pool leaves the chain alone.
LEMMA TransactionAdded ==
  ASSUME IInv, NEW n \in Node, NEW tx, CanAddTransaction(bc[n], tx),
         bc' = [bc EXCEPT ![n] = AddTransaction(@, tx, Clock(n))], now' = now,
         NEW q, NEW T, Talks(q, T, NewTransaction(tx)),
         Answers(n, bc[n], q, T, NewTransaction(tx))
  PROVE  IInv'
<1> DEFINE o == bc[n]
           r == AddTransaction(o, tx, Clock(n))
           msg == NewTransaction(tx)
<1>1. /\ ObjectOK(o, Clock(n)) /\ Servable(o.chain)
      /\ Height(n) \in Nat /\ Height(n) = Len(o.chain) /\ Clock(n) \in Nat
  BY OwnChain
<1>2. ObjectOK(r, Clock(n))
  BY <1>1, AddTransactionOK
<1>3. r.chain = o.chain
  BY <1>1 DEF AddTransaction, ObjectOK, UnprunedOK, IsObject
<1>4. Affects(n, r, q, T, msg)
  BY DEF Affects, IInv, SoundInv
<1>5. MessageOK(msg) /\ \A x : ~Raises(msg, x)
  BY OtherMessages DEF NewTransaction
<1>6. Answers(n, r, q, T, msg)
  BY <1>3 DEF Answers
<1> HIDE DEF r, msg
<1>7. Serves(n, r, q, T, msg)
  BY <1>1, <1>2, <1>3, <1>4, <1>5, <1>6 DEF Serves
<1>8. Modest(n, r, msg)
  BY <1>1, <1>3, <1>5 DEF Modest
<1> QED
  BY <1>7, <1>8, ModestStep

LEMMA NewTransactionStep ==
  ASSUME IInv, NEW n, NEW m, <<n, m>> \in Pairs, HandleNewTransaction(n, m)
  PROVE  IInv'
<1> DEFINE tx == Incoming(m, n).transaction
           q == Taken(m, n)
<1>1. <<m, n>> \in Pairs /\ n \in Node /\ queue[<<m, n>>] # <<>>
  BY PairFacts DEF HandleNewTransaction, Takes
<1>2. UNCHANGED <<now, handshaken>>
  BY DEF HandleNewTransaction
<1>3. Incoming(m, n).type = "NEW_TRANSACTION"
  BY DEF HandleNewTransaction, Takes
<1>4. <<n, m>> \in handshaken
  BY <1>1, <1>3, IncomingFacts
<1>5. Incoming(m, n) # ChainRequest /\ \A x : ~Raises(Incoming(m, n), x)
  BY <1>3, OtherMessages DEF ChainRequest
<1>6. ASSUME NEW T, NEW msg, T \subseteq handshaken, queue' = Sends(q, T, msg)
      PROVE  Talks(q, T, msg) /\ Answers(n, bc[n], q, T, msg)
  <2>1. Handles(n, m, T, msg)
    BY <1>1, <1>2, <1>4, <1>6 DEF Handles
  <2>2. Talks(q, T, msg)
    BY <2>1, TakenTalks
  <2>3. Answers(n, bc[n], q, T, msg)
    BY <1>1, <1>5, TakenAnswers
  <2> QED
    BY <2>2, <2>3
<1>7. CASE CanAddTransaction(bc[n], tx)
  <2> DEFINE T == {p \in handshaken : p[1] = n /\ p[2] # m}
  <2>1. queue' = Sends(q, T, NewTransaction(tx))
    BY <1>7, BroadcastForm DEF HandleNewTransaction
  <2>2. bc' = [bc EXCEPT ![n] = AddTransaction(@, tx, Clock(n))]
    BY <1>7 DEF HandleNewTransaction
  <2>3. Talks(q, T, NewTransaction(tx)) /\ Answers(n, bc[n], q, T, NewTransaction(tx))
    BY <1>6, <2>1
  <2> HIDE DEF T, q, tx
  <2> QED
    BY <1>1, <1>2, <1>7, <2>2, <2>3, TransactionAdded
<1>8. CASE ~CanAddTransaction(bc[n], tx)
  <2>1. queue' = q /\ UNCHANGED bc
    BY <1>8 DEF HandleNewTransaction
  <2>2. queue' = Sends(q, {}, Hello)
    BY <2>1, SendForms DEF IInv
  <2>3. Talks(q, {}, Hello) /\ Answers(n, bc[n], q, {}, Hello)
    BY <1>6, <2>2
  <2>4. MessageOK(Hello) /\ \A x : ~Raises(Hello, x)
    BY OtherMessages DEF Hello
  <2> QED
    BY <1>1, <1>2, <2>1, <2>3, <2>4, QuietObject
<1> QED
  BY <1>7, <1>8

\* A message sent without taking one.
LEMMA LocalTalks ==
  ASSUME IInv, NEW T, NEW msg, T \subseteq handshaken, UNCHANGED handshaken,
         queue' = Sends(queue, T, msg)
  PROVE  Talks(queue, T, msg) /\ \A n, o : Answers(n, o, queue, T, msg)
<1>1. handshaken \subseteq Pairs
  BY DEF IInv, SoundInv
<1> QED
  BY <1>1 DEF Talks, Answers

LEMMA SubmitStep ==
  ASSUME IInv, NEW n \in Node, NEW tx, SubmitTransaction(n, tx)
  PROVE  IInv'
<1> DEFINE T == {p \in handshaken : p[1] = n /\ p[2] # n}
<1>1. queue' = Sends(queue, T, NewTransaction(tx))
  BY BroadcastForm DEF SubmitTransaction
<1>2. UNCHANGED <<handshaken, now>> /\ T \subseteq handshaken
  BY DEF SubmitTransaction
<1>3. /\ Talks(queue, T, NewTransaction(tx))
      /\ Answers(n, bc[n], queue, T, NewTransaction(tx))
  BY <1>1, <1>2, LocalTalks
<1> HIDE DEF T
<1> QED
  BY <1>2, <1>3, TransactionAdded DEF SubmitTransaction

\* A proposal that exceeds every chain makes the proposer the leader: the
\* peers it has shaken hands with are told, and the others, if they have
\* shaken hands with it, have asked for its chain.
LEMMA ProposeStep ==
  ASSUME IInv, ClocksClose, NEW n \in Node, Propose(n)
  PROVE  IInv'
<1>1. PICK b \in Proposals(bc[n], KeyOf[n], Clock(n)) :
        /\ CanAddBlock(bc[n], b, Clock(n))
        /\ bc' = [bc EXCEPT ![n] = AddBlock(@, b, Clock(n))]
        /\ queue' = Broadcast(queue, n, n, NewBlock(b))
  BY DEF Propose
<1> DEFINE r == AddBlock(bc[n], b, Clock(n))
           T == {p \in handshaken : p[1] = n /\ p[2] # n}
           msg == NewBlock(b)
<1>2. /\ ObjectOK(bc[n], Clock(n)) /\ Height(n) \in Nat
      /\ now \in Nat /\ Clock(n) \in Nat
  BY OwnChain
<1>3. IsBlock(b) /\ b.timestamp = Clock(n)
  BY <1>1, <1>2, ProposalOK, ProposalTime
<1>4. InTime(b)
  <2> SUFFICES ASSUME NEW k \in Node
               PROVE  Clock(n) <= Clock(k) + MaxFutureDrift
    BY <1>3 DEF InTime
  <2>1. ClockOffset[n] <= ClockOffset[k] + MaxFutureDrift
    BY DEF ClocksClose
  <2>2. ClockOffset[n] \in Nat /\ ClockOffset[k] \in Nat
    BY NetworkAssumption
  <2> QED
    BY <1>2, <2>1, <2>2, LedgerAssumption DEF Clock
<1>5. /\ ObjectOK(r, Clock(n)) /\ Servable(r.chain)
      /\ Len(r.chain) = Height(n) + 1 /\ b.index = Height(n)
  BY <1>1, <1>3, <1>4, AddBlockSound DEF IInv
<1>6. UNCHANGED <<handshaken, now>> /\ queue' = Sends(queue, T, msg)
  BY <1>1, BroadcastForm DEF Propose
<1>7. Talks(queue, T, msg) /\ Answers(n, r, queue, T, msg)
  BY <1>6, LocalTalks
<1>8. Affects(n, r, queue, T, msg)
  BY <1>1, <1>6, <1>7 DEF Affects, IInv, SoundInv
<1>9. MessageOK(msg) /\ \A x \in Nat : Raises(msg, x) <=> Height(n) + 1 >= x
  BY <1>3, <1>4, <1>5 DEF MessageOK, NewBlock, Raises
<1>10. \A p \in handshaken : p[1] = n /\ p[2] # n => p \in T
  OBVIOUS
<1> HIDE DEF r, T, msg
<1>11. SoundInv'
  BY <1>5, <1>8, <1>9, SoundStep DEF IInv
<1>12. LinkInv'
  BY <1>7, TalksLinks DEF IInv
<1>13. ChainOK(r.chain, Clock(n))
  BY <1>5 DEF Servable
<1>14. /\ \A k \in Node : Height(k) \in Nat
       /\ \A k \in Node : Height(k)' = IF k = n THEN Len(r.chain) ELSE Height(k)
  BY <1>8, <1>13, HeightFacts DEF IInv, Affects
<1> SUFFICES ASSUME IsFullMesh
             PROVE  LeaderInv'
  BY <1>11, <1>12 DEF IInv, LeaderInv
<1>15. PICK o \in Node : Ahead(o) /\ \A k \in Node \ {o} : Told(o, k)
  BY DEF IInv, LeaderInv
<1>16. CASE Height(n) + 1 <= Height(o)
  <2>1. ~Raises(msg, Height(o) + 1)
    BY <1>9, <1>14, <1>16
  <2>2. Height(n) <= Len(r.chain) /\ Len(r.chain) <= Height(o)
    BY <1>5, <1>14, <1>16
  <2>3. Ahead(o)' /\ \A k \in Node \ {o} : Told(o, k)'
    BY <1>7, <1>8, <1>13, <1>15, <2>1, <2>2, LeadStays DEF IInv
  <2> QED
    BY <1>15, <2>3 DEF LeaderInv
<1>17. CASE ~(Height(n) + 1 <= Height(o))
  <2> DEFINE H == Height(n) + 1
  <2>1. Height(n)' = H /\ H \in Nat /\ Height(o) = Height(n)
    BY <1>5, <1>14, <1>15, <1>17 DEF Ahead
  <2>2. \A k \in Node : Height(k)' <= H
    BY <1>5, <1>14, <1>15, <2>1 DEF Ahead
  <2>3. ASSUME NEW p \in Pairs, NEW x \in Range(queue'[p])
        PROVE  ~Raises(x, H + 1)
    <3>1. x \in Range(queue[p]) \cup {msg}
      BY <1>7, <2>3, TalksQueue DEF IInv
    <3>2. ~Raises(msg, H + 1)
      BY <1>9, <2>1
    <3>3. ASSUME x \in Range(queue[p])
          PROVE  ~Raises(x, H + 1)
      <4>1. ~Raises(x, H)
        BY <1>15, <2>1, <3>3 DEF Ahead
      <4>2. MessageOK(x)
        BY <3>3 DEF IInv, SoundInv
      <4>3. x.type = "CHAIN_RESPONSE" => Len(x.chain) \in Nat
        BY <4>2, LatestIndex DEF MessageOK, Servable
      <4>4. x.type = "NEW_BLOCK" => x.block.index \in Int
        BY <4>2 DEF MessageOK, IsBlock
      <4> HIDE DEF H
      <4> QED
        BY <2>1, <4>1, <4>3, <4>4 DEF Raises
    <3> QED
      BY <3>1, <3>2, <3>3
  <2>4. Ahead(n)'
    BY <2>1, <2>2, <2>3 DEF Ahead, Raises
  <2>5. ASSUME NEW k \in Node \ {n}
        PROVE  Told(n, k)'
    <3>1. <<n, k>> \in Pairs /\ <<k, n>> \in Pairs
      BY PairFacts
    <3>2. CASE <<k, n>> \notin handshaken
      BY <1>6, <3>2 DEF Told
    <3>3. CASE <<k, n>> \in handshaken /\ <<n, k>> \in handshaken
      <4>1. <<n, k>> \in T
        BY <1>10, <3>3
      <4>2. msg \in Range(queue'[<<n, k>>])
        BY <1>7, <3>1, <4>1, TalksQueue DEF IInv
      <4>3. Raises(msg, H)
        BY <1>9, <2>1
      <4> QED
        BY <2>1, <4>2, <4>3 DEF Told, Raises
    <3>4. CASE <<k, n>> \in handshaken /\ <<n, k>> \notin handshaken
      <4>1. LinkOK(k, n)
        BY <3>1 DEF IInv, LinkInv
      <4>2. ChainRequest \in Range(queue[<<k, n>>])
        BY <3>4, <4>1 DEF LinkOK
      <4>3. ChainRequest \in Range(queue'[<<k, n>>])
        BY <1>7, <3>1, <4>2, TalksQueue DEF IInv
      <4> QED
        BY <4>3 DEF Told
    <3> QED
      BY <3>2, <3>3, <3>4
  <2> QED
    BY <2>4, <2>5 DEF LeaderInv
<1> QED
  BY <1>16, <1>17

-----------------------------------------------------------------------------
(* Time and connections                                                    *)

\* What is sound stays sound as time goes on.
LEMMA TickStep ==
  ASSUME IInv, Tick
  PROVE  IInv'
<1>1. UNCHANGED <<bc, queue, handshaken>> /\ now' = now + 1 /\ now \in Nat
  BY DEF Tick, IInv, SoundInv
<1>2. \A n \in Node : /\ Clock(n) \in Nat /\ Clock(n)' \in Nat
                      /\ Clock(n)' = Clock(n) + 1
  <2> SUFFICES ASSUME NEW n \in Node
               PROVE  /\ Clock(n) \in Nat /\ Clock(n)' \in Nat
                      /\ Clock(n)' = Clock(n) + 1
    OBVIOUS
  <2>1. ClockOffset[n] \in Nat
    BY NetworkAssumption
  <2> QED
    BY <1>1, <2>1 DEF Clock
<1>3. ASSUME NEW c, NEW n \in Node, ChainOK(c, Clock(n))
      PROVE  ChainOK(c, Clock(n)')
  <2>1. Clock(n) \in Nat /\ Clock(n)' \in Nat /\ Clock(n) <= Clock(n)'
    BY <1>2
  <2> QED
    BY <1>3, <2>1, ChainOKLater
<1>4. \A c : Servable(c) => Servable(c)'
  BY <1>3 DEF Servable
<1>5. ASSUME NEW msg, MessageOK(msg)
      PROVE  MessageOK(msg)'
  <2>1. ASSUME NEW b, IsBlock(b), InTime(b)
        PROVE  InTime(b)'
    <3> SUFFICES ASSUME NEW n \in Node
                 PROVE  b.timestamp <= Clock(n)' + MaxFutureDrift
      BY DEF InTime
    <3>1. b.timestamp <= Clock(n) + MaxFutureDrift /\ b.timestamp \in Int
      BY <2>1 DEF InTime, IsBlock
    <3>2. Clock(n) \in Nat /\ Clock(n)' = Clock(n) + 1
      BY <1>2
    <3> QED
      BY <3>1, <3>2, LedgerAssumption
  <2> QED
    BY <1>4, <1>5, <2>1 DEF MessageOK
<1>6. ASSUME NEW n \in Node
      PROVE  /\ ObjectOK(bc[n], Clock(n)')
             /\ ReplayChain(bc[n].chain).ok
             /\ \A k \in Node : ChainOK(bc[n].chain, Clock(k)')
  <2>1. ObjectOK(bc[n], Clock(n)) /\ Servable(bc[n].chain)
    BY DEF IInv, SoundInv
  <2>2. ReplayChain(bc[n].chain).ok /\ \A k \in Node : ChainOK(bc[n].chain, Clock(k)')
    BY <1>3, <2>1 DEF Servable
  <2>3. \A h \in DOMAIN bc[n].receivedAt : bc[n].receivedAt[h] \in 0 .. Clock(n)'
    <3>1. \A h \in DOMAIN bc[n].receivedAt : bc[n].receivedAt[h] \in 0 .. Clock(n)
      BY <2>1 DEF ObjectOK, UnprunedOK
    <3>2. Clock(n) \in Nat /\ Clock(n)' = Clock(n) + 1
      BY <1>2
    <3> QED
      BY <3>1, <3>2
  <2> QED
    BY <2>1, <2>2, <2>3 DEF ObjectOK, UnprunedOK
<1>7. SoundInv'
  <2>1. \A n \in Node : ObjectOK(bc[n], Clock(n)') /\ Servable(bc[n].chain)'
    BY <1>1, <1>6 DEF Servable
  <2>2. \A p \in Pairs : \A msg \in Range(queue[p]) : MessageOK(msg)'
    BY <1>5 DEF IInv, SoundInv
  <2>3. now' \in Nat
    BY <1>1
  <2> QED
    BY <1>1, <2>1, <2>2, <2>3 DEF IInv, SoundInv
<1>8. LinkInv' /\ LeaderInv'
  BY <1>1 DEF IInv, LinkInv, LinkOK, LeaderInv, Ahead, Told, Height
<1> QED
  BY <1>7, <1>8 DEF IInv

\* The chains stay as they are, and so do all queues but those between m and
\* n, who have both to handle a HELLO of the other before anything else.
LEMMA LinkReset ==
  ASSUME IInv, NEW m \in Node, NEW n \in Node, m # n,
         UNCHANGED <<bc, now>>, DOMAIN queue' = Pairs, handshaken' \subseteq Pairs,
         \A p \in Pairs \ {<<m, n>>, <<n, m>>} :
           queue'[p] = queue[p] /\ (p \in handshaken' <=> p \in handshaken),
         <<m, n>> \notin handshaken', <<n, m>> \notin handshaken',
         NEW s, s = <<>> \/ s = <<Hello>>,
         \A p \in Pairs \cap {<<m, n>>, <<n, m>>} : queue'[p] = s
  PROVE  IInv'
<1>1. /\ IsSeq(s)
      /\ \A msg \in Range(s) : MessageOK(msg) /\ \A x : ~Raises(msg, x)
  <2>1. MessageOK(Hello) /\ \A x : ~Raises(Hello, x)
    BY OtherMessages DEF Hello
  <2>2. s \in Seq({Hello})
    <3> DEFINE e == Hello
    <3>1. <<>> \in Seq({e}) /\ <<e>> \in Seq({e})
      OBVIOUS
    <3>2. s = <<>> \/ s = <<e>>
      OBVIOUS
    <3> HIDE DEF e
    <3> QED
      BY <3>1, <3>2 DEF e
  <2>3. IsSeq(s)
    BY <2>2, SeqIsSeq
  <2>4. \A msg \in Range(s) : msg = Hello
    BY <2>2 DEF Range
  <2> QED
    BY <2>1, <2>3, <2>4
<1>2. \A k : Clock(k)' = Clock(k)
  BY DEF Clock
<1>3. \A c : Servable(c)' <=> Servable(c)
  BY <1>2 DEF Servable
<1>4. \A msg : MessageOK(msg)' <=> MessageOK(msg)
  BY <1>2, <1>3 DEF MessageOK, InTime
<1>5. SoundInv'
  <2>1. now' \in Nat /\ DOMAIN bc' = Node
    BY DEF IInv, SoundInv
  <2>2. \A k \in Node : ObjectOK(bc[k], Clock(k)') /\ Servable(bc[k].chain)'
    <3> SUFFICES ASSUME NEW k \in Node
                 PROVE  ObjectOK(bc[k], Clock(k)') /\ Servable(bc[k].chain)'
      OBVIOUS
    <3>1. ObjectOK(bc[k], Clock(k)) /\ Servable(bc[k].chain)
      BY DEF IInv, SoundInv
    <3> QED
      BY <1>2, <3>1 DEF Servable
  <2>3. ASSUME NEW p \in Pairs
        PROVE  IsSeq(queue'[p]) /\ \A msg \in Range(queue'[p]) : MessageOK(msg)
    <3>1. queue'[p] = queue[p] \/ queue'[p] = s
      OBVIOUS
    <3> QED
      BY <1>1, <3>1 DEF IInv, SoundInv
  <2> QED
    BY <1>4, <2>1, <2>2, <2>3 DEF IInv, SoundInv
<1>6. ASSUME NEW p \in Pairs
      PROVE  LinkOK(p[1], p[2])'
  <2>1. /\ p = <<p[1], p[2]>> /\ <<p[2], p[1]>> \in Pairs
        /\ LinkOK(p[1], p[2])
    BY PairFacts DEF IInv, LinkInv
  <2>2. CASE p \in {<<m, n>>, <<n, m>>}
    <3>1. <<p[2], p[1]>> \in {<<m, n>>, <<n, m>>}
      BY <2>2
    <3>2. queue'[p] = s /\ queue'[<<p[2], p[1]>>] = s /\ p \notin handshaken'
      BY <2>1, <2>2, <3>1
    <3>3. s # <<>> => Head(s) = Hello
      OBVIOUS
    <3> QED
      BY <2>1, <3>2, <3>3 DEF LinkOK
  <2>3. CASE p \notin {<<m, n>>, <<n, m>>}
    <3>1. <<p[2], p[1]>> \notin {<<m, n>>, <<n, m>>}
      BY <2>1, <2>3
    <3>2. /\ queue'[p] = queue[p]
          /\ queue'[<<p[2], p[1]>>] = queue[<<p[2], p[1]>>]
          /\ p \in handshaken' <=> p \in handshaken
          /\ <<p[2], p[1]>> \in handshaken' <=> <<p[2], p[1]>> \in handshaken
      BY <2>1, <2>3, <3>1
    <3> QED
      BY <2>1, <3>2 DEF LinkOK
  <2> QED
    BY <2>2, <2>3
<1>7. LeaderInv'
  <2> SUFFICES ASSUME IsFullMesh
               PROVE  LeaderInv'
    BY DEF LeaderInv
  <2>1. PICK o \in Node : Ahead(o) /\ \A k \in Node \ {o} : Told(o, k)
    BY DEF IInv, LeaderInv
  <2>2. \A k : Height(k)' = Height(k)
    BY DEF Height
  <2>3. Ahead(o)'
    <3>1. ASSUME NEW p \in Pairs, NEW msg \in Range(queue'[p])
          PROVE  ~Raises(msg, Height(o) + 1)
      <4>1. queue'[p] = queue[p] \/ queue'[p] = s
        OBVIOUS
      <4> QED
        BY <1>1, <2>1, <3>1, <4>1 DEF Ahead
    <3> QED
      BY <2>1, <2>2, <3>1 DEF Ahead, Raises
  <2>4. ASSUME NEW k \in Node \ {o}
        PROVE  Told(o, k)'
    <3>1. CASE <<k, o>> \notin handshaken'
      BY <3>1 DEF Told
    <3>2. CASE <<k, o>> \in handshaken'
      <4>1. <<k, o>> \in Pairs /\ <<o, k>> \in Pairs
        <5>1. <<k, o>> \in Pairs
          BY <3>2
        <5> QED
          BY <5>1, PairFacts
      <4>2. <<k, o>> \notin {<<m, n>>, <<n, m>>} /\ <<o, k>> \notin {<<m, n>>, <<n, m>>}
        BY <3>2
      <4>3. /\ queue'[<<k, o>>] = queue[<<k, o>>]
            /\ queue'[<<o, k>>] = queue[<<o, k>>]
            /\ <<k, o>> \in handshaken
        BY <3>2, <4>1, <4>2
      <4>4. Told(o, k)
        BY <2>1
      <4> QED
        BY <2>2, <4>3, <4>4 DEF Told, Raises
    <3> QED
      BY <3>1, <3>2
  <2> QED
    BY <2>1, <2>3, <2>4 DEF LeaderInv
<1> QED
  BY <1>5, <1>6, <1>7 DEF IInv, LinkInv

LEMMA ConnectStep ==
  ASSUME IInv, NEW m, NEW n, <<m, n>> \in Pairs, Connect(m, n)
  PROVE  IInv'
<1>1. m \in Node /\ n \in Node /\ m # n /\ <<n, m>> \in Pairs
  BY PairFacts
<1>2. <<m, n>> \notin handshaken /\ <<n, m>> \notin handshaken
  BY DEF Connect, IsOpen
<1>3. UNCHANGED <<bc, now, handshaken>> /\ handshaken \subseteq Pairs
  BY DEF Connect, IInv, SoundInv
<1>4. /\ DOMAIN queue' = Pairs
      /\ \A p \in Pairs : queue'[p] = IF p \in {<<m, n>>, <<n, m>>}
                                      THEN <<Hello>> ELSE queue[p]
  BY <1>1 DEF Connect, IInv, SoundInv
<1> DEFINE s == <<Hello>>
<1>5. /\ s = <<>> \/ s = <<Hello>>
      /\ \A p \in Pairs \cap {<<m, n>>, <<n, m>>} : queue'[p] = s
  BY <1>4
<1>6. \A p \in Pairs \ {<<m, n>>, <<n, m>>} :
        queue'[p] = queue[p] /\ (p \in handshaken' <=> p \in handshaken)
  BY <1>3, <1>4
<1> HIDE DEF s
<1> QED
  BY <1>1, <1>2, <1>3, <1>4, <1>5, <1>6, LinkReset

LEMMA DisconnectStep ==
  ASSUME IInv, NEW m, NEW n, <<m, n>> \in Pairs, Disconnect(m, n)
  PROVE  IInv'
<1>1. m \in Node /\ n \in Node /\ m # n /\ <<n, m>> \in Pairs
  BY PairFacts
<1>2. UNCHANGED <<bc, now>>
  BY DEF Disconnect
<1>3. /\ handshaken' = handshaken \ {<<m, n>>, <<n, m>>}
      /\ handshaken \subseteq Pairs
  BY DEF Disconnect, IInv, SoundInv
<1>4. /\ DOMAIN queue' = Pairs
      /\ \A p \in Pairs : queue'[p] = IF p \in {<<m, n>>, <<n, m>>}
                                      THEN <<>> ELSE queue[p]
  BY <1>1 DEF Disconnect, IInv, SoundInv
<1> DEFINE s == <<>>
<1>5. /\ s = <<>> \/ s = <<Hello>>
      /\ \A p \in Pairs \cap {<<m, n>>, <<n, m>>} : queue'[p] = s
  BY <1>4
<1>6. \A p \in Pairs \ {<<m, n>>, <<n, m>>} :
        queue'[p] = queue[p] /\ (p \in handshaken' <=> p \in handshaken)
  BY <1>3, <1>4
<1>7. /\ handshaken' \subseteq Pairs
      /\ <<m, n>> \notin handshaken' /\ <<n, m>> \notin handshaken'
  BY <1>3
<1> HIDE DEF s
<1> QED
  BY <1>1, <1>2, <1>4, <1>5, <1>6, <1>7, LinkReset

-----------------------------------------------------------------------------
(* The theorems                                                            *)

LEMMA InitStep ==
  ASSUME Init
  PROVE  IInv
<1>1. /\ DOMAIN bc = Node /\ \A n \in Node : bc[n] = NewBlockchain
      /\ DOMAIN queue = Pairs /\ \A p \in Pairs : queue[p] = <<>>
      /\ handshaken = Pairs \/ handshaken = {}
      /\ now \in Nat
  BY DEF Init
<1>2. \A n \in Node : Clock(n) \in Nat
  BY <1>1, ClockType
<1>3. IsSeq(<<>>) /\ Range(<<>>) = {}
  <2>1. <<>> \in Seq({})
    OBVIOUS
  <2>2. IsSeq(<<>>)
    BY <2>1, SeqIsSeq
  <2>3. Range(<<>>) = {}
    BY DEF Range
  <2> QED
    BY <2>2, <2>3
<1>4. \A n \in Node : ObjectOK(NewBlockchain, Clock(n))
  BY <1>2, NewBlockchainOK
<1>5. \A n \in Node : Servable(NewBlockchain.chain)
  BY <1>4 DEF Servable, ObjectOK, UnprunedOK, Applied
<1>6. SoundInv
  BY <1>1, <1>3, <1>4, <1>5 DEF SoundInv
<1>7. LinkInv
  <2> SUFFICES ASSUME NEW p \in Pairs
               PROVE  LinkOK(p[1], p[2])
    BY DEF LinkInv
  <2>1. p = <<p[1], p[2]>> /\ <<p[2], p[1]>> \in Pairs
    BY PairFacts
  <2> QED
    BY <1>1, <2>1 DEF LinkOK
<1>8. LeaderInv
  <2> SUFFICES ASSUME NEW o \in Node
               PROVE  Ahead(o) /\ \A n \in Node \ {o} : Told(o, n)
    BY DEF LeaderInv
  <2>1. \A n \in Node : Height(n) = Len(NewBlockchain.chain)
    BY <1>1 DEF Height
  <2>2. Len(NewBlockchain.chain) \in Nat
    BY <1>4, LatestIndex DEF ObjectOK, UnprunedOK
  <2>3. \A m, n \in Node : Height(m) <= Height(n) /\ Height(m) >= Height(n)
    BY <2>1, <2>2
  <2> QED
    BY <1>1, <1>3, <2>3 DEF Ahead, Told
<1> QED
  BY <1>6, <1>7, <1>8 DEF IInv

LEMMA NextStep ==
  ASSUME IInv, ClocksClose, [Next]_vars
  PROVE  IInv'
<1>1. CASE Tick
  BY <1>1, TickStep
<1>2. ASSUME NEW s \in ClientInput, SubmitTransaction(s[1], s[2])
      PROVE  IInv'
  <2>1. s[1] \in Node
    BY NetworkAssumption
  <2> QED
    BY <1>2, <2>1, SubmitStep
<1>3. ASSUME NEW n \in Node, Propose(n)
      PROVE  IInv'
  BY <1>3, ProposeStep
<1>4. ASSUME NEW p \in Pairs, Connect(p[1], p[2])
      PROVE  IInv'
  <2>1. <<p[1], p[2]>> \in Pairs
    BY PairFacts
  <2> QED
    BY <1>4, <2>1, ConnectStep
<1>5. ASSUME NEW p \in Pairs, Disconnect(p[1], p[2])
      PROVE  IInv'
  <2>1. <<p[1], p[2]>> \in Pairs
    BY PairFacts
  <2> QED
    BY <1>5, <2>1, DisconnectStep
<1>6. ASSUME NEW p \in Pairs, Deliver(p[1], p[2])
      PROVE  IInv'
  <2>1. <<p[1], p[2]>> \in Pairs
    BY PairFacts
  <2>2. CASE HandleHello(p[1], p[2])
    BY <2>1, <2>2, HelloStep
  <2>3. CASE HandleChainRequest(p[1], p[2])
    BY <2>1, <2>3, ChainRequestStep
  <2>4. CASE HandleChainResponse(p[1], p[2])
    BY <2>1, <2>4, ChainResponseStep
  <2>5. CASE HandleNewBlock(p[1], p[2])
    BY <2>1, <2>5, NewBlockStep
  <2>6. CASE HandleNewTransaction(p[1], p[2])
    BY <2>1, <2>6, NewTransactionStep
  <2> QED
    BY <1>6, <2>2, <2>3, <2>4, <2>5, <2>6 DEF Deliver
<1>7. CASE UNCHANGED vars
  <2>1. UNCHANGED <<bc, queue, handshaken, now>>
    BY <1>7 DEF vars
  <2>2. \A k : Clock(k)' = Clock(k)
    BY <2>1 DEF Clock
  <2>3. \A c : Servable(c)' <=> Servable(c)
    BY <2>2 DEF Servable
  <2>4. \A msg : MessageOK(msg)' <=> MessageOK(msg)
    BY <2>2, <2>3 DEF MessageOK, InTime
  <2>5. \A n \in Node : ObjectOK(bc[n], Clock(n)') /\ Servable(bc[n].chain)'
    <3> SUFFICES ASSUME NEW n \in Node
                 PROVE  ObjectOK(bc[n], Clock(n)') /\ Servable(bc[n].chain)'
      OBVIOUS
    <3>1. ObjectOK(bc[n], Clock(n)) /\ Servable(bc[n].chain)
      BY DEF IInv, SoundInv
    <3> QED
      BY <2>1, <2>2, <3>1 DEF Servable
  <2>6. SoundInv'
    BY <2>1, <2>4, <2>5 DEF IInv, SoundInv
  <2>7. LinkInv' /\ LeaderInv'
    BY <2>1 DEF IInv, LinkInv, LinkOK, LeaderInv, Ahead, Told, Height
  <2> QED
    BY <2>6, <2>7 DEF IInv
<1> QED
  BY <1>1, <1>2, <1>3, <1>4, <1>5, <1>6, <1>7 DEF Next

\* A node that is behind when nothing is in flight would have to be told.
LEMMA QuietMeansAgreed ==
  ASSUME IInv, IsFullMesh
  PROVE  QuietAgreement
<1> SUFFICES ASSUME Quiet, NEW m \in Node, NEW n \in Node
             PROVE  Height(m) = Height(n)
  BY DEF QuietAgreement
<1>1. PICK o \in Node : Ahead(o) /\ \A k \in Node \ {o} : Told(o, k)
  BY DEF IInv, LeaderInv
<1>2. ASSUME NEW k \in Node
      PROVE  Height(k) = Height(o)
  <2>1. Height(k) \in Nat /\ Height(o) \in Nat /\ Height(k) <= Height(o)
    BY <1>1, OwnChain DEF Ahead
  <2>2. CASE k # o
    <3>1. <<k, o>> \in Pairs /\ <<o, k>> \in Pairs
      BY <2>2, PairFacts
    <3>2. /\ <<k, o>> \in handshaken
          /\ queue[<<k, o>>] = <<>> /\ queue[<<o, k>>] = <<>>
      BY <3>1 DEF Quiet
    <3>3. Range(<<>>) = {}
      BY DEF Range
    <3>4. Told(o, k)
      BY <1>1, <2>2
    <3> QED
      BY <2>1, <3>2, <3>3, <3>4 DEF Told
  <2> QED
    BY <2>2
<1> QED
  BY <1>2

LEMMA Invariant ==
  ASSUME ClocksClose
  PROVE  Spec => []IInv
<1>1. Init => IInv
  BY InitStep
<1>2. IInv /\ [Next]_vars => IInv'
  BY NextStep
<1> QED
  BY <1>1, <1>2, PTL DEF Spec

\* As long as the clocks differ by no more than the drift, every node's object
\* is sound, every node's chain is one that every other node would accept now
\* if it is the longer one (CHAIN_RESPONSE is never refused for what is in
\* it), and so is every chain and every block in flight: in any topology.
THEOREM ChainsAreServable ==
  ASSUME ClocksClose
  PROVE  Spec => []SoundInv
<1>1. IInv => SoundInv
  BY DEF IInv
<1> QED
  BY <1>1, Invariant, PTL

\* Once the gossip of a full mesh has drained, nobody is behind: for any
\* number of nodes, any traffic, connections that break and come back in the
\* middle of a handshake, and clocks that differ by no more than the drift.
THEOREM QuietNodesAgree ==
  ASSUME IsFullMesh, ClocksClose
  PROVE  Spec => []QuietAgreement
<1>1. IInv => QuietAgreement
  BY QuietMeansAgreed
<1> QED
  BY <1>1, Invariant, PTL

=============================================================================
