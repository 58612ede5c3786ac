--------------------------- MODULE PeeringProofs ---------------------------
(***************************************************************************)
(* Proofs about Peering: what a node hands out to its peers is always      *)
(* reachable, of its own network and not failing, its table stays within   *)
(* its limit and keeps its bootnodes, and it never means to keep two       *)
(* connections to the same process; for any number of nodes, addresses,    *)
(* connections, faults and restarts.                                       *)
(*                                                                         *)
(* The tables and the connections are looked at separately: a handler does *)
(* to a table what one PeerTable method does, and to the two ends of a     *)
(* connection one of a handful of things.  They meet in the handshake: an  *)
(* address is verified on the word of a HELLO, which is what the invariant *)
(* about the connections says of a HELLO that is on its way.               *)
(*                                                                         *)
(* The second half shows that two nodes which have dialled each other      *)
(* close the same connection, with an invariant of its own: whatever is    *)
(* closed on purpose while its other end is there was dialled by the node  *)
(* with the greater identifier, or connects nodes that do not fit.         *)
(***************************************************************************)
EXTENDS Peering, FiniteSetTheorems, TLAPS

-----------------------------------------------------------------------------
(* The inductive invariant: tables                                         *)

\* Somebody else of the node's own network answers there.
Useful(n, a) ==
  /\ ListensAt[a] \in Node \ {n}
  /\ Genesis[ListensAt[a]] = Genesis[n]

Entry == [seen : BOOLEAN, failures : Nat]

\* A sound table of n.  An address that is only failing now is still useful:
\* a restart forgets the failures.
TableOK(n, t) ==
  LET known == DOMAIN t.entries
      boot  == Normalized(Bootnodes[n])
  IN  /\ DOMAIN t = {"entries", "blocked"}
      /\ t.entries \in [known -> Entry]
      /\ known \subseteq Address /\ IsFiniteSet(known)
      /\ Cardinality(known) <= MaxSize \/ known \subseteq boot
      /\ boot \subseteq known \cup t.blocked
      /\ known \cap t.blocked = {}
      /\ \A a \in known : t.entries[a].seen => Useful(n, a)

TableInv ==
  /\ DOMAIN table = Node /\ DOMAIN backoff = Node /\ DOMAIN failing = Node
  /\ \A n \in Node : /\ TableOK(n, table[n])
                     /\ backoff[n] \subseteq Address
                     /\ Verified(table[n]) \cap failing[n] = {}

\* Identifiers are used once.
IdInv ==
  /\ id \in [Node -> NodeIds]
  /\ spare \subseteq NodeIds
  /\ \A n \in Node : id[n] \notin spare

-----------------------------------------------------------------------------
(* The inductive invariant: connections                                    *)

EndType ==
  [ st            : {"none", "connecting", "open", "closing"},
    peer          : NodeIds \cup {NoId},
    expectedClose : BOOLEAN,
    hello         : NodeIds \cup {NoId} ]

\* An end of c.  Somebody listens where a connection was opened, and whoever
\* dials itself is about to read its own identifier.
EndOK(c, e, end, ids) ==
  /\ end \in EndType
  /\ end.st \in {"none", "connecting"} => end = End(end.st, NoId)
  /\ end.st \in {"open", "closing"} => ListensAt[c[2]] \in Node
  /\ e = "out" /\ ListensAt[c[2]] = c[1] => end.hello \in {NoId, ids[c[1]]}

ConnShape(cs) ==
  /\ DOMAIN cs = Connection
  /\ \A c \in Connection : DOMAIN cs[c] = {"out", "in", "up"}

ConnInv ==
  /\ ConnShape(conn)
  /\ \A c \in Connection, e \in Ends : EndOK(c, e, conn[c][e], id)

IInv == TableInv /\ IdInv /\ ConnInv /\ OneSocketPerPeer

-----------------------------------------------------------------------------
(* The methods of the peer table                                           *)

\* add takes in nothing blocked, and only what there is room for.
LEMMA AddablesFit ==
  ASSUME NEW t, IsFiniteSet(DOMAIN t.entries), NEW as, IsFiniteSet(as),
         NEW more \in Addables(t, as)
  PROVE  LET known == DOMAIN t.entries
         IN  /\ more \subseteq as
             /\ more \cap (t.blocked \cup known) = {}
             /\ IsFiniteSet(known \cup more)
             /\ more = {} \/ Cardinality(known \cup more) <= MaxSize
<1> DEFINE known == DOMAIN t.entries
           new   == as \ (t.blocked \cup known)
           size  == Cardinality(known)
           room  == IF size < MaxSize THEN MaxSize - size ELSE 0
<1>1. IsFiniteSet(new)
  BY FS_Subset
<1>2. /\ size \in Nat /\ Cardinality(new) \in Nat /\ MaxSize \in Nat
      /\ room \in Nat
  BY <1>1, FS_CardinalityType, PeerTableAssumption
<1>3. more \in SUBSET new /\ Cardinality(more) <= room
  <2>1. CASE Cardinality(new) <= room
    BY <2>1 DEF Addables
  <2>2. CASE ~(Cardinality(new) <= room)
    <3>1. more \in {s \in SUBSET new : Cardinality(s) = room}
      BY <2>2 DEF Addables
    <3> HIDE DEF room, new
    <3> QED
      BY <1>2, <3>1
  <2> QED
    BY <2>1, <2>2
<1>4. IsFiniteSet(more) /\ Cardinality(more) \in Nat
  BY <1>1, <1>3, FS_Subset, FS_CardinalityType
<1>5. known \cap more = {}
  BY <1>3
<1> HIDE DEF new
<1>6. /\ IsFiniteSet(known \cup more)
      /\ Cardinality(known \cup more) = size + Cardinality(more)
  <2>1. /\ IsFiniteSet(known \cup more)
        /\ Cardinality(known \cup more) =
             size + Cardinality(more) - Cardinality(known \cap more)
    BY <1>4, FS_Union
  <2>2. Cardinality(known \cap more) = 0
    BY <1>5, FS_EmptySet
  <2> QED
    BY <1>2, <1>4, <2>1, <2>2
<1>7. more = {} \/ Cardinality(known \cup more) <= MaxSize
  <2> SUFFICES ASSUME more # {}
               PROVE  Cardinality(known \cup more) <= MaxSize
    OBVIOUS
  <2>1. Cardinality(more) # 0
    BY <1>4, FS_EmptySet
  <2>2. size < MaxSize
    BY <1>2, <1>3, <1>4, <2>1
  <2> HIDE DEF size
  <2> QED
    BY <1>2, <1>3, <1>4, <1>6, <2>2
<1> QED
  BY <1>3, <1>6, <1>7 DEF new

\* A table with some candidates more.
LEMMA AddOK ==
  ASSUME NEW n \in Node, NEW t, TableOK(n, t),
         NEW as \in SUBSET Address, IsFiniteSet(as), NEW more \in Addables(t, as)
  PROVE  /\ TableOK(n, Add(t, more))
         /\ Verified(Add(t, more)) = Verified(t)
<1> DEFINE known == DOMAIN t.entries
           u     == Add(t, more)
<1>1. /\ more \subseteq as /\ more \cap (t.blocked \cup known) = {}
      /\ IsFiniteSet(known \cup more)
      /\ more = {} \/ Cardinality(known \cup more) <= MaxSize
  BY AddablesFit DEF TableOK
<1>2. /\ DOMAIN u = {"entries", "blocked"} /\ u.blocked = t.blocked
      /\ u.entries = [a \in known \cup more |->
                        IF a \in known THEN t.entries[a] ELSE Candidate]
  BY DEF Add, TableOK
<1>3. t.entries \in [known -> Entry] /\ Candidate \in Entry /\ ~Candidate.seen
  BY DEF TableOK, Candidate, Entry
<1> HIDE DEF u
<1>4. /\ DOMAIN u.entries = known \cup more
      /\ \A a \in known : u.entries[a] = t.entries[a]
      /\ \A a \in more : u.entries[a] = Candidate
      /\ u.entries \in [known \cup more -> Entry]
  BY <1>1, <1>2, <1>3
<1>5. /\ known \subseteq Address
      /\ Cardinality(known) <= MaxSize \/ known \subseteq Normalized(Bootnodes[n])
      /\ Normalized(Bootnodes[n]) \subseteq known \cup t.blocked
      /\ known \cap t.blocked = {}
      /\ \A a \in known : t.entries[a].seen => Useful(n, a)
  BY DEF TableOK
<1>6. \/ Cardinality(known \cup more) <= MaxSize
      \/ known \cup more \subseteq Normalized(Bootnodes[n])
  <2>1. CASE more = {}
    <3>1. known \cup more = known
      BY <2>1
    <3> QED
      BY <1>5, <3>1
  <2> QED
    BY <1>1, <2>1
<1>7. TableOK(n, u)
  BY <1>1, <1>2, <1>3, <1>4, <1>5, <1>6 DEF TableOK
<1>8. Verified(u) = Verified(t)
  BY <1>1, <1>3, <1>4 DEF Verified
<1> QED
  BY <1>7, <1>8 DEF u

\* A table in which an address has answered.
LEMMA RecordSuccessOK ==
  ASSUME NEW n \in Node, NEW t, TableOK(n, t), NEW a, Useful(n, a)
  PROVE  /\ TableOK(n, RecordSuccess(t, a))
         /\ Verified(RecordSuccess(t, a)) \subseteq Verified(t) \cup {a}
<1> DEFINE known == DOMAIN t.entries
           u     == RecordSuccess(t, a)
           e     == [seen |-> TRUE, failures |-> 0]
<1>1. CASE a \notin known
  BY <1>1 DEF RecordSuccess
<1>2. CASE a \in known
  <2>1. t.entries \in [known -> Entry] /\ e \in Entry
    BY DEF TableOK, Entry
  <2>2. /\ DOMAIN u = {"entries", "blocked"} /\ u.blocked = t.blocked
        /\ u.entries = [t.entries EXCEPT ![a] = e]
    BY <1>2 DEF RecordSuccess, TableOK
  <2> HIDE DEF u, e
  <2>3. /\ DOMAIN u.entries = known /\ u.entries \in [known -> Entry]
        /\ \A b \in known : u.entries[b] = IF b = a THEN e ELSE t.entries[b]
    BY <1>2, <2>1, <2>2
  <2>4. TableOK(n, u)
    BY <2>2, <2>3 DEF TableOK
  <2>5. Verified(u) \subseteq Verified(t) \cup {a}
    BY <2>3 DEF Verified
  <2> QED
    BY <2>4, <2>5 DEF u
<1> QED
  BY <1>1, <1>2

\* A table without one address, that is blocked or not a bootnode.
LEMMA WithoutOK ==
  ASSUME NEW n \in Node, NEW t, TableOK(n, t), NEW a
  PROVE  LET known == DOMAIN t.entries
             u     == Without(t, a)
         IN  /\ DOMAIN u = {"entries", "blocked"} /\ u.blocked = t.blocked
             /\ DOMAIN u.entries = known \ {a}
             /\ \A b \in known \ {a} : u.entries[b] = t.entries[b]
             /\ u.entries \in [known \ {a} -> Entry]
             /\ known \ {a} \subseteq Address /\ IsFiniteSet(known \ {a})
             /\ \/ Cardinality(known \ {a}) <= MaxSize
                \/ known \ {a} \subseteq Normalized(Bootnodes[n])
             /\ \A b \in known \ {a} : u.entries[b].seen => Useful(n, b)
<1> DEFINE known == DOMAIN t.entries
           u     == Without(t, a)
           left  == known \ {a}
<1>1. /\ t.entries \in [known -> Entry]
      /\ known \subseteq Address /\ IsFiniteSet(known)
      /\ Cardinality(known) <= MaxSize \/ known \subseteq Normalized(Bootnodes[n])
      /\ \A b \in known : t.entries[b].seen => Useful(n, b)
      /\ DOMAIN t = {"entries", "blocked"}
  BY DEF TableOK
<1>2. /\ DOMAIN u = {"entries", "blocked"} /\ u.blocked = t.blocked
      /\ u.entries = [b \in left |-> t.entries[b]]
  BY <1>1 DEF Without, Restrict
<1> HIDE DEF u
<1>3. /\ DOMAIN u.entries = left
      /\ \A b \in left : u.entries[b] = t.entries[b]
  BY <1>2
<1>4. u.entries \in [left -> Entry]
  BY <1>1, <1>2
<1>5. IsFiniteSet(left) /\ Cardinality(left) <= Cardinality(known)
  BY <1>1, FS_Subset
<1>6. /\ Cardinality(left) \in Nat /\ Cardinality(known) \in Nat
      /\ MaxSize \in Nat
  BY <1>1, <1>5, FS_CardinalityType, PeerTableAssumption
<1>7. \/ Cardinality(left) <= MaxSize
      \/ left \subseteq Normalized(Bootnodes[n])
  BY <1>1, <1>5, <1>6
<1> QED
  BY <1>1, <1>2, <1>3, <1>4, <1>5, <1>7 DEF u

\* A table in which a dial has failed: the address is not handed out.
LEMMA RecordFailureOK ==
  ASSUME NEW n \in Node, NEW t, TableOK(n, t), NEW a
  PROVE  LET u == RecordFailure(t, a, Normalized(Bootnodes[n]))
         IN  TableOK(n, u) /\ Verified(u) \subseteq Verified(t) \ {a}
<1> DEFINE known == DOMAIN t.entries
           boot  == Normalized(Bootnodes[n])
           u     == RecordFailure(t, a, boot)
           count == t.entries[a].failures + 1
           top   == IF count > MaxFailures THEN MaxFailures ELSE count
<1>1. CASE a \notin known
  BY <1>1 DEF RecordFailure, Verified
<1>2. CASE a \in known /\ count >= MaxFailures /\ a \notin boot
  <2>1. u = Without(t, a)
    BY <1>2 DEF RecordFailure
  <2> HIDE DEF u
  <2>2. /\ DOMAIN u = {"entries", "blocked"} /\ u.blocked = t.blocked
        /\ DOMAIN u.entries = known \ {a}
        /\ \A b \in known \ {a} : u.entries[b] = t.entries[b]
        /\ u.entries \in [known \ {a} -> Entry]
        /\ known \ {a} \subseteq Address /\ IsFiniteSet(known \ {a})
        /\ \/ Cardinality(known \ {a}) <= MaxSize
           \/ known \ {a} \subseteq boot
        /\ \A b \in known \ {a} : u.entries[b].seen => Useful(n, b)
    BY <2>1, WithoutOK
  <2>3. boot \subseteq (known \ {a}) \cup t.blocked /\ (known \ {a}) \cap t.blocked = {}
    BY <1>2 DEF TableOK
  <2>4. TableOK(n, u)
    BY <2>2, <2>3 DEF TableOK
  <2>5. Verified(u) \subseteq Verified(t) \ {a}
    BY <2>2 DEF Verified
  <2> QED
    BY <2>4, <2>5 DEF u
<1>3. CASE a \in known /\ ~(count >= MaxFailures /\ a \notin boot)
  <2>1. t.entries \in [known -> Entry] /\ t.entries[a] \in Entry
    BY <1>3 DEF TableOK
  <2>2. top \in Nat /\ top # 0
    BY <2>1, PeerTableAssumption DEF Entry
  <2>3. /\ DOMAIN u = {"entries", "blocked"} /\ u.blocked = t.blocked
        /\ u.entries = [t.entries EXCEPT ![a].failures = top]
    BY <1>3 DEF RecordFailure, TableOK
  <2> HIDE DEF u, top
  <2>4. /\ DOMAIN u.entries = known
        /\ \A b \in known : b # a => u.entries[b] = t.entries[b]
        /\ u.entries[a] = [t.entries[a] EXCEPT !.failures = top]
    BY <1>3, <2>1, <2>3
  <2>5. /\ u.entries[a] \in Entry /\ u.entries[a].failures = top
        /\ u.entries[a].seen = t.entries[a].seen
    BY <2>1, <2>2, <2>4 DEF Entry
  <2>6. u.entries \in [known -> Entry]
    <3>1. \A b \in known : u.entries[b] \in Entry
      BY <2>1, <2>4, <2>5
    <3>2. u.entries = [b \in known |-> u.entries[b]]
      BY <2>1, <2>3
    <3> QED
      BY <3>1, <3>2
  <2>7. TableOK(n, u)
    <3>1. \A b \in known : u.entries[b].seen => Useful(n, b)
      BY <2>4, <2>5 DEF TableOK
    <3> QED
      BY <2>3, <2>4, <2>6, <3>1 DEF TableOK
  <2>8. Verified(u) \subseteq Verified(t) \ {a}
    BY <2>2, <2>4, <2>5 DEF Verified
  <2> QED
    BY <2>7, <2>8 DEF u
<1> QED
  BY <1>1, <1>2, <1>3

\* A table in which an address was blocked.
LEMMA BlockOK ==
  ASSUME NEW n \in Node, NEW t, TableOK(n, t), NEW a
  PROVE  TableOK(n, Block(t, a)) /\ Verified(Block(t, a)) \subseteq Verified(t)
<1> DEFINE known == DOMAIN t.entries
           boot  == Normalized(Bootnodes[n])
           w     == Without(t, a)
           u     == Block(t, a)
<1>1. CASE a = NoAddress
  BY <1>1 DEF Block
<1>2. CASE a # NoAddress
  <2>1. /\ DOMAIN w = {"entries", "blocked"} /\ w.blocked = t.blocked
        /\ DOMAIN w.entries = known \ {a}
        /\ \A b \in known \ {a} : w.entries[b] = t.entries[b]
        /\ w.entries \in [known \ {a} -> Entry]
        /\ known \ {a} \subseteq Address /\ IsFiniteSet(known \ {a})
        /\ \/ Cardinality(known \ {a}) <= MaxSize
           \/ known \ {a} \subseteq boot
        /\ \A b \in known \ {a} : w.entries[b].seen => Useful(n, b)
    BY WithoutOK
  <2>2. u = [w EXCEPT !.blocked = @ \cup {a}]
    BY <1>2 DEF Block
  <2> HIDE DEF u, w
  <2>3. /\ DOMAIN u = {"entries", "blocked"} /\ u.blocked = t.blocked \cup {a}
        /\ u.entries = w.entries
    BY <2>1, <2>2
  <2>4. /\ boot \subseteq (known \ {a}) \cup (t.blocked \cup {a})
        /\ (known \ {a}) \cap (t.blocked \cup {a}) = {}
    BY DEF TableOK
  <2>5. TableOK(n, u)
    BY <2>1, <2>3, <2>4 DEF TableOK
  <2>6. Verified(u) \subseteq Verified(t)
    BY <2>1, <2>3 DEF Verified
  <2> QED
    BY <2>5, <2>6 DEF u
<1> QED
  BY <1>1, <1>2

\* A file that was written from a sound table gives a sound one back.
LEMMA FreshOK ==
  ASSUME NEW n \in Node, NEW saved, IsFiniteSet(DOMAIN saved),
         DOMAIN saved \subseteq Address,
         \A a \in DOMAIN saved : /\ saved[a] \in BOOLEAN
                                 /\ saved[a] => Useful(n, a),
         NEW u \in FreshTables(n, saved)
  PROVE  TableOK(n, u)
<1> DEFINE known == Normalized(Bootnodes[n])
           boot  == [entries |-> [a \in known |->
                       [seen |-> a \in DOMAIN saved /\ saved[a], failures |-> 0]],
                     blocked |-> {}]
<1>1. PICK t \in NewTables(known, saved) : u = Block(t, OwnAddress(n))
  BY DEF FreshTables
<1>2. PICK more \in Addables(boot, DOMAIN saved) :
        t = [boot EXCEPT !.entries = [a \in DOMAIN @ \cup more |->
               IF a \in DOMAIN @ THEN @[a]
               ELSE [seen |-> saved[a], failures |-> 0]]]
  BY DEF NewTables
<1>3. IsFiniteSet(known) /\ known \subseteq Address
  BY PeeringAssumption
<1>4. /\ DOMAIN boot.entries = known /\ boot.blocked = {}
      /\ DOMAIN boot = {"entries", "blocked"}
      /\ \A a \in known : boot.entries[a] =
           [seen |-> a \in DOMAIN saved /\ saved[a], failures |-> 0]
  OBVIOUS
<1> HIDE DEF boot, known
<1>5. /\ more \subseteq DOMAIN saved
      /\ IsFiniteSet(known \cup more)
      /\ more = {} \/ Cardinality(known \cup more) <= MaxSize
  BY <1>3, <1>4, AddablesFit
<1>6. /\ DOMAIN t = {"entries", "blocked"} /\ t.blocked = {}
      /\ t.entries = [a \in known \cup more |->
           IF a \in known THEN boot.entries[a]
           ELSE [seen |-> saved[a], failures |-> 0]]
  BY <1>2, <1>4
<1>7. \A a \in known \cup more :
        t.entries[a] = [seen     |-> a \in DOMAIN saved /\ saved[a],
                        failures |-> 0]
  <2> SUFFICES ASSUME NEW a \in known \cup more
               PROVE  t.entries[a] = [seen     |-> a \in DOMAIN saved /\ saved[a],
                                      failures |-> 0]
    OBVIOUS
  <2>1. CASE a \in known
    BY <1>4, <1>6, <2>1
  <2>2. CASE a \notin known
    <3>1. a \in DOMAIN saved /\ saved[a] \in BOOLEAN
      BY <1>5, <2>2
    <3>2. t.entries[a] = [seen |-> saved[a], failures |-> 0]
      BY <1>6, <2>2
    <3>3. saved[a] = (a \in DOMAIN saved /\ saved[a])
      BY <3>1
    <3> QED
      BY <3>2, <3>3
  <2> QED
    BY <2>1, <2>2
<1>8. /\ t.entries \in [known \cup more -> Entry]
      /\ \A a \in known \cup more : t.entries[a].seen => Useful(n, a)
  <2>1. ASSUME NEW a \in known \cup more
        PROVE  t.entries[a] \in Entry /\ (t.entries[a].seen => Useful(n, a))
    <3> DEFINE flag == a \in DOMAIN saved /\ saved[a]
    <3>1. flag \in BOOLEAN /\ (flag => Useful(n, a))
      OBVIOUS
    <3>2. t.entries[a] = [seen |-> flag, failures |-> 0]
      BY <1>7
    <3> HIDE DEF flag
    <3> QED
      BY <3>1, <3>2 DEF Entry
  <2>2. t.entries = [a \in known \cup more |-> t.entries[a]]
    BY <1>6
  <2> QED
    BY <2>1, <2>2
<1>9. Cardinality(known \cup more) <= MaxSize \/ known \cup more \subseteq known
  BY <1>5
<1>10. DOMAIN t.entries = known \cup more
  BY <1>6
<1>11. TableOK(n, t)
  BY <1>3, <1>5, <1>6, <1>8, <1>9, <1>10 DEF TableOK, known
<1> QED
  BY <1>1, <1>11, BlockOK

-----------------------------------------------------------------------------
(* The ends of connections                                                 *)

\* What happens to an end in most steps: nothing, it is gone or terminated,
\* the HELLO on its way to it is lost, or a connection is dialled anew.
Fades(old, new) ==
  \/ new = old
  \/ new = NoEnd
  \/ old = NoEnd /\ new = End("connecting", NoId)
  \/ old.st \in {"open", "closing"} /\ new = Terminated(old)
  \/ old.st \in {"open", "closing"} /\ new = ClosedOnPurpose(old)
  \/ old.st \in {"open", "closing"} /\ new = [old EXCEPT !.hello = NoId]

\* An end that fades is sound, and keeps its peer and its purpose, if any.
LEMMA FadesOK ==
  ASSUME NEW c, NEW e, NEW old, NEW ids, EndOK(c, e, old, ids),
         NEW new, Fades(old, new)
  PROVE  /\ EndOK(c, e, new, ids)
         /\ new.peer # NoId => /\ new.peer = old.peer
                               /\ old.expectedClose => new.expectedClose
<1>1. CASE new = old
  BY <1>1
<1>2. CASE new = NoEnd
  BY <1>2 DEF EndOK, EndType, NoEnd, End
<1>3. CASE new = End("connecting", NoId)
  BY <1>3 DEF EndOK, EndType, End
<1>4. CASE old.st \in {"open", "closing"} /\ new = Terminated(old)
  BY <1>4 DEF EndOK, EndType, Terminated
<1>5. CASE old.st \in {"open", "closing"} /\ new = ClosedOnPurpose(old)
  BY <1>5 DEF EndOK, EndType, Terminated, ClosedOnPurpose
<1>6. CASE old.st \in {"open", "closing"} /\ new = [old EXCEPT !.hello = NoId]
  BY <1>6 DEF EndOK, EndType
<1> QED
  BY <1>1, <1>2, <1>3, <1>4, <1>5, <1>6 DEF Fades

\* If all ends keep their peers and purposes, no two sockets to one peer arise.
LEMMA NoNewPeers ==
  ASSUME OneSocketPerPeer,
         \A c \in Connection, e \in Ends :
           conn'[c][e].peer # NoId =>
             /\ conn'[c][e].peer = conn[c][e].peer
             /\ conn[c][e].expectedClose => conn'[c][e].expectedClose
  PROVE  OneSocketPerPeer'
<1> SUFFICES ASSUME NEW x \in Connection \X Ends, NEW y \in Connection \X Ends,
                    conn'[x[1]][x[2]].peer # NoId, conn'[y[1]][y[2]].peer # NoId,
                    x # y, Owner(x[1], x[2]) = Owner(y[1], y[2]),
                    conn'[x[1]][x[2]].peer = conn'[y[1]][y[2]].peer
             PROVE  \/ conn'[x[1]][x[2]].expectedClose
                    \/ conn'[y[1]][y[2]].expectedClose
  BY DEF OneSocketPerPeer, Handshaken, IsHandshaken, Owner
<1>1. /\ conn'[x[1]][x[2]].peer = conn[x[1]][x[2]].peer
      /\ conn[x[1]][x[2]].expectedClose => conn'[x[1]][x[2]].expectedClose
      /\ conn'[y[1]][y[2]].peer = conn[y[1]][y[2]].peer
      /\ conn[y[1]][y[2]].expectedClose => conn'[y[1]][y[2]].expectedClose
  OBVIOUS
<1>2. x \in Handshaken /\ y \in Handshaken
  BY <1>1 DEF Handshaken, IsHandshaken
<1>3. conn[x[1]][x[2]].expectedClose \/ conn[y[1]][y[2]].expectedClose
  BY <1>1, <1>2 DEF OneSocketPerPeer
<1> QED
  BY <1>1, <1>3

\* A step in which ends only fade keeps what is known of connections.
LEMMA FadingStep ==
  ASSUME ConnInv, OneSocketPerPeer, UNCHANGED id, ConnShape(conn'),
         \A c \in Connection, e \in Ends : Fades(conn[c][e], conn'[c][e])
  PROVE  ConnInv' /\ OneSocketPerPeer'
<1>1. ASSUME NEW c \in Connection, NEW e \in Ends
      PROVE  /\ EndOK(c, e, conn'[c][e], id)
             /\ conn'[c][e].peer # NoId =>
                  /\ conn'[c][e].peer = conn[c][e].peer
                  /\ conn[c][e].expectedClose => conn'[c][e].expectedClose
  <2>1. EndOK(c, e, conn[c][e], id) /\ Fades(conn[c][e], conn'[c][e])
    BY DEF ConnInv
  <2> QED
    BY <2>1, FadesOK
<1>2. OneSocketPerPeer'
  BY <1>1, NoNewPeers
<1>3. ConnInv'
  BY <1>1 DEF ConnInv, ConnShape
<1> QED
  BY <1>2, <1>3

\* maintainConnections only uses names of connections that are free.
LEMMA MaintainFades ==
  ASSUME NEW cs, ConnShape(cs), NEW n, NEW t, NEW w
  PROVE  LET ds == MaintainConnections(cs, n, t, w)
         IN  /\ ConnShape(ds)
             /\ \A c \in Connection, e \in Ends :
                  \/ ds[c][e] = cs[c][e]
                  \/ cs[c][e] = NoEnd /\ ds[c][e] = End("connecting", NoId)
<1> DEFINE ds == MaintainConnections(cs, n, t, w)
           dialled == [NoConnection EXCEPT !.out = End("connecting", NoId)]
<1>1. /\ DOMAIN ds = Connection
      /\ \A c \in Connection :
           \/ ds[c] = cs[c]
           \/ cs[c] = NoConnection /\ ds[c] = dialled
  <2>1. ASSUME NEW c \in Connection
        PROVE  ds[c] = cs[c] \/ (cs[c] = NoConnection /\ ds[c] = dialled)
    <3>1. c = <<c[1], c[2], c[3]>>
      BY DEF Connection
    <3> QED
      BY <3>1 DEF MaintainConnections
  <2> QED
    BY <2>1 DEF MaintainConnections
<1>2. /\ DOMAIN dialled = {"out", "in", "up"}
      /\ dialled["out"] = End("connecting", NoId)
      /\ dialled["in"] = NoEnd
      /\ NoConnection["out"] = NoEnd /\ NoConnection["in"] = NoEnd
  BY DEF NoConnection
<1> HIDE DEF ds, dialled
<1>3. ConnShape(ds)
  BY <1>1, <1>2 DEF ConnShape
<1>4. ASSUME NEW c \in Connection, NEW e \in Ends
      PROVE  \/ ds[c][e] = cs[c][e]
             \/ cs[c][e] = NoEnd /\ ds[c][e] = End("connecting", NoId)
  BY <1>1, <1>2 DEF Ends
<1> QED
  BY <1>3, <1>4 DEF ds

\* The 'close' event of an end.
LEMMA GoneFades ==
  ASSUME ConnInv, NEW c \in Connection, NEW e \in Ends
  PROVE  LET ds == Gone(conn, c, e)
         IN  /\ ConnShape(ds)
             /\ \A d \in Connection, f \in Ends :
                  ds[d][f] = conn[d][f] \/ ds[d][f] = NoEnd
<1> DEFINE ds == Gone(conn, c, e)
           new == IF conn[c][Other(e)].st = "none" THEN NoConnection
                  ELSE [conn[c] EXCEPT ![e] = NoEnd]
<1>1. DOMAIN conn = Connection /\ \A d \in Connection : DOMAIN conn[d] = {"out", "in", "up"}
  BY DEF ConnInv, ConnShape
<1>2. /\ DOMAIN ds = Connection
      /\ \A d \in Connection : ds[d] = IF d = c THEN new ELSE conn[d]
  BY <1>1 DEF Gone
<1>3. /\ DOMAIN new = {"out", "in", "up"}
      /\ \A f \in Ends : new[f] = conn[c][f] \/ new[f] = NoEnd
  BY <1>1 DEF NoConnection, Ends
<1> HIDE DEF ds, new
<1>4. ConnShape(ds)
  BY <1>1, <1>2, <1>3 DEF ConnShape
<1>5. \A d \in Connection, f \in Ends : ds[d][f] = conn[d][f] \/ ds[d][f] = NoEnd
  BY <1>2, <1>3
<1> QED
  BY <1>4, <1>5 DEF ds

-----------------------------------------------------------------------------
(* Steps                                                                   *)

\* What one node knows changes to t, w and fl; the others' stays.
Knows(n, t, w, fl) ==
  /\ DOMAIN table' = Node /\ DOMAIN backoff' = Node /\ DOMAIN failing' = Node
  /\ \A k \in Node : /\ table'[k] = IF k = n THEN t ELSE table[k]
                     /\ backoff'[k] = IF k = n THEN w ELSE backoff[k]
                     /\ failing'[k] = IF k = n THEN fl ELSE failing[k]

LEMMA TableStep ==
  ASSUME TableInv, NEW n \in Node, NEW t, NEW w, NEW fl, Knows(n, t, w, fl),
         TableOK(n, t), w \subseteq Address, Verified(t) \cap fl = {}
  PROVE  TableInv'
<1>1. /\ DOMAIN table' = Node /\ DOMAIN backoff' = Node /\ DOMAIN failing' = Node
      /\ \A k \in Node : /\ table'[k] = IF k = n THEN t ELSE table[k]
                         /\ backoff'[k] = IF k = n THEN w ELSE backoff[k]
                         /\ failing'[k] = IF k = n THEN fl ELSE failing[k]
  BY DEF Knows
<1>2. ASSUME NEW k \in Node
      PROVE  /\ TableOK(k, table'[k]) /\ backoff'[k] \subseteq Address
             /\ Verified(table'[k]) \cap failing'[k] = {}
  <2>1. CASE k = n
    <3>1. table'[k] = t /\ backoff'[k] = w /\ failing'[k] = fl
      BY <1>1, <2>1
    <3> QED
      BY <2>1, <3>1
  <2>2. CASE k # n
    <3>1. /\ table'[k] = table[k] /\ backoff'[k] = backoff[k]
          /\ failing'[k] = failing[k]
      BY <1>1, <2>2
    <3>2. /\ TableOK(k, table[k]) /\ backoff[k] \subseteq Address
          /\ Verified(table[k]) \cap failing[k] = {}
      BY DEF TableInv
    <3> QED
      BY <3>1, <3>2
  <2> QED
    BY <2>1, <2>2
<1> QED
  BY <1>1, <1>2 DEF TableInv

LEMMA TablesKept ==
  ASSUME TableInv, UNCHANGED <<table, backoff, failing>>
  PROVE  TableInv'
BY DEF TableInv, Verified, TableOK, Address

\* The owner of an end that is open or closing, or has a HELLO on its way.
LEMMA OwnerType ==
  ASSUME ConnInv, NEW c \in Connection, NEW e \in Ends,
         \/ conn[c][e].st \in {"open", "closing"}
         \/ conn[c][e].hello # NoId
  PROVE  /\ conn[c][e].st \in {"open", "closing"}
         /\ Owner(c, e) \in Node /\ Owner(c, Other(e)) \in Node
         /\ c[1] \in Node /\ c[2] \in Address /\ ListensAt[c[2]] \in Node
         /\ c = <<c[1], c[2], c[3]>>
         /\ AnnouncedAddress(c, e) \in Address
<1>1. EndOK(c, e, conn[c][e], id)
  BY DEF ConnInv
<1>2. conn[c][e].st \in {"open", "closing"}
  BY <1>1 DEF EndOK, EndType, End
<1>3. ListensAt[c[2]] \in Node
  BY <1>1, <1>2 DEF EndOK
<1>4. c[1] \in Node /\ c[2] \in Address /\ c = <<c[1], c[2], c[3]>>
  BY DEF Connection
<1>5. SeenAs[c[1]] \in Address
  BY <1>4, PeeringAssumption
<1> QED
  BY <1>2, <1>3, <1>4, <1>5 DEF Owner, Other, Ends, AnnouncedAddress

LEMMA MaintainStep ==
  ASSUME IInv, NEW n \in Node, Maintain(n)
  PROVE  IInv'
<1>1. /\ conn' = MaintainConnections(conn, n, table[n], backoff[n])
      /\ UNCHANGED <<table, backoff, id, spare, failing>>
  BY DEF Maintain
<1>2. /\ ConnShape(conn')
      /\ \A c \in Connection, e \in Ends : Fades(conn[c][e], conn'[c][e])
  <2>1. ConnShape(conn)
    BY DEF IInv, ConnInv
  <2> QED
    BY <1>1, <2>1, MaintainFades DEF Fades
<1>3. ConnInv' /\ OneSocketPerPeer'
  BY <1>1, <1>2, FadingStep DEF IInv
<1>4. TableInv' /\ IdInv'
  BY <1>1, TablesKept DEF IInv, IdInv
<1> QED
  BY <1>3, <1>4 DEF IInv

LEMMA BackoffOverStep ==
  ASSUME IInv, NEW n \in Node, BackoffOver(n)
  PROVE  IInv'
<1>1. PICK a \in backoff[n] : /\ backoff' = [backoff EXCEPT ![n] = @ \ {a}]
                              /\ UNCHANGED <<conn, table, id, spare, failing>>
  BY DEF BackoffOver
<1>2. Knows(n, table[n], backoff[n] \ {a}, failing[n])
  BY <1>1 DEF Knows, IInv, TableInv
<1>3. TableInv'
  <2>1. /\ TableOK(n, table[n]) /\ backoff[n] \ {a} \subseteq Address
        /\ Verified(table[n]) \cap failing[n] = {}
    BY DEF IInv, TableInv
  <2> QED
    BY <1>2, <2>1, TableStep DEF IInv
<1>4. IdInv' /\ ConnInv' /\ OneSocketPerPeer'
  BY <1>1 DEF IInv, IdInv, ConnInv, ConnShape, OneSocketPerPeer, Handshaken,
              IsHandshaken, Owner
<1> QED
  BY <1>3, <1>4 DEF IInv

\* An end is terminated, on purpose or not, and nothing else.
LEMMA TerminatedStep ==
  ASSUME ConnInv, OneSocketPerPeer, NEW c \in Connection, NEW e \in Ends,
         conn[c][e].st = "open", UNCHANGED id,
         \/ conn' = [conn EXCEPT ![c][e] = Terminated(@)]
         \/ conn' = [conn EXCEPT ![c][e] = ClosedOnPurpose(@)]
  PROVE  ConnInv' /\ OneSocketPerPeer'
<1>1. PICK new \in {Terminated(conn[c][e]), ClosedOnPurpose(conn[c][e])} :
        conn' = [conn EXCEPT ![c][e] = new]
  OBVIOUS
<1>2. /\ ConnShape(conn')
      /\ \A d \in Connection, f \in Ends :
           conn'[d][f] = IF d = c /\ f = e THEN new ELSE conn[d][f]
  <2>1. /\ DOMAIN conn = Connection
        /\ \A d \in Connection : DOMAIN conn[d] = {"out", "in", "up"}
    BY DEF ConnInv, ConnShape
  <2>2. /\ DOMAIN conn' = Connection
        /\ \A d \in Connection : d # c => conn'[d] = conn[d]
        /\ conn'[c] = [conn[c] EXCEPT ![e] = new]
    BY <1>1, <2>1
  <2> QED
    BY <2>1, <2>2 DEF Ends, ConnShape
<1>3. Fades(conn[c][e], new)
  BY <1>1 DEF Fades
<1>4. \A d \in Connection, f \in Ends : Fades(conn[d][f], conn'[d][f])
  BY <1>2, <1>3 DEF Fades
<1> QED
  BY <1>2, <1>4, FadingStep

LEMMA TimeoutStep ==
  ASSUME IInv, NEW c \in Connection, NEW e \in Ends,
         Heartbeat(c, e) \/ HandshakeTimeout(c, e)
  PROVE  IInv'
<1>1. /\ conn[c][e].st = "open"
      /\ conn' = [conn EXCEPT ![c][e] = Terminated(@)]
      /\ UNCHANGED <<table, backoff, id, spare, failing>>
  BY DEF Heartbeat, HandshakeTimeout
<1>2. ConnInv' /\ OneSocketPerPeer'
  BY <1>1, TerminatedStep DEF IInv
<1>3. TableInv' /\ IdInv'
  BY <1>1, TablesKept DEF IInv, IdInv
<1> QED
  BY <1>2, <1>3 DEF IInv

LEMMA BreakStep ==
  ASSUME IInv, NEW c \in Connection, Break(c)
  PROVE  IInv'
<1>1. /\ conn' = [conn EXCEPT ![c].up = FALSE, ![c].out.hello = NoId,
                              ![c].in.hello = NoId]
      /\ UNCHANGED <<table, backoff, id, spare, failing>>
  BY DEF Break
<1>2. /\ DOMAIN conn = Connection
      /\ \A d \in Connection : DOMAIN conn[d] = {"out", "in", "up"}
      /\ \A d \in Connection, f \in Ends : EndOK(d, f, conn[d][f], id)
  BY DEF IInv, ConnInv, ConnShape
<1>3. /\ DOMAIN conn' = Connection
      /\ \A d \in Connection : DOMAIN conn'[d] = {"out", "in", "up"}
      /\ \A d \in Connection : d # c => conn'[d] = conn[d]
      /\ \A f \in Ends : conn'[c][f] = [conn[c][f] EXCEPT !.hello = NoId]
  BY <1>1, <1>2 DEF Ends
<1>4. ASSUME NEW d \in Connection, NEW f \in Ends
      PROVE  Fades(conn[d][f], conn'[d][f])
  <2>1. CASE d # c
    BY <1>3, <2>1 DEF Fades
  <2>2. CASE d = c
    <3>1. EndOK(d, f, conn[d][f], id)
      BY <1>2
    <3>2. conn'[d][f] = [conn[d][f] EXCEPT !.hello = NoId]
      BY <1>3, <2>2
    <3>3. CASE conn[d][f].st \in {"open", "closing"}
      BY <3>2, <3>3 DEF Fades
    <3>4. CASE conn[d][f].st \in {"none", "connecting"}
      <4>1. conn[d][f] = End(conn[d][f].st, NoId)
        BY <3>1, <3>4 DEF EndOK
      <4>2. conn'[d][f] = conn[d][f]
        BY <3>2, <4>1 DEF End
      <4> QED
        BY <4>2 DEF Fades
    <3> QED
      BY <3>1, <3>3, <3>4 DEF EndOK, EndType
  <2> QED
    BY <2>1, <2>2
<1>5. ConnInv' /\ OneSocketPerPeer'
  BY <1>1, <1>3, <1>4, FadingStep DEF IInv, ConnShape
<1>6. TableInv' /\ IdInv'
  BY <1>1, TablesKept DEF IInv, IdInv
<1> QED
  BY <1>5, <1>6 DEF IInv

\* The dial succeeds: each end is about to read the other's identifier.
LEMMA OpenedStep ==
  ASSUME IInv, NEW c \in Connection, Opened(c)
  PROVE  IInv'
<1> DEFINE m == ListensAt[c[2]]
<1>1. /\ m \in Node
      /\ conn' = [conn EXCEPT ![c].out = End("open", id[m]),
                              ![c].in  = End("open", id[c[1]])]
      /\ UNCHANGED <<table, backoff, id, spare, failing>>
  BY DEF Opened
<1>2. /\ ConnShape(conn)
      /\ \A d \in Connection, f \in Ends : EndOK(d, f, conn[d][f], id)
  BY DEF IInv, ConnInv
<1>3. /\ ConnShape(conn')
      /\ \A d \in Connection : d # c => conn'[d] = conn[d]
      /\ conn'[c]["out"] = End("open", id[m])
      /\ conn'[c]["in"] = End("open", id[c[1]])
  BY <1>1, <1>2 DEF ConnShape
<1>4. id[m] \in NodeIds /\ id[c[1]] \in NodeIds
  <2>1. c[1] \in Node
    BY DEF Connection
  <2> QED
    BY <1>1, <2>1 DEF IInv, IdInv
<1>5. EndOK(c, "out", conn'[c]["out"], id) /\ EndOK(c, "in", conn'[c]["in"], id)
  <2>1. ASSUME NEW h \in NodeIds
        PROVE  /\ End("open", h) \in EndType
               /\ End("open", h).st = "open" /\ End("open", h).hello = h
    BY DEF EndType, End
  <2>2. EndOK(c, "out", End("open", id[m]), id)
    <3>1. /\ End("open", id[m]) \in EndType
          /\ End("open", id[m]).st = "open" /\ End("open", id[m]).hello = id[m]
      BY <1>4, <2>1
    <3> QED
      BY <1>1, <3>1 DEF EndOK
  <2>3. EndOK(c, "in", End("open", id[c[1]]), id)
    <3>1. /\ End("open", id[c[1]]) \in EndType
          /\ End("open", id[c[1]]).st = "open"
      BY <1>4, <2>1
    <3> QED
      BY <1>1, <3>1 DEF EndOK
  <2> QED
    BY <1>3, <2>2, <2>3
<1>6. ASSUME NEW d \in Connection, NEW f \in Ends
      PROVE  /\ EndOK(d, f, conn'[d][f], id)
             /\ conn'[d][f].peer # NoId => conn'[d][f] = conn[d][f]
  <2>1. CASE d # c
    BY <1>2, <1>3, <2>1
  <2>2. CASE d = c
    <3>1. conn'[c]["out"].peer = NoId /\ conn'[c]["in"].peer = NoId
      BY <1>3 DEF End
    <3> QED
      BY <1>5, <2>2, <3>1 DEF Ends
  <2> QED
    BY <2>1, <2>2
<1>7. OneSocketPerPeer'
  BY <1>6, NoNewPeers DEF IInv
<1>8. ConnInv'
  BY <1>1, <1>3, <1>6 DEF ConnInv, ConnShape
<1>9. TableInv' /\ IdInv'
  BY <1>1, TablesKept DEF IInv, IdInv
<1> QED
  BY <1>7, <1>8, <1>9 DEF IInv

\* What a failed dial does to the tables.
LEMMA DialFailedStep ==
  ASSUME TableInv, NEW n \in Node, NEW a \in Address, DialFailed(n, a)
  PROVE  TableInv'
<1> DEFINE t  == RecordFailure(table[n], a, Normalized(Bootnodes[n]))
           w  == IF a \in DOMAIN table[n].entries /\ a \notin DOMAIN t.entries
                 THEN backoff[n] \ {a}
                 ELSE backoff[n] \cup {a}
           fl == failing[n] \cup {a}
<1>1. /\ DOMAIN table = Node /\ DOMAIN backoff = Node /\ DOMAIN failing = Node
      /\ TableOK(n, table[n])
      /\ backoff[n] \subseteq Address
      /\ Verified(table[n]) \cap failing[n] = {}
  BY DEF TableInv
<1>2. Knows(n, t, w, fl)
  BY <1>1 DEF DialFailed, Knows
<1>3. TableOK(n, t) /\ Verified(t) \subseteq Verified(table[n]) \ {a}
  BY <1>1, RecordFailureOK
<1>4. w \subseteq Address
  BY <1>1
<1>5. Verified(t) \cap fl = {}
  BY <1>1, <1>3
<1> HIDE DEF t, w, fl
<1> QED
  BY <1>2, <1>3, <1>4, <1>5, TableStep

\* An end that is gone.
LEMMA GoneStep ==
  ASSUME ConnInv, OneSocketPerPeer, NEW c \in Connection, NEW e \in Ends,
         conn' = Gone(conn, c, e), UNCHANGED id
  PROVE  ConnInv' /\ OneSocketPerPeer'
<1>1. ConnShape(conn')
  BY GoneFades
<1>2. \A d \in Connection, f \in Ends :
        conn'[d][f] = conn[d][f] \/ conn'[d][f] = NoEnd
  BY GoneFades
<1>3. \A d \in Connection, f \in Ends : Fades(conn[d][f], conn'[d][f])
  BY <1>2 DEF Fades
<1> QED
  BY <1>1, <1>3, FadingStep

LEMMA RefusedStep ==
  ASSUME IInv, NEW c \in Connection, Refused(c)
  PROVE  IInv'
<1>1. /\ conn' = Gone(conn, c, "out")
      /\ DialFailed(c[1], c[2])
      /\ UNCHANGED <<id, spare>>
  BY DEF Refused
<1>2. c[1] \in Node /\ c[2] \in Address
  BY DEF Connection
<1>3. TableInv'
  BY <1>1, <1>2, DialFailedStep DEF IInv
<1>4. ConnInv' /\ OneSocketPerPeer'
  BY <1>1, GoneStep DEF IInv, Ends
<1> QED
  BY <1>1, <1>3, <1>4 DEF IInv, IdInv

LEMMA ClosedStep ==
  ASSUME IInv, NEW c \in Connection, NEW e \in Ends, Closed(c, e)
  PROVE  IInv'
<1> DEFINE n == Owner(c, e)
           a == AnnouncedAddress(c, e)
<1>1. /\ conn[c][e].st \in {"open", "closing"}
      /\ conn' = Gone(conn, c, e)
      /\ UNCHANGED <<id, spare>>
  BY DEF Closed
<1>2. n \in Node /\ c[2] \in Address /\ a \in Address
  BY <1>1, OwnerType DEF IInv
<1>3. ConnInv' /\ OneSocketPerPeer'
  BY <1>1, GoneStep DEF IInv
<1>4. \/ DialFailed(n, c[2])
      \/ /\ backoff' = [backoff EXCEPT ![n] = @ \cup {a}]
         /\ UNCHANGED <<table, failing>>
      \/ UNCHANGED <<table, backoff, failing>>
  BY DEF Closed
<1> HIDE DEF n, a
<1>5. TableInv'
  <2>1. CASE DialFailed(n, c[2])
    BY <1>2, <2>1, DialFailedStep DEF IInv
  <2>2. CASE /\ backoff' = [backoff EXCEPT ![n] = @ \cup {a}]
             /\ UNCHANGED <<table, failing>>
    <3>1. Knows(n, table[n], backoff[n] \cup {a}, failing[n])
      BY <2>2 DEF Knows, IInv, TableInv
    <3>2. /\ TableOK(n, table[n]) /\ backoff[n] \cup {a} \subseteq Address
          /\ Verified(table[n]) \cap failing[n] = {}
      BY <1>2 DEF IInv, TableInv
    <3> QED
      BY <1>2, <3>1, <3>2, TableStep DEF IInv
  <2>3. CASE UNCHANGED <<table, backoff, failing>>
    BY <2>3, TablesKept DEF IInv
  <2> QED
    BY <1>4, <2>1, <2>2, <2>3
<1> QED
  BY <1>1, <1>3, <1>5 DEF IInv, IdInv

-----------------------------------------------------------------------------
(* Handling a HELLO                                                        *)

LEMMA RejectHelloStep ==
  ASSUME IInv, NEW c \in Connection, NEW e \in Ends, RejectHello(c, e)
  PROVE  IInv'
<1> DEFINE n == Owner(c, e)
<1>1. /\ conn[c][e].st = "open"
      /\ conn' = [conn EXCEPT ![c][e] = ClosedOnPurpose(@)]
      /\ \/ table' = [table EXCEPT ![n] = Block(@, c[2])]
         \/ table' = table
      /\ UNCHANGED <<backoff, id, spare, failing>>
  BY DEF RejectHello, HelloAt
<1>2. n \in Node
  BY <1>1, OwnerType DEF IInv
<1>3. ConnInv' /\ OneSocketPerPeer'
  BY <1>1, TerminatedStep DEF IInv
<1> HIDE DEF n
<1>4. TableInv'
  <2>1. CASE table' = [table EXCEPT ![n] = Block(@, c[2])]
    <3>1. Knows(n, Block(table[n], c[2]), backoff[n], failing[n])
      BY <1>1, <2>1 DEF Knows, IInv, TableInv
    <3>2. /\ TableOK(n, table[n]) /\ backoff[n] \subseteq Address
          /\ Verified(table[n]) \cap failing[n] = {}
      BY <1>2 DEF IInv, TableInv
    <3>3. /\ TableOK(n, Block(table[n], c[2]))
          /\ Verified(Block(table[n], c[2])) \subseteq Verified(table[n])
      BY <1>2, <3>2, BlockOK
    <3>4. Verified(Block(table[n], c[2])) \cap failing[n] = {}
      BY <3>2, <3>3
    <3> QED
      BY <1>2, <3>1, <3>2, <3>3, <3>4, TableStep DEF IInv
  <2>2. CASE table' = table
    BY <1>1, <2>2, TablesKept DEF IInv
  <2> QED
    BY <1>1, <2>1, <2>2
<1> QED
  BY <1>1, <1>3, <1>4 DEF IInv, IdInv

\* An address that answers a dial with an acceptable HELLO is useful: whoever
\* dials itself reads its own identifier.
LEMMA AnsweredUseful ==
  ASSUME ConnInv, NEW c \in Connection, HelloAt(c, "out"), Acceptable(c, "out")
  PROVE  c[1] \in Node /\ Useful(c[1], c[2])
<1>1. /\ conn[c]["out"].st = "open" /\ conn[c]["out"].hello # NoId
      /\ conn[c]["out"].hello # id[c[1]]
      /\ Genesis[c[1]] = Genesis[ListensAt[c[2]]]
  BY DEF HelloAt, Acceptable, IsSelf, IsIncompatible, Owner, Other
<1>2. /\ ListensAt[c[2]] \in Node
      /\ ListensAt[c[2]] = c[1] => conn[c]["out"].hello \in {NoId, id[c[1]]}
  <2>1. EndOK(c, "out", conn[c]["out"], id)
    BY DEF ConnInv, Ends
  <2> QED
    BY <1>1, <2>1 DEF EndOK
<1>3. c[1] \in Node
  BY DEF Connection
<1> QED
  BY <1>1, <1>2, <1>3 DEF Useful

\* What it does to the tables when an address has answered.
LEMMA AnsweredStep ==
  ASSUME TableInv, NEW n \in Node, NEW a, Useful(n, a),
         table' = [table EXCEPT ![n] = RecordSuccess(@, a)],
         failing' = [failing EXCEPT ![n] = @ \ {a}],
         \/ backoff' = [backoff EXCEPT ![n] = @ \ {a}]
         \/ UNCHANGED backoff
  PROVE  TableInv'
<1> DEFINE t  == RecordSuccess(table[n], a)
           fl == failing[n] \ {a}
<1>1. /\ DOMAIN table = Node /\ DOMAIN backoff = Node /\ DOMAIN failing = Node
      /\ TableOK(n, table[n])
      /\ backoff[n] \subseteq Address
      /\ Verified(table[n]) \cap failing[n] = {}
  BY DEF TableInv
<1>2. PICK w \in {backoff[n], backoff[n] \ {a}} : Knows(n, t, w, fl)
  <2>1. CASE UNCHANGED backoff
    <3>1. Knows(n, t, backoff[n], fl)
      BY <1>1, <2>1 DEF Knows
    <3> QED
      BY <3>1
  <2>2. CASE backoff' = [backoff EXCEPT ![n] = @ \ {a}]
    <3>1. Knows(n, t, backoff[n] \ {a}, fl)
      BY <1>1, <2>2 DEF Knows
    <3> QED
      BY <3>1
  <2> QED
    BY <2>1, <2>2
<1>3. TableOK(n, t) /\ Verified(t) \subseteq Verified(table[n]) \cup {a}
  BY <1>1, RecordSuccessOK
<1>4. Verified(t) \cap fl = {} /\ w \subseteq Address
  BY <1>1, <1>3
<1> HIDE DEF t, fl
<1> QED
  BY <1>2, <1>3, <1>4, TableStep

\* What it does to the tables when addresses are learnt.
LEMMA LearntStep ==
  ASSUME TableInv, NEW n \in Node, NEW as \in SUBSET Address, IsFiniteSet(as),
         NEW more \in Addables(table[n], as),
         table' = [table EXCEPT ![n] = Add(@, more)],
         UNCHANGED <<backoff, failing>>
  PROVE  TableInv'
<1> DEFINE t == Add(table[n], more)
<1>1. /\ DOMAIN table = Node /\ DOMAIN backoff = Node /\ DOMAIN failing = Node
      /\ TableOK(n, table[n])
      /\ backoff[n] \subseteq Address
      /\ Verified(table[n]) \cap failing[n] = {}
  BY DEF TableInv
<1>2. Knows(n, t, backoff[n], failing[n])
  BY <1>1 DEF Knows
<1>3. TableOK(n, t) /\ Verified(t) = Verified(table[n])
  BY <1>1, AddOK
<1> HIDE DEF t
<1> QED
  BY <1>1, <1>2, <1>3, TableStep

LEMMA RejectDuplicateStep ==
  ASSUME IInv, NEW c \in Connection, NEW e \in Ends, RejectDuplicate(c, e)
  PROVE  IInv'
<1>1. /\ HelloAt(c, e) /\ Acceptable(c, e)
      /\ conn' = [conn EXCEPT ![c][e] = ClosedOnPurpose(@)]
      /\ UNCHANGED <<backoff, id, spare>>
  BY DEF RejectDuplicate
<1>2. conn[c][e].st = "open"
  BY <1>1 DEF HelloAt
<1>3. ConnInv' /\ OneSocketPerPeer'
  BY <1>1, <1>2, TerminatedStep DEF IInv
<1>4. TableInv'
  <2>1. CASE e = "out"
    <3>1. /\ table' = [table EXCEPT ![c[1]] = RecordSuccess(@, c[2])]
          /\ failing' = [failing EXCEPT ![c[1]] = @ \ {c[2]}]
      BY <2>1 DEF RejectDuplicate, Owner
    <3>2. c[1] \in Node /\ Useful(c[1], c[2])
      BY <1>1, <2>1, AnsweredUseful DEF IInv
    <3> QED
      BY <1>1, <3>1, <3>2, AnsweredStep DEF IInv
  <2>2. CASE e # "out"
    <3>1. UNCHANGED <<table, failing>>
      BY <2>2 DEF RejectDuplicate
    <3> QED
      BY <1>1, <3>1, TablesKept DEF IInv
  <2> QED
    BY <2>1, <2>2
<1> QED
  BY <1>1, <1>3, <1>4 DEF IInv, IdInv

\* The ends once <<c, e>> is handshaken.
LEMMA ReplacedForm ==
  ASSUME ConnInv, NEW c \in Connection, NEW e \in Ends
  PROVE  LET nodeId == conn[c][e].hello
             after  == Replaced(c, e, nodeId)
             lost   == Existing(c, e, nodeId)
         IN  /\ ConnShape(after)
             /\ \A d \in Connection : after[d].up = conn[d].up
             /\ \A d \in Connection, f \in Ends :
                  after[d][f] =
                    IF d = c /\ f = e
                    THEN [conn[c][e] EXCEPT !.peer = nodeId, !.hello = NoId]
                    ELSE IF <<d, f>> \in lost THEN ClosedOnPurpose(conn[d][f])
                    ELSE conn[d][f]
<1> DEFINE nodeId == conn[c][e].hello
           after  == Replaced(c, e, nodeId)
           lost   == Existing(c, e, nodeId)
           Kept(d, f) == IF <<d, f>> \in lost THEN ClosedOnPurpose(conn[d][f])
                         ELSE conn[d][f]
           cs == [d \in Connection |->
                    [conn[d] EXCEPT !.out = Kept(d, "out"), !.in = Kept(d, "in")]]
<1>0. DOMAIN conn = Connection /\ \A d \in Connection : DOMAIN conn[d] = {"out", "in", "up"}
  BY DEF ConnInv, ConnShape
<1>1. after = [cs EXCEPT ![c][e].peer = nodeId, ![c][e].hello = NoId]
  BY DEF Replaced
<1>2. <<c, e>> \notin lost
  BY DEF Existing
<1> HIDE DEF lost
<1>3. /\ DOMAIN cs = Connection
      /\ \A d \in Connection : /\ DOMAIN cs[d] = {"out", "in", "up"}
                               /\ cs[d]["out"] = Kept(d, "out")
                               /\ cs[d]["in"] = Kept(d, "in")
                               /\ cs[d]["up"] = conn[d]["up"]
  BY <1>0
<1> HIDE DEF cs
<1>4. /\ DOMAIN cs = Connection
      /\ \A d \in Connection : DOMAIN cs[d] = {"out", "in", "up"}
      /\ \A d \in Connection : cs[d]["up"] = conn[d]["up"]
      /\ \A d \in Connection, f \in Ends : cs[d][f] = Kept(d, f)
  BY <1>3 DEF Ends
<1> HIDE DEF after, nodeId
<1>5. /\ DOMAIN after = Connection
      /\ \A d \in Connection : d # c => after[d] = cs[d]
      /\ DOMAIN after[c] = {"out", "in", "up"}
      /\ after[c]["up"] = cs[c]["up"]
      /\ \A f \in Ends : f # e => after[c][f] = cs[c][f]
      /\ after[c][e] = [cs[c][e] EXCEPT !.peer = nodeId, !.hello = NoId]
  BY <1>1, <1>4 DEF Ends
<1>6. after[c][e] = [conn[c][e] EXCEPT !.peer = nodeId, !.hello = NoId]
  BY <1>2, <1>4, <1>5
<1>7. ConnShape(after)
  BY <1>4, <1>5 DEF ConnShape
<1>8. \A d \in Connection : after[d].up = conn[d].up
  BY <1>4, <1>5
<1> QED
  BY <1>4, <1>5, <1>6, <1>7, <1>8 DEF after, lost, nodeId

\* The sockets once <<c, e>> is handshaken: whatever else its owner had
\* handshaken with the same node is closed on purpose.
LEMMA ReplacedOK ==
  ASSUME ConnInv, OneSocketPerPeer, NEW c \in Connection, NEW e \in Ends,
         HelloAt(c, e)
  PROVE  LET nodeId == conn[c][e].hello
             after  == Replaced(c, e, nodeId)
         IN  /\ ConnShape(after)
             /\ \A d \in Connection, f \in Ends : EndOK(d, f, after[d][f], id)
             /\ \A x, y \in Connection \X Ends :
                  (/\ after[x[1]][x[2]].peer # NoId
                   /\ x # y /\ Owner(x[1], x[2]) = Owner(y[1], y[2])
                   /\ after[x[1]][x[2]].peer = after[y[1]][y[2]].peer)
                     => \/ after[x[1]][x[2]].expectedClose
                        \/ after[y[1]][y[2]].expectedClose
<1> DEFINE nodeId == conn[c][e].hello
           after  == Replaced(c, e, nodeId)
           lost   == Existing(c, e, nodeId)
           mine   == [conn[c][e] EXCEPT !.peer = nodeId, !.hello = NoId]
           Lost(d, f) == <<d, f>> \in lost
<1>1. /\ DOMAIN conn = Connection
      /\ \A d \in Connection : DOMAIN conn[d] = {"out", "in", "up"}
      /\ \A d \in Connection, f \in Ends : EndOK(d, f, conn[d][f], id)
      /\ conn[c][e].st = "open" /\ nodeId # NoId
  BY DEF ConnInv, ConnShape, HelloAt
<1>2. /\ ConnShape(after)
      /\ \A d \in Connection, f \in Ends :
           after[d][f] = IF d = c /\ f = e THEN mine
                         ELSE IF Lost(d, f) THEN ClosedOnPurpose(conn[d][f])
                         ELSE conn[d][f]
  BY ReplacedForm
<1>3. ASSUME NEW d \in Connection, NEW f \in Ends, Lost(d, f)
      PROVE  /\ conn[d][f].peer = nodeId /\ Owner(d, f) = Owner(c, e)
             /\ conn[d][f].st \in {"open", "closing"}
  <2>1. /\ conn[d][f].peer # NoId /\ conn[d][f].peer = nodeId
        /\ Owner(d, f) = Owner(c, e)
    BY <1>3 DEF Existing, Handshaken, IsHandshaken
  <2>2. EndOK(d, f, conn[d][f], id)
    BY <1>1
  <2>3. conn[d][f].st \in {"open", "closing"}
    BY <2>1, <2>2 DEF EndOK, EndType, End
  <2> QED
    BY <2>1, <2>3
<1>4. ASSUME NEW d \in Connection, NEW f \in Ends,
             <<d, f>> # <<c, e>>, conn[d][f].peer = nodeId,
             Owner(d, f) = Owner(c, e), ~conn[d][f].expectedClose
      PROVE  Lost(d, f)
  BY <1>1, <1>4 DEF Existing, Handshaken, IsHandshaken
<1>5. nodeId \in NodeIds
  <2>1. EndOK(c, e, conn[c][e], id)
    BY <1>1
  <2> QED
    BY <1>1, <2>1 DEF EndOK, EndType
<1>6. /\ EndOK(c, e, mine, id)
      /\ mine.peer = nodeId
  <2>1. EndOK(c, e, conn[c][e], id)
    BY <1>1
  <2> HIDE DEF nodeId
  <2>2. /\ mine \in EndType /\ mine.st = "open" /\ mine.hello = NoId
        /\ mine.peer = nodeId
    BY <1>1, <1>5, <2>1 DEF EndOK, EndType
  <2> HIDE DEF mine
  <2>3. ListensAt[c[2]] \in Node
    BY <1>1, <2>1 DEF EndOK
  <2> QED
    BY <2>2, <2>3 DEF EndOK
<1> HIDE DEF lost, Lost, mine, after
<1>7. ASSUME NEW d \in Connection, NEW f \in Ends, ~(d = c /\ f = e)
      PROVE  /\ EndOK(d, f, after[d][f], id)
             /\ after[d][f].peer = conn[d][f].peer
             /\ conn[d][f].expectedClose => after[d][f].expectedClose
             /\ Lost(d, f) => after[d][f].expectedClose
  <2>1. EndOK(d, f, conn[d][f], id)
    BY <1>1
  <2>2. CASE Lost(d, f)
    <3>1. after[d][f] = ClosedOnPurpose(conn[d][f])
      BY <1>2, <1>7, <2>2
    <3>2. Fades(conn[d][f], after[d][f])
      BY <1>3, <2>2, <3>1 DEF Fades
    <3>3. EndOK(d, f, after[d][f], id)
      BY <2>1, <3>2, FadesOK
    <3>4. /\ after[d][f].peer = conn[d][f].peer /\ after[d][f].expectedClose
      BY <2>1, <3>1 DEF ClosedOnPurpose, Terminated, EndOK, EndType
    <3> QED
      BY <3>3, <3>4
  <2>3. CASE ~Lost(d, f)
    BY <1>2, <1>7, <2>1, <2>3
  <2> QED
    BY <2>2, <2>3
<1>8. after[c][e] = mine
  BY <1>2
<1>9. ASSUME NEW d \in Connection, NEW f \in Ends
      PROVE  EndOK(d, f, after[d][f], id)
  BY <1>6, <1>7, <1>8
<1>10. ASSUME NEW x \in Connection \X Ends, NEW y \in Connection \X Ends,
              after[x[1]][x[2]].peer # NoId, x # y,
              Owner(x[1], x[2]) = Owner(y[1], y[2]),
              after[x[1]][x[2]].peer = after[y[1]][y[2]].peer
       PROVE  after[x[1]][x[2]].expectedClose \/ after[y[1]][y[2]].expectedClose
  <2>0. /\ x = <<x[1], x[2]>> /\ x[1] \in Connection /\ x[2] \in Ends
        /\ y = <<y[1], y[2]>> /\ y[1] \in Connection /\ y[2] \in Ends
    OBVIOUS
  <2>1. ASSUME NEW z \in Connection \X Ends, z # <<c, e>>,
               after[z[1]][z[2]].peer = nodeId,
               Owner(z[1], z[2]) = Owner(c, e)
        PROVE  after[z[1]][z[2]].expectedClose
    <3>1. /\ z = <<z[1], z[2]>> /\ z[1] \in Connection /\ z[2] \in Ends
      OBVIOUS
    <3>2. ~(z[1] = c /\ z[2] = e) /\ <<z[1], z[2]>> # <<c, e>>
      BY <2>1, <3>1
    <3>3. /\ after[z[1]][z[2]].peer = conn[z[1]][z[2]].peer
          /\ conn[z[1]][z[2]].expectedClose => after[z[1]][z[2]].expectedClose
          /\ Lost(z[1], z[2]) => after[z[1]][z[2]].expectedClose
      BY <1>7, <3>1, <3>2
    <3>4. conn[z[1]][z[2]].peer = nodeId
      BY <2>1, <3>3
    <3>5. conn[z[1]][z[2]].expectedClose \/ Lost(z[1], z[2])
      BY <1>4, <2>1, <3>1, <3>2, <3>4
    <3> QED
      BY <3>3, <3>5
  <2>2. CASE x = <<c, e>>
    <3>1. after[x[1]][x[2]].peer = nodeId /\ Owner(x[1], x[2]) = Owner(c, e)
      BY <1>6, <1>8, <2>2
    <3>2. /\ y # <<c, e>> /\ after[y[1]][y[2]].peer = nodeId
          /\ Owner(y[1], y[2]) = Owner(c, e)
      BY <1>10, <2>2, <3>1
    <3> QED
      BY <2>1, <3>2
  <2>3. CASE y = <<c, e>>
    <3>1. after[y[1]][y[2]].peer = nodeId /\ Owner(y[1], y[2]) = Owner(c, e)
      BY <1>6, <1>8, <2>3
    <3>2. /\ x # <<c, e>> /\ after[x[1]][x[2]].peer = nodeId
          /\ Owner(x[1], x[2]) = Owner(c, e)
      BY <1>10, <2>3, <3>1
    <3> QED
      BY <2>1, <3>2
  <2>4. CASE x # <<c, e>> /\ y # <<c, e>>
    <3>1. ~(x[1] = c /\ x[2] = e) /\ ~(y[1] = c /\ y[2] = e)
      BY <2>0, <2>4
    <3>2. /\ after[x[1]][x[2]].peer = conn[x[1]][x[2]].peer
          /\ conn[x[1]][x[2]].expectedClose => after[x[1]][x[2]].expectedClose
          /\ after[y[1]][y[2]].peer = conn[y[1]][y[2]].peer
          /\ conn[y[1]][y[2]].expectedClose => after[y[1]][y[2]].expectedClose
      BY <1>7, <2>0, <3>1
    <3>3. x \in Handshaken /\ y \in Handshaken
      BY <1>10, <3>2 DEF Handshaken, IsHandshaken
    <3>4. conn[x[1]][x[2]].expectedClose \/ conn[y[1]][y[2]].expectedClose
      BY <1>10, <3>2, <3>3 DEF OneSocketPerPeer
    <3> QED
      BY <3>2, <3>4
  <2> QED
    BY <2>2, <2>3, <2>4
<1> QED
  BY <1>2, <1>9, <1>10 DEF after

LEMMA AcceptHelloStep ==
  ASSUME IInv, NEW c \in Connection, NEW e \in Ends, AcceptHello(c, e)
  PROVE  IInv'
<1> DEFINE n     == Owner(c, e)
           after == Replaced(c, e, conn[c][e].hello)
           a     == AnnouncedAddress(c, e)
<1>1. /\ HelloAt(c, e) /\ Acceptable(c, e)
      /\ UNCHANGED <<id, spare>>
  BY DEF AcceptHello
<1>2. n \in Node /\ a \in Address
  BY <1>1, OwnerType DEF IInv, HelloAt
<1>3. ConnInv /\ OneSocketPerPeer
  BY DEF IInv
<1>4. /\ ConnShape(after)
      /\ \A d \in Connection, f \in Ends : EndOK(d, f, after[d][f], id)
      /\ \A x, y \in Connection \X Ends :
           (/\ after[x[1]][x[2]].peer # NoId
            /\ x # y /\ Owner(x[1], x[2]) = Owner(y[1], y[2])
            /\ after[x[1]][x[2]].peer = after[y[1]][y[2]].peer)
              => \/ after[x[1]][x[2]].expectedClose
                 \/ after[y[1]][y[2]].expectedClose
  BY <1>1, <1>3, ReplacedOK
<1>5. \/ /\ e = "out"
         /\ table' = [table EXCEPT ![n] = RecordSuccess(@, c[2])]
         /\ backoff' = [backoff EXCEPT ![n] = @ \ {c[2]}]
         /\ failing' = [failing EXCEPT ![n] = @ \ {c[2]}]
         /\ conn' = after
      \/ /\ \E more \in Addables(table[n], {a}) :
              table' = [table EXCEPT ![n] = Add(@, more)]
         /\ conn' = MaintainConnections(after, n, table'[n], backoff[n])
         /\ UNCHANGED <<backoff, failing>>
  BY DEF AcceptHello
<1> HIDE DEF n, a, after
<1>6. /\ ConnShape(conn')
      /\ \A d \in Connection, f \in Ends :
           \/ conn'[d][f] = after[d][f]
           \/ after[d][f] = NoEnd /\ conn'[d][f] = End("connecting", NoId)
  <2>1. CASE conn' = after
    BY <1>4, <2>1
  <2>2. CASE conn' = MaintainConnections(after, n, table'[n], backoff[n])
    BY <1>4, <2>2, MaintainFades
  <2> QED
    BY <1>5, <2>1, <2>2
<1>7. ConnInv'
  <2>1. ASSUME NEW d \in Connection, NEW f \in Ends
        PROVE  EndOK(d, f, conn'[d][f], id)
    <3>1. Fades(after[d][f], conn'[d][f])
      BY <1>6 DEF Fades
    <3>2. EndOK(d, f, after[d][f], id)
      BY <1>4
    <3> QED
      BY <3>1, <3>2, FadesOK
  <2> QED
    BY <1>1, <1>6, <2>1 DEF ConnInv, ConnShape
<1>8. OneSocketPerPeer'
  <2> SUFFICES ASSUME NEW x \in Connection \X Ends, NEW y \in Connection \X Ends,
                      conn'[x[1]][x[2]].peer # NoId, conn'[y[1]][y[2]].peer # NoId,
                      x # y, Owner(x[1], x[2]) = Owner(y[1], y[2]),
                      conn'[x[1]][x[2]].peer = conn'[y[1]][y[2]].peer
               PROVE  \/ conn'[x[1]][x[2]].expectedClose
                      \/ conn'[y[1]][y[2]].expectedClose
    BY DEF OneSocketPerPeer, Handshaken, IsHandshaken, Owner
  <2>1. End("connecting", NoId).peer = NoId
    BY DEF End
  <2>2. /\ conn'[x[1]][x[2]] = after[x[1]][x[2]]
        /\ conn'[y[1]][y[2]] = after[y[1]][y[2]]
    BY <1>6, <2>1
  <2> QED
    BY <1>4, <2>2
<1>9. TableInv'
  <2>1. CASE /\ e = "out"
             /\ table' = [table EXCEPT ![n] = RecordSuccess(@, c[2])]
             /\ backoff' = [backoff EXCEPT ![n] = @ \ {c[2]}]
             /\ failing' = [failing EXCEPT ![n] = @ \ {c[2]}]
    <3>1. n = c[1] /\ Useful(c[1], c[2])
      BY <1>1, <1>3, <2>1, AnsweredUseful DEF n, Owner
    <3> QED
      BY <1>2, <2>1, <3>1, AnsweredStep DEF IInv
  <2>2. CASE /\ \E more \in Addables(table[n], {a}) :
                  table' = [table EXCEPT ![n] = Add(@, more)]
             /\ UNCHANGED <<backoff, failing>>
    <3>1. {a} \in SUBSET Address /\ IsFiniteSet({a})
      BY <1>2, FS_Singleton
    <3>2. PICK more \in Addables(table[n], {a}) :
            table' = [table EXCEPT ![n] = Add(@, more)]
      BY <2>2
    <3> QED
      BY <1>2, <2>2, <3>1, <3>2, LearntStep DEF IInv
  <2> QED
    BY <1>5, <2>1, <2>2
<1> QED
  BY <1>1, <1>7, <1>8, <1>9 DEF IInv, IdInv

LEMMA LearnPeersStep ==
  ASSUME IInv, NEW c \in Connection, NEW e \in Ends, LearnPeers(c, e)
  PROVE  IInv'
<1> DEFINE n == Owner(c, e)
           m == Owner(c, Other(e))
           known == Verified(table[m]) \ {AnnouncedAddress(c, Other(e))}
<1>1. /\ conn[c][e].st = "open"
      /\ UNCHANGED <<backoff, id, spare, failing>>
  BY DEF LearnPeers
<1>2. PICK more \in Addables(table[n], known) :
        /\ table' = [table EXCEPT ![n] = Add(@, more)]
        /\ conn' = MaintainConnections(conn, n, table'[n], backoff[n])
  BY DEF LearnPeers
<1>3. n \in Node /\ m \in Node
  BY <1>1, OwnerType DEF IInv
<1>4. known \in SUBSET Address /\ IsFiniteSet(known)
  <2>1. /\ DOMAIN table[m].entries \subseteq Address
        /\ IsFiniteSet(DOMAIN table[m].entries)
    BY <1>3 DEF IInv, TableInv, TableOK
  <2>2. known \subseteq DOMAIN table[m].entries
    BY DEF Verified
  <2> QED
    BY <2>1, <2>2, FS_Subset
<1> HIDE DEF n, m, known
<1>5. TableInv'
  BY <1>1, <1>2, <1>3, <1>4, LearntStep DEF IInv
<1>6. /\ ConnShape(conn')
      /\ \A d \in Connection, f \in Ends : Fades(conn[d][f], conn'[d][f])
  <2>1. ConnShape(conn)
    BY DEF IInv, ConnInv
  <2> QED
    BY <1>2, <2>1, MaintainFades DEF Fades
<1>7. ConnInv' /\ OneSocketPerPeer'
  BY <1>1, <1>6, FadingStep DEF IInv
<1> QED
  BY <1>1, <1>5, <1>7 DEF IInv, IdInv

-----------------------------------------------------------------------------
(* Starting                                                                *)

\* A sound table survives a restart: the file has its addresses and flags.
LEMMA SavedOK ==
  ASSUME NEW n \in Node, NEW t, TableOK(n, t), NEW u \in FreshTables(n, Saved(t))
  PROVE  TableOK(n, u)
<1> DEFINE known == DOMAIN t.entries
           saved == Saved(t)
<1>1. /\ t.entries \in [known -> Entry]
      /\ known \subseteq Address /\ IsFiniteSet(known)
      /\ \A a \in known : t.entries[a].seen => Useful(n, a)
  BY DEF TableOK
<1>2. /\ DOMAIN saved = known
      /\ \A a \in known : saved[a] = t.entries[a].seen
  BY DEF Saved
<1>3. \A a \in known : t.entries[a].seen \in BOOLEAN
  BY <1>1 DEF Entry
<1>4. \A a \in known : saved[a] \in BOOLEAN /\ (saved[a] => Useful(n, a))
  <2> SUFFICES ASSUME NEW a \in known
               PROVE  saved[a] \in BOOLEAN /\ (saved[a] => Useful(n, a))
    OBVIOUS
  <2>1. saved[a] = t.entries[a].seen
    BY <1>2
  <2> QED
    BY <1>1, <1>3, <2>1
<1>5. u \in FreshTables(n, saved)
  OBVIOUS
<1> HIDE DEF saved, known
<1> QED
  BY <1>1, <1>2, <1>4, <1>5, FreshOK

\* At the first start there is no file.
LEMMA FirstOK ==
  ASSUME NEW n \in Node, NEW u \in FreshTables(n, <<>>)
  PROVE  TableOK(n, u)
<1> DEFINE saved == <<>>
<1>1. DOMAIN saved = {}
  OBVIOUS
<1>2. IsFiniteSet(DOMAIN saved)
  BY <1>1, FS_EmptySet
<1>3. u \in FreshTables(n, saved)
  OBVIOUS
<1> HIDE DEF saved
<1> QED
  BY <1>1, <1>2, <1>3, FreshOK

LEMMA RestartStep ==
  ASSUME IInv, NEW n \in Node, Restart(n)
  PROVE  IInv'
<1> DEFINE Mine(c, e) == Owner(c, e) = n
           left == [c \in Connection |->
             IF \A e \in Ends : Mine(c, e) \/ conn[c][e].st = "none"
             THEN NoConnection
             ELSE [conn[c] EXCEPT !.out = IF Mine(c, "out") THEN NoEnd ELSE @,
                                  !.in  = IF Mine(c, "in") THEN NoEnd ELSE @]]
<1>1. PICK i \in spare, t \in FreshTables(n, Saved(table[n])) :
        /\ id' = [id EXCEPT ![n] = i]
        /\ spare' = spare \ {i}
        /\ table' = [table EXCEPT ![n] = t]
        /\ backoff' = [backoff EXCEPT ![n] = {}]
        /\ conn' = MaintainConnections(left, n, t, {})
        /\ failing' = [failing EXCEPT ![n] = {}]
  BY DEF Restart
<1>2. TableInv'
  <2>1. DOMAIN table = Node /\ DOMAIN backoff = Node /\ DOMAIN failing = Node
    BY DEF IInv, TableInv
  <2>2. Knows(n, t, {}, {})
    BY <1>1, <2>1 DEF Knows
  <2>3. TableOK(n, t)
    <3>1. TableOK(n, table[n])
      BY DEF IInv, TableInv
    <3> QED
      BY <3>1, SavedOK
  <2> QED
    BY <2>2, <2>3, TableStep DEF IInv
<1>3. /\ id \in [Node -> NodeIds] /\ spare \subseteq NodeIds
      /\ \A k \in Node : id[k] \notin spare
  BY DEF IInv, IdInv
<1>4. IdInv'
  <2>1. id' \in [Node -> NodeIds] /\ spare' \subseteq NodeIds
    BY <1>1, <1>3
  <2>2. \A k \in Node : id'[k] \notin spare'
    BY <1>1, <1>3
  <2> QED
    BY <2>1, <2>2 DEF IdInv
<1>5. /\ ConnShape(conn)
      /\ \A c \in Connection, e \in Ends : EndOK(c, e, conn[c][e], id)
  BY DEF IInv, ConnInv
<1>6. ASSUME NEW c \in Connection
      PROVE  /\ DOMAIN left[c] = {"out", "in", "up"}
             /\ \A e \in Ends : left[c][e] = IF Mine(c, e) THEN NoEnd
                                             ELSE conn[c][e]
  <2>1. CASE \A e \in Ends : Mine(c, e) \/ conn[c][e].st = "none"
    <3>1. left[c] = NoConnection
      BY <2>1
    <3>2. \A e \in Ends : conn[c][e].st = "none" => conn[c][e] = NoEnd
      BY <1>5 DEF EndOK, NoEnd
    <3>3. /\ DOMAIN NoConnection = {"out", "in", "up"}
          /\ \A e \in Ends : NoConnection[e] = NoEnd
      BY DEF NoConnection, Ends
    <3> HIDE DEF left, Mine
    <3> QED
      BY <2>1, <3>1, <3>2, <3>3
  <2>2. CASE ~(\A e \in Ends : Mine(c, e) \/ conn[c][e].st = "none")
    <3> DEFINE o == IF Mine(c, "out") THEN NoEnd ELSE conn[c]["out"]
               j == IF Mine(c, "in") THEN NoEnd ELSE conn[c]["in"]
    <3>1. left[c] = [conn[c] EXCEPT !.out = o, !.in = j]
      BY <2>2
    <3>2. DOMAIN conn[c] = {"out", "in", "up"}
      BY <1>5 DEF ConnShape
    <3> HIDE DEF left, o, j
    <3>3. /\ DOMAIN left[c] = {"out", "in", "up"}
          /\ left[c]["out"] = o /\ left[c]["in"] = j
      BY <3>1, <3>2
    <3> QED
      BY <3>3 DEF o, j, Ends
  <2> QED
    BY <2>1, <2>2
<1>7. ConnShape(left)
  <2>1. DOMAIN left = Connection
    OBVIOUS
  <2> HIDE DEF left
  <2> QED
    BY <1>6, <2>1 DEF ConnShape
<1> HIDE DEF left
<1>8. /\ ConnShape(conn')
      /\ \A c \in Connection, e \in Ends :
           \/ conn'[c][e] = left[c][e]
           \/ left[c][e] = NoEnd /\ conn'[c][e] = End("connecting", NoId)
  BY <1>1, <1>7, MaintainFades
<1>9. ASSUME NEW c \in Connection, NEW e \in Ends
      PROVE  /\ EndOK(c, e, conn'[c][e], id')
             /\ conn'[c][e].peer # NoId => conn'[c][e] = conn[c][e]
  <2>1. /\ EndOK(c, e, NoEnd, id')
        /\ EndOK(c, e, End("connecting", NoId), id')
    BY DEF EndOK, EndType, NoEnd, End
  <2>2. NoEnd.peer = NoId /\ End("connecting", NoId).peer = NoId
    BY DEF NoEnd, End
  <2>3. CASE Mine(c, e)
    <3>1. left[c][e] = NoEnd
      BY <1>6, <2>3
    <3>2. conn'[c][e] \in {NoEnd, End("connecting", NoId)}
      BY <1>8, <3>1
    <3> QED
      BY <2>1, <2>2, <3>2
  <2>4. CASE ~Mine(c, e)
    <3>1. left[c][e] = conn[c][e]
      BY <1>6, <2>4
    <3>2. EndOK(c, e, conn[c][e], id')
      <4>1. EndOK(c, e, conn[c][e], id)
        BY <1>5
      <4>2. e = "out" => id'[c[1]] = id[c[1]]
        <5>1. e = "out" => c[1] # n
          BY <2>4 DEF Owner
        <5>2. c[1] \in Node
          BY DEF Connection
        <5> QED
          BY <1>1, <1>3, <5>1, <5>2
      <4> QED
        BY <4>1, <4>2 DEF EndOK
    <3>3. conn'[c][e] \in {conn[c][e], End("connecting", NoId)}
      BY <1>8, <3>1
    <3> QED
      BY <2>1, <2>2, <3>2, <3>3
  <2> QED
    BY <2>3, <2>4
<1>10. ConnInv'
  BY <1>8, <1>9 DEF ConnInv, ConnShape
<1>11. OneSocketPerPeer'
  BY <1>9, NoNewPeers DEF IInv
<1> QED
  BY <1>2, <1>4, <1>10, <1>11 DEF IInv

LEMMA InitStep ==
  ASSUME Init
  PROVE  IInv
<1> DEFINE dialled == [NoConnection EXCEPT !.out = End("connecting", NoId)]
<1>1. TableInv
  <2>1. /\ DOMAIN table = Node /\ DOMAIN backoff = Node /\ DOMAIN failing = Node
        /\ \A n \in Node : /\ table[n] \in FreshTables(n, <<>>)
                           /\ backoff[n] = {} /\ failing[n] = {}
    BY DEF Init
  <2>2. \A n \in Node : TableOK(n, table[n])
    BY <2>1, FirstOK
  <2> QED
    BY <2>1, <2>2 DEF TableInv
<1>2. IdInv
  <2>1. id \in [Node -> NodeIds]
    BY PeeringAssumption DEF Init
  <2>2. spare = NodeIds \ Range(id)
    BY DEF Init
  <2>3. \A n \in Node : id[n] \in Range(id)
    BY <2>1 DEF Range
  <2> QED
    BY <2>1, <2>2, <2>3 DEF IdInv
<1>3. /\ DOMAIN conn = Connection
      /\ \A c \in Connection : conn[c] = dialled \/ conn[c] = NoConnection
  BY DEF Init
<1>4. /\ DOMAIN dialled = {"out", "in", "up"}
      /\ DOMAIN NoConnection = {"out", "in", "up"}
      /\ dialled["out"] = End("connecting", NoId)
      /\ dialled["in"] = NoEnd
      /\ NoConnection["out"] = NoEnd /\ NoConnection["in"] = NoEnd
  BY DEF NoConnection
<1> HIDE DEF dialled
<1>5. ASSUME NEW c \in Connection, NEW e \in Ends
      PROVE  EndOK(c, e, conn[c][e], id) /\ conn[c][e].peer = NoId
  <2>1. conn[c][e] \in {NoEnd, End("connecting", NoId)}
    BY <1>3, <1>4 DEF Ends
  <2>2. /\ EndOK(c, e, NoEnd, id) /\ NoEnd.peer = NoId
        /\ EndOK(c, e, End("connecting", NoId), id)
        /\ End("connecting", NoId).peer = NoId
    BY DEF EndOK, EndType, NoEnd, End
  <2> QED
    BY <2>1, <2>2
<1>6. ConnInv
  BY <1>3, <1>4, <1>5 DEF ConnInv, ConnShape
<1>7. OneSocketPerPeer
  BY <1>5 DEF OneSocketPerPeer, Handshaken, IsHandshaken
<1> QED
  BY <1>1, <1>2, <1>6, <1>7 DEF IInv

LEMMA NextStep ==
  ASSUME IInv, [Next]_vars
  PROVE  IInv'
<1>1. ASSUME NEW n \in Node, Maintain(n)
      PROVE  IInv'
  BY <1>1, MaintainStep
<1>2. ASSUME NEW n \in Node, BackoffOver(n)
      PROVE  IInv'
  BY <1>2, BackoffOverStep
<1>3. ASSUME NEW n \in Node, Restart(n)
      PROVE  IInv'
  BY <1>3, RestartStep
<1>4. ASSUME NEW c \in Connection, Break(c)
      PROVE  IInv'
  BY <1>4, BreakStep
<1>5. ASSUME NEW c \in Connection, NEW e \in Ends, EndEvent(c, e)
      PROVE  IInv'
  <2>1. CASE Opened(c)
    BY <2>1, OpenedStep
  <2>2. CASE Refused(c)
    BY <2>2, RefusedStep
  <2>3. CASE RejectHello(c, e)
    BY <2>3, RejectHelloStep
  <2>4. CASE RejectDuplicate(c, e)
    BY <2>4, RejectDuplicateStep
  <2>5. CASE AcceptHello(c, e)
    BY <2>5, AcceptHelloStep
  <2>6. CASE LearnPeers(c, e)
    BY <2>6, LearnPeersStep
  <2>7. CASE Heartbeat(c, e)
    BY <2>7, TimeoutStep
  <2>8. CASE Closed(c, e)
    BY <2>8, ClosedStep
  <2> QED
    BY <1>5, <2>1, <2>2, <2>3, <2>4, <2>5, <2>6, <2>7, <2>8
    DEF EndEvent, HandleHello
<1>6. ASSUME NEW c \in Connection, NEW e \in Ends, HandshakeTimeout(c, e)
      PROVE  IInv'
  BY <1>6, TimeoutStep
<1>7. CASE UNCHANGED vars
  <2>1. UNCHANGED <<conn, table, backoff, id, spare, failing>>
    BY <1>7 DEF vars
  <2>2. TableInv' /\ IdInv'
    BY <2>1, TablesKept DEF IInv, IdInv
  <2>3. ConnInv' /\ OneSocketPerPeer'
    BY <2>1 DEF IInv, ConnInv, ConnShape, OneSocketPerPeer, Handshaken,
                IsHandshaken, Owner
  <2> QED
    BY <2>2, <2>3 DEF IInv
<1> QED
  BY <1>1, <1>2, <1>3, <1>4, <1>5, <1>6, <1>7 DEF Next

-----------------------------------------------------------------------------
(* Theorems                                                                *)

LEMMA Inductive == Spec => []IInv
<1>1. Init => IInv
  BY InitStep
<1>2. IInv /\ [Next]_vars => IInv'
  BY NextStep
<1> QED
  BY <1>1, <1>2, PTL DEF Spec

\* Ends, tables, backoff sets and identifiers have their shapes.
THEOREM PeeringTypes == Spec => []TypeOK
<1>1. IInv => TypeOK
  <2> SUFFICES ASSUME IInv
               PROVE  TypeOK
    OBVIOUS
  <2>1. ASSUME NEW c \in Connection, NEW e \in Ends
        PROVE  /\ conn[c][e].st \in {"none", "connecting", "open", "closing"}
               /\ conn[c][e].peer \in NodeIds \cup {NoId}
               /\ conn[c][e].hello \in NodeIds \cup {NoId}
               /\ conn[c][e].st \in {"none", "connecting"} =>
                    conn[c][e] = End(conn[c][e].st, NoId)
    <3>1. EndOK(c, e, conn[c][e], id)
      BY DEF IInv, ConnInv
    <3> QED
      BY <3>1 DEF EndOK, EndType
  <2>2. ASSUME NEW n \in Node
        PROVE  /\ DOMAIN table[n].entries \subseteq Address
               /\ backoff[n] \subseteq Address
               /\ id[n] \in NodeIds \ spare
    BY DEF IInv, TableInv, TableOK, IdInv
  <2> QED
    BY <2>1, <2>2 DEF TypeOK
<1> QED
  BY <1>1, Inductive, PTL

\* A table never outgrows its limit or its bootnodes, keeps its bootnodes
\* unless they were blocked, and holds no blocked address.
THEOREM TablesStaySound == Spec => []TableSound
<1>1. IInv => TableSound
  BY DEF IInv, TableInv, TableOK, TableSound
<1> QED
  BY <1>1, Inductive, PTL

\* What a node hands out to its peers is never itself, an address where nobody
\* listens or a node of another network: only an answer to our own dial makes
\* an address worth sharing, and it is kept across restarts.
THEOREM SharedIsReachable == Spec => []SharedReachable
<1>1. IInv => SharedReachable
  BY DEF IInv, TableInv, TableOK, SharedReachable, Verified, Useful
<1> QED
  BY <1>1, Inductive, PTL

\* An address whose latest dial failed is not handed out by that process.
THEOREM SharedIsHealthy == Spec => []SharedHealthy
<1>1. IInv => SharedHealthy
  BY DEF IInv, TableInv, SharedHealthy
<1> QED
  BY <1>1, Inductive, PTL

\* A node never holds two connections it means to keep to the same process,
\* in whatever order the HELLOs of crossing dials are handled.
THEOREM PeersHaveOneSocket == Spec => []OneSocketPerPeer
<1>1. IInv => OneSocketPerPeer
  BY DEF IInv
<1> QED
  BY <1>1, Inductive, PTL

-----------------------------------------------------------------------------
(* Which of two sockets is closed: the invariant                           *)

Suited(c) == Compatible(c[1], ListensAt[c[2]])

\* Against a connection that was dialled from the other side, c loses.
Loses(c, ids) == Suited(c) => ids[c[1]] > ids[ListensAt[c[2]]]

\* An identifier that end e of c has read is that of the node at the other end,
\* or of a process that is no more.
Names(c, e, v, h, ids, sp) ==
  \/ h = NoId
  \/ h = ids[Owner(c, Other(e))]
  \/ v[Other(e)].st = "none" /\ h \notin Range(ids) \cup sp

\* As long as both ends of c are there, one that was closed on purpose was
\* closed because c loses; and if nothing goes wrong, whoever dialled c and has
\* left it to the other end did so for this reason.
PairOK(c, v, ids, sp) ==
  /\ \A e \in Ends :
       /\ Names(c, e, v, v[e].hello, ids, sp)
       /\ Names(c, e, v, v[e].peer, ids, sp)
       /\ v[Other(e)].st # "none" => /\ v[e].peer # NoId => Suited(c)
                                     /\ v[e].expectedClose => Loses(c, ids)
  /\ v.out.st = "connecting" => v.in = NoEnd
  /\ MaxFaults = 0 =>
       /\ v.up
       /\ \A e \in Ends : v[e].st = "closing" => v[e].expectedClose
       /\ (/\ v.out.st = "none" /\ v.in.st = "open"
           /\ ids[c[1]] \in {v.in.hello, v.in.peer}) => Loses(c, ids)

PairsOK(cs, ids, sp) == \A c \in Connection : PairOK(c, cs[c], ids, sp)

\* A node has no two dials, or sockets it dialled, to one address.
DialsOnce(cs) ==
  \A c, d \in Connection :
    (/\ c[1] = d[1] /\ c[2] = d[2]
     /\ cs[c].out.st # "none" /\ cs[d].out.st # "none") => c = d

\* Only oneself and nodes of other networks are blocked.
BlockedJustly(n, blocked) ==
  \A a \in blocked :
    \/ a = OwnAddress(n)
    \/ a \in Address /\ ListensAt[a] \in Node /\ ~Compatible(n, ListensAt[a])

SocketInv ==
  /\ PairsOK(conn, id, spare) /\ DialsOnce(conn)
  /\ \A n \in Node : BlockedJustly(n, table[n].blocked)
  /\ \A m, n \in Node : id[m] = id[n] => m = n
  /\ faults \in Nat

-----------------------------------------------------------------------------
(* One connection                                                          *)

\* What happens to an end while it is there: nothing; it is terminated, on
\* purpose only for a reason; its HELLO is lost, or accepted.
Changed(c, v, e, new, ids) ==
  \/ new = v[e]
  \/ /\ v[e].st \in {"open", "closing"} /\ new.st = "closing"
     /\ new.hello = NoId /\ new.peer = v[e].peer
     /\ MaxFaults = 0 => new.expectedClose
     /\ new.expectedClose =>
          v[e].expectedClose \/ (v[Other(e)].st # "none" => Loses(c, ids))
  \/ /\ v[e].st = "open" /\ new.st = "open" /\ new.hello = NoId
     /\ new.expectedClose => v[e].expectedClose
     /\ \/ new.peer = v[e].peer
        \/ new.peer = v[e].hello /\ (v[Other(e)].st # "none" => Suited(c))

LEMMA PairChanges ==
  ASSUME NEW c, NEW v, NEW w, NEW ids, NEW sp, PairOK(c, v, ids, sp),
         ids[c[1]] # NoId,
         w.up = v.up \/ MaxFaults # 0,
         \A e \in Ends : Changed(c, v, e, w[e], ids)
  PROVE  PairOK(c, w, ids, sp)
<1>1. "out" \in Ends /\ "in" \in Ends /\ \A e \in Ends : Other(e) \in Ends
  BY DEF Ends, Other
<1>2. \A e \in Ends : w[e].st = "none" <=> v[e].st = "none"
  BY DEF Changed
<1>3. ASSUME NEW e \in Ends
      PROVE  /\ Names(c, e, w, w[e].hello, ids, sp)
             /\ Names(c, e, w, w[e].peer, ids, sp)
             /\ w[Other(e)].st # "none" => /\ w[e].peer # NoId => Suited(c)
                                           /\ w[e].expectedClose => Loses(c, ids)
  <2>1. /\ Names(c, e, v, v[e].hello, ids, sp)
        /\ Names(c, e, v, v[e].peer, ids, sp)
        /\ v[Other(e)].st # "none" => /\ v[e].peer # NoId => Suited(c)
                                      /\ v[e].expectedClose => Loses(c, ids)
    BY DEF PairOK
  <2>2. w[Other(e)].st = "none" <=> v[Other(e)].st = "none"
    BY <1>1, <1>2
  <2>3. Changed(c, v, e, w[e], ids)
    OBVIOUS
  <2>4. /\ w[e].hello \in {NoId, v[e].hello}
        /\ w[e].peer \in {v[e].peer, v[e].hello}
    BY <2>3 DEF Changed
  <2>5. /\ Names(c, e, w, w[e].hello, ids, sp)
        /\ Names(c, e, w, w[e].peer, ids, sp)
    BY <2>1, <2>2, <2>4 DEF Names
  <2>6. ASSUME w[Other(e)].st # "none"
        PROVE  /\ w[e].peer # NoId => Suited(c)
               /\ w[e].expectedClose => Loses(c, ids)
    BY <2>1, <2>2, <2>3, <2>6 DEF Changed
  <2> QED
    BY <2>5, <2>6
<1>4. w.out.st = "connecting" => w.in = NoEnd
  <2>1. ASSUME w.out.st = "connecting"
        PROVE  w.in = NoEnd
    <3>1. Changed(c, v, "out", w.out, ids) /\ Changed(c, v, "in", w.in, ids)
      BY <1>1
    <3>2. v.out.st = "connecting"
      BY <2>1, <3>1 DEF Changed
    <3>3. v.in = NoEnd /\ v.in.st = "none"
      BY <3>2 DEF PairOK, NoEnd, End
    <3> QED
      BY <3>1, <3>3 DEF Changed
  <2> QED
    BY <2>1
<1>5. ASSUME MaxFaults = 0
      PROVE  /\ w.up
             /\ \A e \in Ends : w[e].st = "closing" => w[e].expectedClose
             /\ (/\ w.out.st = "none" /\ w.in.st = "open"
                 /\ ids[c[1]] \in {w.in.hello, w.in.peer}) => Loses(c, ids)
  <2>1. /\ v.up
        /\ \A e \in Ends : v[e].st = "closing" => v[e].expectedClose
        /\ (/\ v.out.st = "none" /\ v.in.st = "open"
            /\ ids[c[1]] \in {v.in.hello, v.in.peer}) => Loses(c, ids)
    BY <1>5 DEF PairOK
  <2>2. w.up
    BY <1>5, <2>1
  <2>3. ASSUME NEW e \in Ends, w[e].st = "closing"
        PROVE  w[e].expectedClose
    <3>1. Changed(c, v, e, w[e], ids)
      OBVIOUS
    <3> QED
      BY <1>5, <2>1, <2>3, <3>1 DEF Changed
  <2>4. ASSUME w.out.st = "none", w.in.st = "open",
               ids[c[1]] \in {w.in.hello, w.in.peer}
        PROVE  Loses(c, ids)
    <3>1. v.out.st = "none"
      BY <1>1, <1>2, <2>4
    <3>2. Changed(c, v, "in", w.in, ids)
      BY <1>1
    <3>3. v.in.st = "open" /\ ids[c[1]] \in {v.in.hello, v.in.peer}
      BY <2>4, <3>2 DEF Changed
    <3> QED
      BY <2>1, <3>1, <3>3
  <2> QED
    BY <2>2, <2>3, <2>4
<1> QED
  BY <1>3, <1>4, <1>5 DEF PairOK

\* A dial, and a free name.
LEMMA PairFresh ==
  ASSUME NEW c, NEW ids, NEW sp,
         NEW w \in {NoConnection,
                    [NoConnection EXCEPT !.out = End("connecting", NoId)]}
  PROVE  PairOK(c, w, ids, sp)
<1>1. /\ w.out.st \in {"none", "connecting"} /\ w.out.hello = NoId
      /\ w.out.peer = NoId /\ ~w.out.expectedClose
      /\ w.in = NoEnd /\ w.in.st = "none" /\ w.in.hello = NoId
      /\ w.in.peer = NoId /\ ~w.in.expectedClose
      /\ w.up
  <2>1. CASE w = NoConnection
    BY <2>1 DEF NoConnection, NoEnd, End
  <2>2. CASE w = [NoConnection EXCEPT !.out = End("connecting", NoId)]
    <3>1. /\ w.out = End("connecting", NoId) /\ w.in = NoEnd /\ w.up = TRUE
      BY <2>2 DEF NoConnection
    <3> QED
      BY <3>1 DEF NoEnd, End
  <2> QED
    BY <2>1, <2>2
<1> QED
  BY <1>1 DEF PairOK, Names, Ends

\* The 'close' event of an end.  If nothing goes wrong the dialler closes a
\* socket that the other end has not closed for one reason only.
LEMMA PairGone ==
  ASSUME NEW c, NEW v, NEW w, NEW ids, NEW sp, NEW e \in Ends,
         PairOK(c, v, ids, sp),
         \/ v[e].st = "closing"
         \/ v[e].st = "open" /\ v[Other(e)].st \in {"closing", "none"}
         \/ v[e].st = "connecting" /\ e = "out",
         w[e] = NoEnd, w[Other(e)] = v[Other(e)], w.up = v.up
  PROVE  PairOK(c, w, ids, sp)
<1>1. /\ NoEnd.st = "none" /\ NoEnd.hello = NoId /\ NoEnd.peer = NoId
      /\ ~NoEnd.expectedClose
  BY DEF NoEnd, End
<1>2. ASSUME NEW f \in Ends
      PROVE  /\ Names(c, f, w, w[f].hello, ids, sp)
             /\ Names(c, f, w, w[f].peer, ids, sp)
             /\ w[Other(f)].st # "none" => /\ w[f].peer # NoId => Suited(c)
                                           /\ w[f].expectedClose => Loses(c, ids)
  <2>1. CASE f = e
    BY <1>1, <2>1 DEF Names
  <2>2. CASE f # e
    <3>1. f = Other(e) /\ Other(f) = e
      BY <2>2 DEF Ends, Other
    <3>2. w[f] = v[f] /\ w[Other(f)].st = "none"
      BY <1>1, <3>1
    <3>3. /\ Names(c, f, v, v[f].hello, ids, sp)
          /\ Names(c, f, v, v[f].peer, ids, sp)
      BY DEF PairOK
    <3> QED
      BY <3>2, <3>3 DEF Names
  <2> QED
    BY <2>1, <2>2
<1>3. CASE e = "out"
  <2>1. w.out = NoEnd /\ w.in = v.in /\ Other(e) = "in"
    BY <1>3 DEF Other
  <2>2. ASSUME MaxFaults = 0, v.in.st = "open"
        PROVE  Loses(c, ids)
    <3>1. v.out.st = "closing"
      BY <1>1, <1>3, <2>1, <2>2 DEF PairOK
    <3>2. v.out.expectedClose
      BY <2>2, <3>1 DEF PairOK, Ends
    <3> QED
      BY <2>2, <3>2 DEF PairOK, Ends, Other
  <2>3. MaxFaults = 0 =>
          /\ v.up
          /\ \A f \in Ends : v[f].st = "closing" => v[f].expectedClose
    BY DEF PairOK
  <2>4. MaxFaults = 0 =>
          /\ w.up
          /\ \A f \in Ends : w[f].st = "closing" => w[f].expectedClose
    BY <1>1, <2>1, <2>3 DEF Ends
  <2> QED
    BY <1>1, <1>2, <2>1, <2>2, <2>4 DEF PairOK
<1>4. CASE e = "in"
  <2>1. w.in = NoEnd /\ w.out = v.out
    BY <1>4 DEF Other
  <2>2. MaxFaults = 0 =>
          /\ v.up
          /\ \A f \in Ends : v[f].st = "closing" => v[f].expectedClose
    BY DEF PairOK
  <2>3. MaxFaults = 0 =>
          /\ w.up
          /\ \A f \in Ends : w[f].st = "closing" => w[f].expectedClose
    BY <1>1, <2>1, <2>2 DEF Ends
  <2> QED
    BY <1>1, <1>2, <2>1, <2>3 DEF PairOK
<1> QED
  BY <1>3, <1>4 DEF Ends

\* Both ends are about to read who the other is.
LEMMA PairOpened ==
  ASSUME NEW c, NEW v, NEW w, NEW ids, NEW sp, PairOK(c, v, ids, sp),
         w.out = End("open", ids[ListensAt[c[2]]]),
         w.in = End("open", ids[c[1]]), w.up = v.up
  PROVE  PairOK(c, w, ids, sp)
<1>1. /\ w.out.st = "open" /\ w.out.hello = ids[ListensAt[c[2]]]
      /\ w.out.peer = NoId /\ ~w.out.expectedClose
      /\ w.in.st = "open" /\ w.in.hello = ids[c[1]]
      /\ w.in.peer = NoId /\ ~w.in.expectedClose
  BY DEF End
<1>2. ASSUME NEW e \in Ends
      PROVE  /\ w[e].st = "open" /\ w[e].hello = ids[Owner(c, Other(e))]
             /\ w[e].peer = NoId /\ ~w[e].expectedClose
  BY <1>1 DEF Ends, Owner, Other
<1>3. MaxFaults = 0 => w.up
  BY DEF PairOK
<1> QED
  BY <1>1, <1>2, <1>3 DEF PairOK, Names

\* Node n dies and starts again as i: what it left behind is of a process that
\* is no more, and it is none of those who dialled as i.
LEMMA PairRestarted ==
  ASSUME NEW c \in Connection, NEW v, NEW w, NEW n \in Node, NEW i \in spare,
         NEW ids, NEW sp, IdInv, PairOK(c, v, id, spare),
         \A l, m \in Node : id[l] = id[m] => l = m,
         \A e \in Ends : EndOK(c, e, v[e], id),
         \A e \in Ends : w[e] = IF Owner(c, e) = n THEN NoEnd ELSE v[e],
         w.up = v.up,
         ids = [id EXCEPT ![n] = i], sp = spare \ {i}
  PROVE  PairOK(c, w, ids, sp)
<1>1. /\ id \in [Node -> NodeIds] /\ spare \subseteq NodeIds
      /\ \A k \in Node : id[k] \notin spare
      /\ NoId \notin NodeIds
  BY PeeringAssumption DEF IdInv
<1>2. /\ DOMAIN ids = Node /\ DOMAIN id = Node
      /\ ids[n] = i
      /\ \A k \in Node : k # n => ids[k] = id[k]
      /\ i \in NodeIds /\ i # NoId
  BY <1>1
<1>3. Range(ids) \cup sp \subseteq Range(id) \cup spare
  BY <1>2 DEF Range
<1>4. id[n] \notin Range(ids) \cup sp
  <2>1. id[n] \notin sp /\ id[n] # i
    BY <1>1
  <2>2. \A k \in Node : ids[k] # id[n]
    BY <1>2, <2>1
  <2> QED
    BY <1>2, <2>1, <2>2 DEF Range
<1>5. /\ NoEnd.st = "none" /\ NoEnd.hello = NoId /\ NoEnd.peer = NoId
      /\ ~NoEnd.expectedClose
  BY DEF NoEnd, End
<1>6. c[1] \in Node /\ "out" \in Ends /\ "in" \in Ends
  BY DEF Connection, Ends
<1>7. ASSUME NEW e \in Ends, Owner(c, e) # n
      PROVE  /\ w[e] = v[e]
             /\ \/ Owner(c, Other(e)) \in Node
                \/ /\ v[e].hello = NoId /\ v[e].peer = NoId
                   /\ ~v[e].expectedClose
  <2>1. EndOK(c, e, v[e], id)
    OBVIOUS
  <2>2. CASE v[e].st \in {"none", "connecting"}
    <3>1. v[e] = End(v[e].st, NoId)
      BY <2>1, <2>2 DEF EndOK
    <3>2. /\ End(v[e].st, NoId).hello = NoId /\ End(v[e].st, NoId).peer = NoId
          /\ ~End(v[e].st, NoId).expectedClose
      BY DEF End
    <3> QED
      BY <1>7, <3>1, <3>2
  <2>3. CASE v[e].st \in {"open", "closing"}
    <3>1. ListensAt[c[2]] \in Node
      BY <2>1, <2>3 DEF EndOK
    <3> QED
      BY <1>6, <1>7, <3>1 DEF Owner, Other, Ends
  <2> QED
    BY <2>1, <2>2, <2>3 DEF EndOK, EndType
<1>8. ASSUME NEW e \in Ends, Owner(c, e) # n, NEW h \in {v[e].hello, v[e].peer}
      PROVE  Names(c, e, w, h, ids, sp)
  <2>1. Names(c, e, v, h, id, spare)
    BY DEF PairOK
  <2>2. Other(e) \in Ends
    BY DEF Ends, Other
  <2>3. CASE h = NoId
    BY <2>3 DEF Names
  <2>4. CASE h # NoId /\ Owner(c, Other(e)) = n
    <3>1. w[Other(e)].st = "none"
      BY <1>5, <2>2, <2>4
    <3>2. h \notin Range(ids) \cup sp
      BY <1>3, <1>4, <2>1, <2>4 DEF Names
    <3> QED
      BY <3>1, <3>2 DEF Names
  <2>5. CASE h # NoId /\ Owner(c, Other(e)) # n
    <3>1. Owner(c, Other(e)) \in Node
      BY <1>7, <1>8, <2>5
    <3>2. /\ ids[Owner(c, Other(e))] = id[Owner(c, Other(e))]
          /\ w[Other(e)] = v[Other(e)]
      BY <1>2, <2>2, <2>5, <3>1
    <3> QED
      BY <1>3, <2>1, <3>2 DEF Names
  <2> QED
    BY <2>3, <2>4, <2>5
<1>9. ASSUME NEW e \in Ends
      PROVE  /\ Names(c, e, w, w[e].hello, ids, sp)
             /\ Names(c, e, w, w[e].peer, ids, sp)
             /\ w[Other(e)].st # "none" => /\ w[e].peer # NoId => Suited(c)
                                           /\ w[e].expectedClose => Loses(c, ids)
  <2>1. CASE Owner(c, e) = n
    BY <1>5, <2>1 DEF Names
  <2>2. CASE Owner(c, e) # n
    <3>1. w[e] = v[e]
      BY <2>2
    <3>2. ASSUME w[Other(e)].st # "none"
          PROVE  /\ w[e].peer # NoId => Suited(c)
                 /\ w[e].expectedClose => Loses(c, ids)
      <4>1. Other(e) \in Ends
        BY DEF Ends, Other
      <4>2. Owner(c, Other(e)) # n /\ w[Other(e)] = v[Other(e)]
        BY <1>5, <3>2, <4>1
      <4>3. /\ w[e].peer # NoId => Suited(c)
            /\ w[e].expectedClose => Loses(c, id)
        BY <3>1, <3>2, <4>2 DEF PairOK
      <4>4. ASSUME w[e].expectedClose
            PROVE  Loses(c, ids)
        <5>1. Owner(c, Other(e)) \in Node
          BY <1>7, <2>2, <3>1, <4>4
        <5>2. c[1] # n /\ ListensAt[c[2]] # n
          BY <2>2, <4>2 DEF Owner, Other, Ends
        <5>3. ListensAt[c[2]] \in Node
          <6>1. EndOK(c, e, v[e], id)
            OBVIOUS
          <6>2. v[e].st \in {"open", "closing"}
            BY <3>1, <4>4, <6>1 DEF EndOK, EndType, End
          <6> QED
            BY <6>1, <6>2 DEF EndOK
        <5>4. ids[c[1]] = id[c[1]] /\ ids[ListensAt[c[2]]] = id[ListensAt[c[2]]]
          BY <1>2, <1>6, <5>2, <5>3
        <5> QED
          BY <4>3, <4>4, <5>4 DEF Loses
      <4> QED
        BY <4>3, <4>4
    <3> QED
      BY <1>8, <2>2, <3>1, <3>2
  <2> QED
    BY <2>1, <2>2
<1>10. w.out.st = "connecting" => w.in = NoEnd
  <2>1. ASSUME w.out.st = "connecting"
        PROVE  w.in = NoEnd
    <3>1. w.out = v.out
      BY <1>5, <1>6, <2>1
    <3>2. v.in = NoEnd
      BY <2>1, <3>1 DEF PairOK
    <3> QED
      BY <1>6, <3>2
  <2> QED
    BY <2>1
<1>11. ASSUME MaxFaults = 0
       PROVE  /\ w.up
              /\ \A e \in Ends : w[e].st = "closing" => w[e].expectedClose
              /\ (/\ w.out.st = "none" /\ w.in.st = "open"
                  /\ ids[c[1]] \in {w.in.hello, w.in.peer}) => Loses(c, ids)
  <2>1. /\ v.up
        /\ \A e \in Ends : v[e].st = "closing" => v[e].expectedClose
        /\ (/\ v.out.st = "none" /\ v.in.st = "open"
            /\ id[c[1]] \in {v.in.hello, v.in.peer}) => Loses(c, id)
    BY <1>11 DEF PairOK
  <2>2. \A e \in Ends : w[e].st = "closing" => w[e].expectedClose
    BY <1>5, <2>1
  <2>3. ASSUME w.out.st = "none", w.in.st = "open",
               ids[c[1]] \in {w.in.hello, w.in.peer}
        PROVE  Loses(c, ids)
    <3>1. Owner(c, "in") # n /\ w.in = v.in
      BY <1>5, <1>6, <2>3
    <3>2. c[1] # n
      <4>1. ASSUME c[1] = n
            PROVE  FALSE
        <5>1. i \in {v.in.hello, v.in.peer}
          BY <1>2, <2>3, <3>1, <4>1
        <5>2. Names(c, "in", v, i, id, spare)
          BY <1>6, <5>1 DEF PairOK
        <5>3. Owner(c, Other("in")) = n
          BY <4>1 DEF Owner, Other
        <5> QED
          BY <1>1, <1>2, <5>2, <5>3 DEF Names
      <4> QED
        BY <4>1
    <3>3. w.out = v.out
      BY <1>6, <3>2 DEF Owner
    <3>4. ids[c[1]] = id[c[1]]
      BY <1>2, <1>6, <3>2
    <3>5. Loses(c, id)
      BY <2>1, <2>3, <3>1, <3>3, <3>4
    <3>6. ListensAt[c[2]] \in Node /\ ListensAt[c[2]] # n
      <4>1. EndOK(c, "in", v.in, id)
        BY <1>6
      <4> QED
        BY <2>3, <3>1, <4>1 DEF EndOK, Owner
    <3>7. ids[ListensAt[c[2]]] = id[ListensAt[c[2]]]
      BY <1>2, <3>6
    <3> QED
      BY <3>4, <3>5, <3>7 DEF Loses
  <2> QED
    BY <2>1, <2>2, <2>3
<1> QED
  BY <1>9, <1>10, <1>11 DEF PairOK

-----------------------------------------------------------------------------
(* All connections                                                         *)

\* maintainConnections dials an address once.
LEMMA MaintainDials ==
  ASSUME NEW cs, DialsOnce(cs), NEW ids, NEW sp, PairsOK(cs, ids, sp),
         NEW n, NEW t, NEW w,
         NEW ds, ds = MaintainConnections(cs, n, t, w)
  PROVE  DialsOnce(ds) /\ PairsOK(ds, ids, sp)
<1> DEFINE dialled == [NoConnection EXCEPT !.out = End("connecting", NoId)]
           Dialled(c) == /\ cs[c] = NoConnection /\ ds[c] = dialled
                         /\ \A k \in Copy : cs[<<c[1], c[2], k>>].out.st = "none"
                         /\ \A k \in Copy : cs[<<c[1], c[2], k>>] = NoConnection
                                              => c[3] <= k
<1>1. ASSUME NEW c \in Connection
      PROVE  c = <<c[1], c[2], c[3]>> /\ c[3] \in Copy /\ c[3] \in Nat
  <2>1. c = <<c[1], c[2], c[3]>> /\ c[3] \in Copy
    BY DEF Connection
  <2>2. Copy \subseteq Nat
    BY PeeringAssumption
  <2> QED
    BY <2>1, <2>2
<1>2. ASSUME NEW c \in Connection
      PROVE  ds[c] = cs[c] \/ Dialled(c)
  <2> DEFINE dials   == Dialable(cs, n, t, w)
             Free(a) == {k \in Copy : cs[<<n, a, k>>] = NoConnection}
  <2>1. ds[c] = IF /\ c[1] = n
                   /\ c[2] \in dials
                   /\ c[3] \in Free(c[2])
                   /\ \A k \in Free(c[2]) : c[3] <= k
                THEN dialled
                ELSE cs[c]
    BY DEF MaintainConnections
  <2>2. ASSUME c[1] = n, c[2] \in dials, c[3] \in Free(c[2]),
               \A k \in Free(c[2]) : c[3] <= k
        PROVE  Dialled(c)
    <3>1. ds[c] = dialled
      BY <2>1, <2>2
    <3>2. cs[c] = NoConnection
      BY <1>1, <2>2
    <3>3. \A k \in Copy : cs[<<c[1], c[2], k>>].out.st = "none"
      BY <2>2 DEF Dialable, IsDialing
    <3> QED
      BY <2>2, <3>1, <3>2, <3>3
  <2> QED
    BY <2>1, <2>2
<1>3. PairsOK(ds, ids, sp)
  <2>1. ASSUME NEW c \in Connection
        PROVE  PairOK(c, ds[c], ids, sp)
    <3>1. CASE ds[c] = cs[c]
      BY <3>1 DEF PairsOK
    <3>2. CASE Dialled(c)
      BY <3>2, PairFresh
    <3> QED
      BY <1>2, <3>1, <3>2
  <2> QED
    BY <2>1 DEF PairsOK
<1>4. ASSUME NEW c \in Connection, NEW d \in Connection,
             c[1] = d[1], c[2] = d[2],
             ds[c].out.st # "none", ds[d].out.st # "none"
      PROVE  c = d
  <2>1. c = <<c[1], c[2], c[3]>> /\ d = <<d[1], d[2], d[3]>>
    BY <1>1
  <2>2. CASE Dialled(c) /\ Dialled(d)
    <3>1. c[3] <= d[3] /\ d[3] <= c[3]
      BY <1>1, <1>4, <2>1, <2>2
    <3>2. c[3] = d[3]
      BY <1>1, <3>1
    <3> QED
      BY <1>4, <2>1, <3>2
  <2>3. CASE Dialled(c) /\ ds[d] = cs[d]
    <3>1. cs[d].out.st = "none"
      BY <1>1, <1>4, <2>1, <2>3
    <3> QED
      BY <1>4, <2>3, <3>1
  <2>4. CASE ds[c] = cs[c] /\ Dialled(d)
    <3>1. cs[c].out.st = "none"
      BY <1>1, <1>4, <2>1, <2>4
    <3> QED
      BY <1>4, <2>4, <3>1
  <2>5. CASE ds[c] = cs[c] /\ ds[d] = cs[d]
    BY <1>4, <2>5 DEF DialsOnce
  <2> QED
    BY <1>2, <2>2, <2>3, <2>4, <2>5
<1> QED
  BY <1>3, <1>4 DEF DialsOnce

\* A step at one connection, that is not a dial.
LEMMA PairStep ==
  ASSUME PairsOK(conn, id, spare), DialsOnce(conn), UNCHANGED <<id, spare>>,
         NEW c \in Connection,
         \A d \in Connection : d # c => conn'[d] = conn[d],
         PairOK(c, conn'[c], id, spare),
         conn'[c].out.st # "none" => conn[c].out.st # "none"
  PROVE  PairsOK(conn', id', spare') /\ DialsOnce(conn')
<1>1. \A d \in Connection : PairOK(d, conn'[d], id, spare)
  BY DEF PairsOK
<1>2. \A d \in Connection : conn'[d].out.st # "none" => conn[d].out.st # "none"
  OBVIOUS
<1>3. DialsOnce(conn')
  BY <1>2 DEF DialsOnce
<1>4. PairsOK(conn', id, spare)
  BY <1>1 DEF PairsOK
<1> QED
  BY <1>3, <1>4

\* Nobody has the identifier that stands for none.
LEMMA IdsAreIds ==
  ASSUME IdInv, NEW n \in Node
  PROVE  id[n] \in NodeIds /\ id[n] # NoId /\ id[n] \in Nat /\ id[n] \in Range(id)
<1>1. id \in [Node -> NodeIds] /\ NodeIds \subseteq Nat /\ NoId \notin NodeIds
  BY PeeringAssumption DEF IdInv
<1> QED
  BY <1>1 DEF Range

\* An end is terminated, on purpose only for a reason.
LEMMA MarkedStep ==
  ASSUME IInv, SocketInv, NEW c \in Connection, NEW e \in Ends,
         conn[c][e].st = "open", UNCHANGED <<id, spare>>,
         \/ /\ conn' = [conn EXCEPT ![c][e] = Terminated(@)]
            /\ MaxFaults # 0
         \/ /\ conn' = [conn EXCEPT ![c][e] = ClosedOnPurpose(@)]
            /\ conn[c][Other(e)].st # "none" => Loses(c, id)
  PROVE  PairsOK(conn', id', spare') /\ DialsOnce(conn')
<1>1. PICK new \in {Terminated(conn[c][e]), ClosedOnPurpose(conn[c][e])} :
        /\ conn' = [conn EXCEPT ![c][e] = new]
        /\ \/ new = Terminated(conn[c][e]) /\ MaxFaults # 0
           \/ /\ new = ClosedOnPurpose(conn[c][e])
              /\ conn[c][Other(e)].st # "none" => Loses(c, id)
  OBVIOUS
<1>2. /\ DOMAIN conn = Connection
      /\ \A d \in Connection : DOMAIN conn[d] = {"out", "in", "up"}
      /\ EndOK(c, e, conn[c][e], id)
  BY DEF IInv, ConnInv, ConnShape
<1>3. /\ \A d \in Connection : d # c => conn'[d] = conn[d]
      /\ conn'[c] = [conn[c] EXCEPT ![e] = new]
  BY <1>1, <1>2
<1>4. /\ conn'[c][e] = new
      /\ \A f \in Ends : f # e => conn'[c][f] = conn[c][f]
      /\ conn'[c].up = conn[c].up
  BY <1>2, <1>3 DEF Ends
<1>5. /\ new.st = "closing" /\ new.hello = NoId /\ new.peer = conn[c][e].peer
      /\ MaxFaults = 0 => new.expectedClose
      /\ new.expectedClose => \/ conn[c][e].expectedClose
                              \/ conn[c][Other(e)].st # "none" => Loses(c, id)
  <2>1. conn[c][e] \in EndType
    BY <1>2 DEF EndOK
  <2>2. CASE new = Terminated(conn[c][e]) /\ MaxFaults # 0
    BY <2>1, <2>2 DEF Terminated, EndType
  <2>3. CASE /\ new = ClosedOnPurpose(conn[c][e])
             /\ conn[c][Other(e)].st # "none" => Loses(c, id)
    BY <2>1, <2>3 DEF ClosedOnPurpose, Terminated, EndType
  <2> QED
    BY <1>1, <2>2, <2>3
<1>6. Changed(c, conn[c], e, conn'[c][e], id)
  BY <1>4, <1>5 DEF Changed
<1>7. \A f \in Ends : Changed(c, conn[c], f, conn'[c][f], id)
  BY <1>4, <1>6 DEF Changed
<1>8. PairOK(c, conn[c], id, spare) /\ id[c[1]] # NoId
  <2>1. c[1] \in Node
    BY DEF Connection
  <2> QED
    BY <2>1, IdsAreIds DEF IInv, SocketInv, PairsOK
<1>9. PairOK(c, conn'[c], id, spare)
  BY <1>4, <1>7, <1>8, PairChanges
<1>10. conn'[c].out.st # "none" => conn[c].out.st # "none"
  BY <1>4 DEF Ends
<1> QED
  BY <1>3, <1>9, <1>10, PairStep DEF SocketInv

\* An end is gone.
LEMMA GoneSocket ==
  ASSUME IInv, SocketInv, NEW c \in Connection, NEW e \in Ends,
         UNCHANGED <<id, spare>>, conn' = Gone(conn, c, e),
         \/ conn[c][e].st = "closing"
         \/ conn[c][e].st = "open" /\ conn[c][Other(e)].st \in {"closing", "none"}
         \/ conn[c][e].st = "connecting" /\ e = "out"
  PROVE  PairsOK(conn', id', spare') /\ DialsOnce(conn')
<1>1. /\ DOMAIN conn = Connection
      /\ \A d \in Connection : DOMAIN conn[d] = {"out", "in", "up"}
      /\ PairOK(c, conn[c], id, spare)
  BY DEF IInv, ConnInv, ConnShape, SocketInv, PairsOK
<1> DEFINE none == conn[c][Other(e)].st = "none"
<1>2. /\ \A d \in Connection : d # c => conn'[d] = conn[d]
      /\ conn'[c] = IF none THEN NoConnection ELSE [conn[c] EXCEPT ![e] = NoEnd]
  BY <1>1 DEF Gone
<1>3. PairOK(c, conn'[c], id, spare)
  <2>1. CASE none
    <3>1. conn'[c] = NoConnection
      BY <1>2, <2>1
    <3> QED
      BY <3>1, PairFresh
  <2>2. CASE ~none
    <3>1. /\ conn'[c][e] = NoEnd /\ conn'[c][Other(e)] = conn[c][Other(e)]
          /\ conn'[c].up = conn[c].up
      BY <1>1, <1>2, <2>2 DEF Ends, Other
    <3> QED
      BY <1>1, <3>1, PairGone
  <2> QED
    BY <2>1, <2>2
<1>4. conn'[c].out.st # "none" => conn[c].out.st # "none"
  <2>1. NoEnd.st = "none" /\ NoConnection.out = NoEnd
    BY DEF NoConnection, NoEnd, End
  <2>2. CASE none
    BY <1>2, <2>1, <2>2
  <2>3. CASE ~none
    <3>1. conn'[c].out \in {NoEnd, conn[c].out}
      BY <1>1, <1>2, <2>3 DEF Ends
    <3> QED
      BY <2>1, <3>1
  <2> QED
    BY <2>2, <2>3
<1> QED
  BY <1>2, <1>3, <1>4, PairStep DEF SocketInv

\* If the other end is still there, the HELLO is its owner's.
LEMMA HelloNames ==
  ASSUME IInv, SocketInv, NEW c \in Connection, NEW e \in Ends, HelloAt(c, e)
  PROVE  LET n == Owner(c, e)
             m == Owner(c, Other(e))
             h == conn[c][e].hello
         IN  /\ n \in Node /\ m \in Node
             /\ c[1] \in Node /\ c[2] \in Address /\ ListensAt[c[2]] \in Node
             /\ conn[c][e].st = "open" /\ h # NoId
             /\ h = id[m] \/ h \notin Range(id)
             /\ conn[c][Other(e)].st # "none" => h = id[m]
<1>1. conn[c][e].st = "open" /\ conn[c][e].hello # NoId
  BY DEF HelloAt
<1>2. /\ Owner(c, e) \in Node /\ Owner(c, Other(e)) \in Node
      /\ c[1] \in Node /\ c[2] \in Address /\ ListensAt[c[2]] \in Node
  BY <1>1, OwnerType DEF IInv
<1>3. Names(c, e, conn[c], conn[c][e].hello, id, spare)
  BY DEF SocketInv, PairsOK, PairOK
<1> QED
  BY <1>1, <1>2, <1>3 DEF Names

\* A HELLO is refused for what the two nodes are, which both ends agree upon.
LEMMA RejectedUnsuited ==
  ASSUME IInv, SocketInv, SeenTruly, NEW c \in Connection, NEW e \in Ends,
         HelloAt(c, e), ~Acceptable(c, e), conn[c][Other(e)].st # "none"
  PROVE  ~Suited(c)
<1> DEFINE n == Owner(c, e)
           m == Owner(c, Other(e))
<1>1. /\ n \in Node /\ m \in Node
      /\ c[1] \in Node /\ c[2] \in Address /\ ListensAt[c[2]] \in Node
      /\ conn[c][e].hello = id[m]
  BY HelloNames
<1>2. {n, m} = {c[1], ListensAt[c[2]]}
  BY DEF Owner, Other, Ends
<1>3. CASE IsSelf(c, e)
  <2>1. id[m] = id[n]
    BY <1>1, <1>3 DEF IsSelf
  <2>2. m = n
    BY <1>1, <2>1 DEF SocketInv
  <2> QED
    BY <1>2, <2>2 DEF Suited, Compatible
<1>4. CASE IsIncompatible(c, e)
  BY <1>2, <1>4 DEF IsIncompatible, Suited, Compatible
<1>5. CASE IsBlockedPeer(c, e)
  <2>1. CASE e = "out"
    <3>1. c[2] \in table[c[1]].blocked
      BY <1>5, <2>1 DEF IsBlockedPeer, AnnouncedAddress, Owner
    <3>2. c[2] # OwnAddress(c[1])
      BY DEF Connection
    <3> QED
      BY <1>1, <3>1, <3>2 DEF SocketInv, BlockedJustly, Suited
  <2>2. CASE e = "in"
    <3> DEFINE a == SeenAs[c[1]]
               l == ListensAt[c[2]]
    <3>1. a \in table[l].blocked
      BY <1>5, <2>2 DEF IsBlockedPeer, AnnouncedAddress, Owner
    <3>2. \/ a = OwnAddress(l)
          \/ ListensAt[a] \in Node /\ ~Compatible(l, ListensAt[a])
      BY <1>1, <3>1 DEF SocketInv, BlockedJustly
    <3>3. Suited(c) => /\ a # OwnAddress(l)
                       /\ ListensAt[a] \in Node => ListensAt[a] = c[1]
      BY <1>1 DEF Suited, SeenTruly
    <3>4. Suited(c) => Compatible(l, c[1])
      BY DEF Suited, Compatible
    <3> HIDE DEF a, l
    <3> QED
      BY <3>2, <3>3, <3>4
  <2> QED
    BY <2>1, <2>2 DEF Ends
<1> QED
  BY <1>3, <1>4, <1>5 DEF Acceptable

\* The blocklists after a step.
LEMMA BlockedStep ==
  ASSUME TableInv, \A k \in Node : BlockedJustly(k, table[k].blocked),
         NEW n \in Node, NEW t, table' = [table EXCEPT ![n] = t],
         BlockedJustly(n, t.blocked)
  PROVE  \A k \in Node : BlockedJustly(k, table'[k].blocked)
<1>1. DOMAIN table = Node
  BY DEF TableInv
<1>2. \A k \in Node : table'[k] = IF k = n THEN t ELSE table[k]
  BY <1>1
<1> QED
  BY <1>2

\* Only block adds to a blocklist.
LEMMA BlockedKept ==
  ASSUME NEW n \in Node, NEW t, TableOK(n, t), NEW a, NEW more, NEW boot
  PROVE  /\ Add(t, more).blocked = t.blocked
         /\ RecordSuccess(t, a).blocked = t.blocked
         /\ RecordFailure(t, a, boot).blocked = t.blocked
         /\ Block(t, a).blocked \subseteq t.blocked \cup {a}
<1>1. DOMAIN t = {"entries", "blocked"}
  BY DEF TableOK
<1>2. Without(t, a).blocked = t.blocked /\ DOMAIN Without(t, a) = {"entries", "blocked"}
  BY <1>1 DEF Without
<1>3. Add(t, more).blocked = t.blocked
  BY <1>1 DEF Add
<1>4. RecordSuccess(t, a).blocked = t.blocked
  BY <1>1 DEF RecordSuccess
<1>5. RecordFailure(t, a, boot).blocked = t.blocked
  BY <1>1, <1>2 DEF RecordFailure
<1>6. Block(t, a).blocked \subseteq t.blocked \cup {a}
  BY <1>2 DEF Block
<1> QED
  BY <1>3, <1>4, <1>5, <1>6

\* A process starts with its own address blocked, and nothing else.
LEMMA BlockedFresh ==
  ASSUME NEW n \in Node, NEW saved, NEW u \in FreshTables(n, saved)
  PROVE  BlockedJustly(n, u.blocked)
<1>1. PICK t \in NewTables(Normalized(Bootnodes[n]), saved) :
        u = Block(t, OwnAddress(n))
  BY DEF FreshTables
<1>2. t.blocked = {} /\ DOMAIN t = {"entries", "blocked"}
  BY DEF NewTables
<1>3. Without(t, OwnAddress(n)).blocked = {}
      /\ DOMAIN Without(t, OwnAddress(n)) = {"entries", "blocked"}
  BY <1>2 DEF Without
<1>4. u.blocked \subseteq {OwnAddress(n)}
  BY <1>1, <1>2, <1>3 DEF Block
<1> QED
  BY <1>4 DEF BlockedJustly

-----------------------------------------------------------------------------
(* Which of two sockets is closed: steps                                   *)

LEMMA SocketRest ==
  ASSUME SocketInv, UNCHANGED id, faults' \in {faults, faults + 1},
         PairsOK(conn', id', spare'), DialsOnce(conn'),
         \A k \in Node : BlockedJustly(k, table'[k].blocked)
  PROVE  SocketInv'
<1>1. faults' \in Nat
  BY DEF SocketInv
<1>2. \A m, n \in Node : id'[m] = id'[n] => m = n
  BY DEF SocketInv
<1> QED
  BY <1>1, <1>2 DEF SocketInv

LEMMA MaintainSocket ==
  ASSUME IInv, SocketInv, NEW n \in Node, Maintain(n)
  PROVE  SocketInv'
<1>1. /\ conn' = MaintainConnections(conn, n, table[n], backoff[n])
      /\ UNCHANGED <<table, id, spare, faults>>
  BY DEF Maintain
<1>2. PairsOK(conn', id, spare) /\ DialsOnce(conn')
  BY <1>1, MaintainDials DEF SocketInv
<1>3. PairsOK(conn', id', spare')
  BY <1>1, <1>2
<1> QED
  BY <1>1, <1>2, <1>3, SocketRest DEF SocketInv

LEMMA NoSocketStep ==
  ASSUME SocketInv, UNCHANGED <<conn, table, id, spare, faults>>
  PROVE  SocketInv'
<1>1. PairsOK(conn', id', spare') /\ DialsOnce(conn')
  BY DEF SocketInv
<1> QED
  BY <1>1, SocketRest DEF SocketInv

LEMMA TimeoutSocket ==
  ASSUME IInv, SocketInv, NEW c \in Connection, NEW e \in Ends,
         Heartbeat(c, e) \/ HandshakeTimeout(c, e)
  PROVE  SocketInv'
<1>1. /\ conn[c][e].st = "open"
      /\ conn' = [conn EXCEPT ![c][e] = Terminated(@)]
      /\ ~conn[c].up \/ faults < MaxFaults
      /\ faults' \in {faults, faults + 1}
      /\ UNCHANGED <<table, id, spare>>
  BY DEF Heartbeat, HandshakeTimeout
<1>2. MaxFaults # 0
  <2>1. MaxFaults = 0 => conn[c].up
    BY DEF SocketInv, PairsOK, PairOK
  <2>2. faults \in Nat
    BY DEF SocketInv
  <2> QED
    BY <1>1, <2>1, <2>2
<1>3. PairsOK(conn', id', spare') /\ DialsOnce(conn')
  BY <1>1, <1>2, MarkedStep
<1> QED
  BY <1>1, <1>3, SocketRest DEF SocketInv

LEMMA BreakSocket ==
  ASSUME IInv, SocketInv, NEW c \in Connection, Break(c)
  PROVE  SocketInv'
<1>1. /\ conn' = [conn EXCEPT ![c].up = FALSE, ![c].out.hello = NoId,
                              ![c].in.hello = NoId]
      /\ faults < MaxFaults /\ faults' = faults + 1
      /\ UNCHANGED <<table, id, spare>>
  BY DEF Break
<1>2. MaxFaults # 0
  <2>1. faults \in Nat
    BY DEF SocketInv
  <2> QED
    BY <1>1, <2>1
<1>3. /\ DOMAIN conn = Connection
      /\ \A d \in Connection : DOMAIN conn[d] = {"out", "in", "up"}
      /\ \A f \in Ends : EndOK(c, f, conn[c][f], id)
      /\ PairOK(c, conn[c], id, spare)
  BY DEF IInv, ConnInv, ConnShape, SocketInv, PairsOK
<1>4. /\ \A d \in Connection : d # c => conn'[d] = conn[d]
      /\ \A f \in Ends : conn'[c][f] = [conn[c][f] EXCEPT !.hello = NoId]
  BY <1>1, <1>3 DEF Ends
<1>5. ASSUME NEW f \in Ends
      PROVE  /\ Changed(c, conn[c], f, conn'[c][f], id)
             /\ conn'[c][f].st = conn[c][f].st
  <2> DEFINE old == conn[c][f]
             new == conn'[c][f]
  <2>1. EndOK(c, f, old, id) /\ new = [old EXCEPT !.hello = NoId]
    BY <1>3, <1>4
  <2>2. old \in EndType
    BY <2>1 DEF EndOK
  <2> HIDE DEF old, new
  <2>3. /\ new.st = old.st /\ new.peer = old.peer /\ new.hello = NoId
        /\ new.expectedClose => old.expectedClose
    BY <2>1, <2>2 DEF EndType
  <2>4. CASE old.st \in {"none", "connecting"}
    <3>1. old = End(old.st, NoId)
      BY <2>1, <2>4 DEF EndOK
    <3>2. new = old
      BY <2>1, <3>1 DEF End
    <3> QED
      BY <3>2 DEF Changed, old, new
  <2>5. CASE old.st \in {"open", "closing"}
    BY <1>2, <2>3, <2>5 DEF Changed, old, new
  <2> QED
    BY <2>2, <2>3, <2>4, <2>5 DEF EndType, old, new
<1>6. id[c[1]] # NoId
  <2>1. c[1] \in Node
    BY DEF Connection
  <2> QED
    BY <2>1, IdsAreIds DEF IInv
<1>7. PairOK(c, conn'[c], id, spare)
  BY <1>2, <1>3, <1>5, <1>6, PairChanges
<1>8. conn'[c].out.st # "none" => conn[c].out.st # "none"
  BY <1>5 DEF Ends
<1>9. PairsOK(conn', id', spare') /\ DialsOnce(conn')
  BY <1>1, <1>4, <1>7, <1>8, PairStep DEF SocketInv
<1> QED
  BY <1>1, <1>9, SocketRest DEF SocketInv

LEMMA OpenedSocket ==
  ASSUME IInv, SocketInv, NEW c \in Connection, Opened(c)
  PROVE  SocketInv'
<1>1. /\ conn[c].out.st = "connecting"
      /\ conn' = [conn EXCEPT ![c].out = End("open", id[ListensAt[c[2]]]),
                              ![c].in  = End("open", id[c[1]])]
      /\ UNCHANGED <<table, id, spare, faults>>
  BY DEF Opened
<1>2. /\ DOMAIN conn = Connection
      /\ \A d \in Connection : DOMAIN conn[d] = {"out", "in", "up"}
      /\ PairOK(c, conn[c], id, spare)
  BY DEF IInv, ConnInv, ConnShape, SocketInv, PairsOK
<1>3. /\ \A d \in Connection : d # c => conn'[d] = conn[d]
      /\ conn'[c].out = End("open", id[ListensAt[c[2]]])
      /\ conn'[c].in = End("open", id[c[1]])
      /\ conn'[c].up = conn[c].up
  BY <1>1, <1>2
<1>4. PairOK(c, conn'[c], id, spare)
  BY <1>2, <1>3, PairOpened
<1>5. PairsOK(conn', id', spare') /\ DialsOnce(conn')
  BY <1>1, <1>3, <1>4, PairStep DEF SocketInv
<1> QED
  BY <1>1, <1>5, SocketRest DEF SocketInv

LEMMA DialFailedBlocks ==
  ASSUME IInv, SocketInv, NEW n \in Node, NEW a, DialFailed(n, a)
  PROVE  \A k \in Node : BlockedJustly(k, table'[k].blocked)
<1> DEFINE t == RecordFailure(table[n], a, Normalized(Bootnodes[n]))
<1>1. table' = [table EXCEPT ![n] = t]
  BY DEF DialFailed
<1>2. TableOK(n, table[n])
  BY DEF IInv, TableInv
<1>3. t.blocked = table[n].blocked
  BY <1>2, BlockedKept
<1> HIDE DEF t
<1>4. BlockedJustly(n, t.blocked)
  BY <1>3 DEF SocketInv
<1> QED
  BY <1>1, <1>4, BlockedStep DEF IInv, SocketInv

LEMMA RefusedSocket ==
  ASSUME IInv, SocketInv, NEW c \in Connection, Refused(c)
  PROVE  SocketInv'
<1>1. /\ conn[c].out.st = "connecting"
      /\ conn' = Gone(conn, c, "out")
      /\ DialFailed(c[1], c[2])
      /\ faults' \in {faults, faults + 1}
      /\ UNCHANGED <<id, spare>>
  BY DEF Refused
<1>2. PairsOK(conn', id', spare') /\ DialsOnce(conn')
  BY <1>1, GoneSocket DEF Ends
<1>3. \A k \in Node : BlockedJustly(k, table'[k].blocked)
  <2>1. c[1] \in Node
    BY DEF Connection
  <2> QED
    BY <1>1, <2>1, DialFailedBlocks
<1> QED
  BY <1>1, <1>2, <1>3, SocketRest

LEMMA ClosedSocket ==
  ASSUME IInv, SocketInv, NEW c \in Connection, NEW e \in Ends, Closed(c, e)
  PROVE  SocketInv'
<1>1. /\ \/ conn[c][e].st = "closing"
         \/ conn[c][e].st = "open" /\ conn[c][Other(e)].st \in {"closing", "none"}
      /\ conn' = Gone(conn, c, e)
      /\ UNCHANGED <<id, spare, faults>>
      /\ DialFailed(Owner(c, e), c[2]) \/ UNCHANGED table
  BY DEF Closed
<1>2. PairsOK(conn', id', spare') /\ DialsOnce(conn')
  BY <1>1, GoneSocket
<1>3. \A k \in Node : BlockedJustly(k, table'[k].blocked)
  <2>1. CASE DialFailed(Owner(c, e), c[2])
    <3>1. Owner(c, e) \in Node
      BY <1>1, OwnerType DEF IInv
    <3> QED
      BY <2>1, <3>1, DialFailedBlocks
  <2>2. CASE UNCHANGED table
    BY <2>2 DEF SocketInv
  <2> QED
    BY <1>1, <2>1, <2>2
<1> QED
  BY <1>1, <1>2, <1>3, SocketRest

LEMMA RejectHelloSocket ==
  ASSUME IInv, SocketInv, SeenTruly, NEW c \in Connection, NEW e \in Ends,
         RejectHello(c, e)
  PROVE  SocketInv'
<1>1. /\ HelloAt(c, e) /\ ~Acceptable(c, e)
      /\ conn' = [conn EXCEPT ![c][e] = ClosedOnPurpose(@)]
      /\ \/ /\ e = "out" /\ (IsSelf(c, e) \/ IsIncompatible(c, e))
            /\ table' = [table EXCEPT ![c[1]] = Block(@, c[2])]
         \/ table' = table
      /\ UNCHANGED <<id, spare, faults>>
  BY DEF RejectHello, Owner
<1>2. conn[c][Other(e)].st # "none" => Loses(c, id)
  BY <1>1, RejectedUnsuited DEF Loses
<1>3. conn[c][e].st = "open"
  BY <1>1 DEF HelloAt
<1>4. PairsOK(conn', id', spare') /\ DialsOnce(conn')
  BY <1>1, <1>2, <1>3, MarkedStep
<1>5. \A k \in Node : BlockedJustly(k, table'[k].blocked)
  <2>1. CASE /\ e = "out" /\ (IsSelf(c, e) \/ IsIncompatible(c, e))
             /\ table' = [table EXCEPT ![c[1]] = Block(@, c[2])]
    <3> DEFINE t == Block(table[c[1]], c[2])
    <3>1. /\ c[1] \in Node /\ c[2] \in Address /\ ListensAt[c[2]] \in Node
          /\ \/ conn[c][e].hello = id[ListensAt[c[2]]]
             \/ conn[c][e].hello \notin Range(id)
      BY <1>1, <2>1, HelloNames DEF Owner, Other
    <3>2. ~Compatible(c[1], ListensAt[c[2]])
      <4>1. CASE IsSelf(c, e)
        <5>1. conn[c][e].hello = id[c[1]]
          BY <2>1, <4>1 DEF IsSelf, Owner
        <5>2. id[c[1]] \in Range(id)
          BY <3>1, IdsAreIds DEF IInv
        <5>3. c[1] = ListensAt[c[2]]
          BY <3>1, <5>1, <5>2 DEF SocketInv
        <5> QED
          BY <5>3 DEF Compatible
      <4>2. CASE IsIncompatible(c, e)
        BY <2>1, <4>2 DEF IsIncompatible, Owner, Other, Compatible
      <4> QED
        BY <2>1, <4>1, <4>2
    <3>3. TableOK(c[1], table[c[1]])
      BY <3>1 DEF IInv, TableInv
    <3>4. t.blocked \subseteq table[c[1]].blocked \cup {c[2]}
      BY <3>1, <3>3, BlockedKept
    <3>5. table' = [table EXCEPT ![c[1]] = t]
      BY <2>1
    <3> HIDE DEF t
    <3>6. BlockedJustly(c[1], t.blocked)
      BY <3>1, <3>2, <3>4 DEF SocketInv, BlockedJustly
    <3> QED
      BY <3>1, <3>5, <3>6, BlockedStep DEF IInv, SocketInv
  <2>2. CASE table' = table
    BY <2>2 DEF SocketInv
  <2> QED
    BY <1>1, <2>1, <2>2
<1> QED
  BY <1>1, <1>4, <1>5, SocketRest

\* A socket that loses against another one was dialled from the side with the
\* greater identifier.
LEMMA RejectDuplicateSocket ==
  ASSUME IInv, SocketInv, NEW c \in Connection, NEW e \in Ends,
         RejectDuplicate(c, e)
  PROVE  SocketInv'
<1> DEFINE n == Owner(c, e)
           m == Owner(c, Other(e))
           h == conn[c][e].hello
<1>1. /\ HelloAt(c, e)
      /\ conn' = [conn EXCEPT ![c][e] = ClosedOnPurpose(@)]
      /\ \/ table' = [table EXCEPT ![n] = RecordSuccess(@, c[2])]
         \/ table' = table
      /\ UNCHANGED <<id, spare, faults>>
  BY DEF RejectDuplicate
<1>2. PICK x \in Existing(c, e, h) : ~ShouldReplace(c, e, x[1], x[2])
  BY DEF RejectDuplicate
<1>3. /\ n \in Node /\ m \in Node /\ conn[c][e].st = "open"
      /\ conn[c][Other(e)].st # "none" => h = id[m]
  BY <1>1, HelloNames
<1>4. ASSUME conn[c][Other(e)].st # "none"
      PROVE  Loses(c, id)
  <2>1. id[n] \in Nat /\ id[m] \in Nat /\ h = id[m]
    BY <1>3, <1>4, IdsAreIds DEF IInv
  <2>2. /\ x[2] \in Ends /\ Owner(x[1], x[2]) = n /\ conn[x[1]][x[2]].peer = h
    BY <1>2 DEF Existing, Handshaken
  <2>3. Initiator(c, e, h) = IF e = "out" THEN id[n] ELSE id[m]
    BY <2>1 DEF Initiator, Owner
  <2>4. Initiator(x[1], x[2], h) = IF x[2] = "out" THEN id[n] ELSE id[m]
    BY <2>1, <2>2 DEF Initiator, Owner
  <2>5. Initiator(c, e, h) > Initiator(x[1], x[2], h)
    BY <1>2, <2>1, <2>2, <2>3, <2>4 DEF ShouldReplace
  <2>6. CASE e = "out"
    <3>1. id[n] > id[m]
      BY <2>1, <2>3, <2>4, <2>5, <2>6
    <3> QED
      BY <2>6, <3>1 DEF Loses, Owner, Other
  <2>7. CASE e = "in"
    <3>1. id[m] > id[n]
      BY <2>1, <2>3, <2>4, <2>5, <2>7
    <3> QED
      BY <2>7, <3>1 DEF Loses, Owner, Other
  <2> QED
    BY <2>6, <2>7 DEF Ends
<1>5. PairsOK(conn', id', spare') /\ DialsOnce(conn')
  BY <1>1, <1>3, <1>4, MarkedStep
<1> HIDE DEF n
<1>6. \A k \in Node : BlockedJustly(k, table'[k].blocked)
  <2>1. CASE table' = [table EXCEPT ![n] = RecordSuccess(@, c[2])]
    <3>1. TableOK(n, table[n])
      BY <1>3 DEF IInv, TableInv
    <3>2. RecordSuccess(table[n], c[2]).blocked = table[n].blocked
      BY <1>3, <3>1, BlockedKept
    <3>3. BlockedJustly(n, RecordSuccess(table[n], c[2]).blocked)
      BY <1>3, <3>2 DEF SocketInv
    <3> QED
      BY <1>3, <2>1, <3>3, BlockedStep DEF IInv, SocketInv
  <2>2. CASE table' = table
    BY <2>2 DEF SocketInv
  <2> QED
    BY <1>1, <2>1, <2>2
<1> QED
  BY <1>1, <1>5, <1>6, SocketRest

\* What is closed in favour of a new socket, and is still there at the other
\* end, loses as well.
LEMMA ReplacedLoses ==
  ASSUME IInv, SocketInv, OneAddress, NoLeftovers,
         NEW c \in Connection, NEW e \in Ends, HelloAt(c, e),
         NEW x \in Existing(c, e, conn[c][e].hello),
         ShouldReplace(c, e, x[1], x[2]),
         conn[x[1]][Other(x[2])].st # "none"
  PROVE  Loses(x[1], id)
<1> DEFINE n == Owner(c, e)
           m == Owner(c, Other(e))
           h == conn[c][e].hello
           d == x[1]
           f == x[2]
           l == Owner(d, Other(f))
<1>1. /\ n \in Node /\ m \in Node /\ conn[c][e].st = "open" /\ h # NoId
      /\ c[1] \in Node /\ c[2] \in Address /\ ListensAt[c[2]] \in Node
      /\ h = id[m] \/ h \notin Range(id)
  BY HelloNames
<1>2. /\ d \in Connection /\ f \in Ends /\ x = <<d, f>> /\ x # <<c, e>>
      /\ Owner(d, f) = n /\ conn[d][f].peer = h
  BY DEF Existing, Handshaken
<1>3. conn[d][f].st \in {"open", "closing"}
  <2>1. EndOK(d, f, conn[d][f], id)
    BY <1>2 DEF IInv, ConnInv
  <2> QED
    BY <1>1, <1>2, <2>1 DEF EndOK, EndType, End
<1>4. /\ l \in Node /\ d[1] \in Node /\ d[2] \in Address
      /\ ListensAt[d[2]] \in Node
  BY <1>2, <1>3, OwnerType DEF IInv
<1>5. h = id[l]
  <2>1. Names(d, f, conn[d], h, id, spare)
    BY <1>2 DEF SocketInv, PairsOK, PairOK
  <2> QED
    BY <1>1, <2>1 DEF Names
<1>6. l = m /\ h = id[m]
  <2>1. h \in Range(id)
    BY <1>4, <1>5, IdsAreIds DEF IInv
  <2> QED
    BY <1>1, <1>4, <1>5, <2>1 DEF SocketInv
<1>7. id[n] \in Nat /\ id[m] \in Nat
  BY <1>1, IdsAreIds DEF IInv
<1>8. \/ Initiator(c, e, h) = Initiator(d, f, h)
      \/ Initiator(c, e, h) < Initiator(d, f, h)
  BY <1>2 DEF ShouldReplace
<1>9. /\ Initiator(c, e, h) = IF e = "out" THEN id[n] ELSE id[m]
      /\ Initiator(d, f, h) = IF f = "out" THEN id[n] ELSE id[m]
  BY <1>2, <1>6 DEF Initiator, Owner
<1>10. SUFFICES ASSUME Suited(d)
                PROVE  id[d[1]] > id[ListensAt[d[2]]]
  BY DEF Loses
<1>11. n # m /\ id[n] # id[m]
  <2>1. {n, l} = {d[1], ListensAt[d[2]]}
    BY <1>2 DEF Owner, Other, Ends
  <2>2. d[1] # ListensAt[d[2]]
    BY <1>10 DEF Suited, Compatible
  <2>3. n # m
    BY <1>6, <2>1, <2>2
  <2> QED
    BY <1>1, <2>3 DEF SocketInv
<1>12. CASE e = "out" /\ f = "in"
  <2>1. id[n] < id[m]
    BY <1>7, <1>8, <1>9, <1>11, <1>12
  <2>2. d[1] = m /\ ListensAt[d[2]] = n
    BY <1>2, <1>6, <1>12 DEF Owner, Other
  <2> QED
    BY <1>7, <2>1, <2>2
<1>13. CASE e = "in" /\ f = "out"
  <2>1. id[m] < id[n]
    BY <1>7, <1>8, <1>9, <1>11, <1>13
  <2>2. d[1] = n /\ ListensAt[d[2]] = m
    BY <1>2, <1>6, <1>13 DEF Owner, Other
  <2> QED
    BY <1>7, <2>1, <2>2
<1>14. ASSUME e = f
       PROVE  /\ c[1] = d[1] /\ c[2] = d[2] /\ c # d
              /\ ListensAt[c[2]] = ListensAt[d[2]]
  <2>1. c[1] = d[1] /\ ListensAt[c[2]] = ListensAt[d[2]]
    BY <1>2, <1>6, <1>14 DEF Owner, Other, Ends
  <2>2. ListensAt[c[2]] # c[1]
    BY <1>11 DEF Owner, Other, Ends
  <2>3. c[2] # OwnAddress(c[1]) /\ d[2] # OwnAddress(d[1])
    BY <1>2 DEF Connection
  <2>4. c[2] = d[2]
    BY <1>1, <1>4, <2>1, <2>2, <2>3 DEF OneAddress
  <2>5. c # d
    BY <1>2, <1>14
  <2> QED
    BY <2>1, <2>4, <2>5
<1>15. CASE e = "out" /\ f = "out"
  <2>1. c = d
    <3>1. conn[c].out.st # "none" /\ conn[d].out.st # "none"
      BY <1>1, <1>3, <1>15
    <3> QED
      BY <1>2, <1>14, <1>15, <3>1 DEF SocketInv, DialsOnce
  <2> QED
    BY <1>14, <1>15, <2>1
<1>16. CASE e = "in" /\ f = "in"
  <2>1. conn[d].out.st # "none"
    BY <1>16 DEF Other
  <2>2. conn[c].out.st = "none"
    BY <1>2, <1>14, <1>16, <2>1 DEF SocketInv, DialsOnce
  <2>3. MaxFaults = 0
    <3>1. c = <<c[1], c[2], c[3]>> /\ d = <<d[1], d[2], d[3]>>
          /\ c[3] \in Copy /\ d[3] \in Copy
      BY <1>2 DEF Connection
    <3>2. c[3] # d[3]
      BY <1>14, <1>16, <3>1
    <3> QED
      BY <3>1, <3>2 DEF NoLeftovers
  <2>4. id[c[1]] = conn[c].in.hello
    BY <1>6, <1>16 DEF Owner, Other
  <2>5. Loses(c, id)
    <3>1. PairOK(c, conn[c], id, spare)
      BY DEF SocketInv, PairsOK
    <3> QED
      BY <1>1, <1>16, <2>2, <2>3, <2>4, <3>1 DEF PairOK
  <2>6. c[1] = d[1] /\ ListensAt[c[2]] = ListensAt[d[2]]
    BY <1>14, <1>16
  <2> QED
    BY <1>10, <2>5, <2>6 DEF Loses, Suited
<1> QED
  BY <1>2, <1>12, <1>13, <1>15, <1>16 DEF Ends

LEMMA AcceptHelloSocket ==
  ASSUME IInv, SocketInv, OneAddress, NoLeftovers,
         NEW c \in Connection, NEW e \in Ends, AcceptHello(c, e)
  PROVE  SocketInv'
<1> DEFINE n     == Owner(c, e)
           m     == Owner(c, Other(e))
           h     == conn[c][e].hello
           after == Replaced(c, e, h)
           lost  == Existing(c, e, h)
           mine  == [conn[c][e] EXCEPT !.peer = h, !.hello = NoId]
<1>1. /\ HelloAt(c, e) /\ Acceptable(c, e)
      /\ \A x \in lost : ShouldReplace(c, e, x[1], x[2])
      /\ UNCHANGED <<id, spare, faults>>
      /\ \/ /\ table' = [table EXCEPT ![n] = RecordSuccess(@, c[2])]
            /\ conn' = after
         \/ /\ \E more \in Addables(table[n], {AnnouncedAddress(c, e)}) :
                 table' = [table EXCEPT ![n] = Add(@, more)]
            /\ conn' = MaintainConnections(after, n, table'[n], backoff[n])
  BY DEF AcceptHello
<1>2. /\ ConnShape(after)
      /\ \A d \in Connection : after[d].up = conn[d].up
      /\ \A d \in Connection, f \in Ends :
           after[d][f] = IF d = c /\ f = e THEN mine
                         ELSE IF <<d, f>> \in lost THEN ClosedOnPurpose(conn[d][f])
                         ELSE conn[d][f]
  BY ReplacedForm DEF IInv
<1>3. /\ n \in Node /\ m \in Node /\ conn[c][e].st = "open"
      /\ conn[c][Other(e)].st # "none" => h = id[m]
  BY <1>1, HelloNames
<1>4. \A d \in Connection, f \in Ends : EndOK(d, f, conn[d][f], id)
  BY DEF IInv, ConnInv
<1>5. Changed(c, conn[c], e, mine, id)
  <2>1. conn[c][e] \in EndType
    BY <1>4 DEF EndOK
  <2>2. /\ mine.st = "open" /\ mine.hello = NoId /\ mine.peer = h
        /\ mine.expectedClose => conn[c][e].expectedClose
    BY <1>3, <2>1 DEF EndType
  <2>3. ASSUME conn[c][Other(e)].st # "none"
        PROVE  Suited(c)
    <3>1. id[m] # id[n] /\ Genesis[n] = Genesis[m]
      BY <1>1, <1>3, <2>3 DEF Acceptable, IsSelf, IsIncompatible
    <3>2. n # m
      BY <3>1
    <3> QED
      BY <3>1, <3>2 DEF Suited, Compatible, Owner, Other, Ends
  <2> HIDE DEF mine
  <2> QED
    BY <1>3, <2>2, <2>3 DEF Changed
<1>6. ASSUME NEW d \in Connection, NEW f \in Ends, <<d, f>> \in lost
      PROVE  Changed(d, conn[d], f, ClosedOnPurpose(conn[d][f]), id)
  <2> DEFINE old == conn[d][f]
             new == ClosedOnPurpose(old)
  <2>1. old.peer # NoId
    BY <1>6 DEF Existing, Handshaken, IsHandshaken
  <2>2. EndOK(d, f, old, id)
    BY <1>4
  <2>3. old.st \in {"open", "closing"} /\ old \in EndType
    BY <2>1, <2>2 DEF EndOK, EndType, End
  <2>4. conn[d][Other(f)].st # "none" => Loses(d, id)
    <3>1. ASSUME conn[d][Other(f)].st # "none"
          PROVE  Loses(d, id)
      <4> DEFINE x == <<d, f>>
      <4>1. x \in lost /\ x[1] = d /\ x[2] = f
        BY <1>6
      <4> HIDE DEF x
      <4>2. ShouldReplace(c, e, x[1], x[2])
        BY <1>1, <4>1
      <4>3. conn[x[1]][Other(x[2])].st # "none"
        BY <3>1, <4>1
      <4> QED
        BY <1>1, <4>1, <4>2, <4>3, ReplacedLoses
    <3> QED
      BY <3>1
  <2> HIDE DEF old
  <2>5. /\ new.st = "closing" /\ new.hello = NoId /\ new.peer = old.peer
        /\ new.expectedClose
    BY <2>3 DEF ClosedOnPurpose, Terminated, EndType
  <2> HIDE DEF new
  <2>6. Changed(d, conn[d], f, new, id)
    BY <2>3, <2>4, <2>5 DEF Changed, old
  <2> QED
    BY <2>6 DEF new, old
<1> HIDE DEF lost, after, mine
<1>7. ASSUME NEW d \in Connection, NEW f \in Ends
      PROVE  /\ Changed(d, conn[d], f, after[d][f], id)
             /\ after[d][f].st # "none" => conn[d][f].st # "none"
  <2>1. CASE d = c /\ f = e
    BY <1>2, <1>3, <1>5, <2>1
  <2>2. CASE ~(d = c /\ f = e) /\ <<d, f>> \in lost
    <3>1. Changed(d, conn[d], f, after[d][f], id)
      BY <1>2, <1>6, <2>2
    <3> QED
      BY <3>1 DEF Changed
  <2>3. CASE ~(d = c /\ f = e) /\ <<d, f>> \notin lost
    BY <1>2, <2>3 DEF Changed
  <2> QED
    BY <2>1, <2>2, <2>3
<1>8. PairsOK(after, id, spare)
  <2>1. ASSUME NEW d \in Connection
        PROVE  PairOK(d, after[d], id, spare)
    <3>1. PairOK(d, conn[d], id, spare) /\ after[d].up = conn[d].up
      BY <1>2 DEF SocketInv, PairsOK
    <3>2. id[d[1]] # NoId
      <4>1. d[1] \in Node
        BY DEF Connection
      <4> QED
        BY <4>1, IdsAreIds DEF IInv
    <3> QED
      BY <1>7, <3>1, <3>2, PairChanges
  <2> QED
    BY <2>1 DEF PairsOK
<1>9. DialsOnce(after)
  <2>1. \A d \in Connection : after[d].out.st # "none" => conn[d].out.st # "none"
    BY <1>7 DEF Ends
  <2> QED
    BY <2>1 DEF SocketInv, DialsOnce
<1>10. PairsOK(conn', id, spare) /\ DialsOnce(conn')
  <2>1. CASE conn' = after
    BY <1>8, <1>9, <2>1
  <2>2. CASE conn' = MaintainConnections(after, n, table'[n], backoff[n])
    BY <1>8, <1>9, <2>2, MaintainDials
  <2> QED
    BY <1>1, <2>1, <2>2
<1> HIDE DEF n
<1>11. \A k \in Node : BlockedJustly(k, table'[k].blocked)
  <2>1. TableOK(n, table[n]) /\ BlockedJustly(n, table[n].blocked)
    BY <1>3 DEF IInv, TableInv, SocketInv
  <2>2. PICK t : table' = [table EXCEPT ![n] = t] /\ t.blocked = table[n].blocked
    <3>1. RecordSuccess(table[n], c[2]).blocked = table[n].blocked
      BY <1>3, <2>1, BlockedKept
    <3>2. \A more : Add(table[n], more).blocked = table[n].blocked
      BY <1>3, <2>1, BlockedKept
    <3> QED
      BY <1>1, <3>1, <3>2
  <2>3. BlockedJustly(n, t.blocked)
    BY <2>1, <2>2
  <2> QED
    BY <1>3, <2>2, <2>3, BlockedStep DEF IInv, SocketInv
<1>12. PairsOK(conn', id', spare')
  BY <1>1, <1>10
<1> QED
  BY <1>1, <1>10, <1>11, <1>12, SocketRest

LEMMA LearnPeersSocket ==
  ASSUME IInv, SocketInv, NEW c \in Connection, NEW e \in Ends,
         LearnPeers(c, e)
  PROVE  SocketInv'
<1> DEFINE n == Owner(c, e)
<1>1. /\ conn[c][e].st = "open"
      /\ UNCHANGED <<id, spare, faults>>
      /\ conn' = MaintainConnections(conn, n, table'[n], backoff[n])
  BY DEF LearnPeers
<1>2. PICK more : table' = [table EXCEPT ![n] = Add(@, more)]
  BY DEF LearnPeers
<1>3. n \in Node
  BY <1>1, OwnerType DEF IInv
<1> HIDE DEF n
<1>4. PairsOK(conn', id, spare) /\ DialsOnce(conn')
  BY <1>1, MaintainDials DEF SocketInv
<1>5. PairsOK(conn', id', spare')
  BY <1>1, <1>4
<1>6. \A k \in Node : BlockedJustly(k, table'[k].blocked)
  <2>1. TableOK(n, table[n]) /\ BlockedJustly(n, table[n].blocked)
    BY <1>3 DEF IInv, TableInv, SocketInv
  <2>2. Add(table[n], more).blocked = table[n].blocked
    BY <1>3, <2>1, BlockedKept
  <2>3. BlockedJustly(n, Add(table[n], more).blocked)
    BY <2>1, <2>2
  <2> QED
    BY <1>2, <1>3, <2>3, BlockedStep DEF IInv, SocketInv
<1> QED
  BY <1>1, <1>4, <1>5, <1>6, SocketRest

LEMMA RestartSocket ==
  ASSUME IInv, SocketInv, NEW n \in Node, Restart(n)
  PROVE  SocketInv'
<1> DEFINE Mine(c, e) == Owner(c, e) = n
           left == [c \in Connection |->
             IF \A e \in Ends : Mine(c, e) \/ conn[c][e].st = "none"
             THEN NoConnection
             ELSE [conn[c] EXCEPT !.out = IF Mine(c, "out") THEN NoEnd ELSE @,
                                  !.in  = IF Mine(c, "in") THEN NoEnd ELSE @]]
<1>1. PICK i \in spare, t \in FreshTables(n, Saved(table[n])) :
        /\ id' = [id EXCEPT ![n] = i]
        /\ spare' = spare \ {i}
        /\ table' = [table EXCEPT ![n] = t]
        /\ conn' = MaintainConnections(left, n, t, {})
        /\ UNCHANGED faults
  BY DEF Restart
<1>2. /\ \A c \in Connection : DOMAIN conn[c] = {"out", "in", "up"}
      /\ \A c \in Connection, e \in Ends : EndOK(c, e, conn[c][e], id)
      /\ PairsOK(conn, id, spare) /\ DialsOnce(conn)
      /\ \A l, m \in Node : id[l] = id[m] => l = m
      /\ IdInv
  BY DEF IInv, ConnInv, ConnShape, SocketInv
<1>3. ASSUME NEW c \in Connection
      PROVE  /\ PairOK(c, left[c], id', spare')
             /\ left[c].out.st # "none" => conn[c].out.st # "none"
  <2>1. CASE \A e \in Ends : Mine(c, e) \/ conn[c][e].st = "none"
    <3>1. left[c] = NoConnection
      BY <2>1
    <3>2. PairOK(c, NoConnection, id', spare')
      BY PairFresh
    <3>3. NoConnection.out.st = "none"
      BY DEF NoConnection, NoEnd, End
    <3> HIDE DEF left, Mine
    <3> QED
      BY <3>1, <3>2, <3>3
  <2>2. CASE ~(\A e \in Ends : Mine(c, e) \/ conn[c][e].st = "none")
    <3> DEFINE o == IF Mine(c, "out") THEN NoEnd ELSE conn[c]["out"]
               j == IF Mine(c, "in") THEN NoEnd ELSE conn[c]["in"]
    <3>1. left[c] = [conn[c] EXCEPT !.out = o, !.in = j]
      BY <2>2
    <3> HIDE DEF left, o, j
    <3>2. left[c]["out"] = o /\ left[c]["in"] = j /\ left[c].up = conn[c].up
      BY <1>2, <3>1
    <3>3. \A e \in Ends : left[c][e] = IF Owner(c, e) = n THEN NoEnd ELSE conn[c][e]
      BY <3>2 DEF o, j, Ends
    <3>4. PairOK(c, conn[c], id, spare) /\ \A e \in Ends : EndOK(c, e, conn[c][e], id)
      BY <1>2 DEF PairsOK
    <3>5. PairOK(c, left[c], id', spare')
      BY <1>1, <1>2, <3>2, <3>3, <3>4, PairRestarted
    <3>6. NoEnd.st = "none"
      BY DEF NoEnd, End
    <3>7. left[c].out.st # "none" => conn[c].out.st # "none"
      BY <3>2, <3>6 DEF o
    <3> QED
      BY <3>5, <3>7
  <2> QED
    BY <2>1, <2>2
<1> HIDE DEF left
<1>4. PairsOK(left, id', spare')
  BY <1>3 DEF PairsOK
<1>5. DialsOnce(left)
  BY <1>2, <1>3 DEF DialsOnce
<1>6. DialsOnce(conn') /\ PairsOK(conn', id', spare')
  BY <1>1, <1>4, <1>5, MaintainDials
<1>7. \A k \in Node : BlockedJustly(k, table'[k].blocked)
  <2>1. BlockedJustly(n, t.blocked)
    BY BlockedFresh
  <2> QED
    BY <1>1, <2>1, BlockedStep DEF IInv, SocketInv
<1>8. \A l, m \in Node : id'[l] = id'[m] => l = m
  <2>1. /\ id \in [Node -> NodeIds]
        /\ \A k \in Node : id[k] # i
    BY DEF IInv, IdInv
  <2> QED
    BY <1>1, <1>2, <2>1
<1>9. faults' \in Nat
  BY <1>1 DEF SocketInv
<1> QED
  BY <1>6, <1>7, <1>8, <1>9 DEF SocketInv

-----------------------------------------------------------------------------
(* Which of two sockets is closed: theorem                                 *)

LEMMA InitSocket ==
  ASSUME Init
  PROVE  SocketInv
<1> DEFINE dialled == [NoConnection EXCEPT !.out = End("connecting", NoId)]
           First(c) == c[2] \in DOMAIN table[c[1]].entries /\ \A k \in Copy : c[3] <= k
<1>1. \A c \in Connection :
        conn[c] = IF First(c) THEN dialled ELSE NoConnection
  BY DEF Init
<1>2. PairsOK(conn, id, spare)
  <2>1. ASSUME NEW c \in Connection
        PROVE  PairOK(c, conn[c], id, spare)
    <3>1. conn[c] = dialled \/ conn[c] = NoConnection
      BY <1>1
    <3> QED
      BY <3>1, PairFresh
  <2> QED
    BY <2>1 DEF PairsOK
<1>3. DialsOnce(conn)
  <2>1. NoConnection.out.st = "none"
    BY DEF NoConnection, NoEnd, End
  <2>2. ASSUME NEW c \in Connection, NEW d \in Connection,
               c[1] = d[1], c[2] = d[2],
               conn[c].out.st # "none", conn[d].out.st # "none"
        PROVE  c = d
    <3>1. First(c) /\ First(d)
      BY <1>1, <2>1, <2>2
    <3>2. /\ c = <<c[1], c[2], c[3]>> /\ c[3] \in Copy
          /\ d = <<d[1], d[2], d[3]>> /\ d[3] \in Copy
      BY DEF Connection
    <3>3. Copy \subseteq Nat
      BY PeeringAssumption
    <3>4. c[3] = d[3]
      BY <3>1, <3>2, <3>3
    <3> QED
      BY <2>2, <3>2, <3>4
  <2> QED
    BY <2>2 DEF DialsOnce
<1>4. ASSUME NEW n \in Node
      PROVE  BlockedJustly(n, table[n].blocked)
  <2>1. table[n] \in FreshTables(n, <<>>)
    BY DEF Init
  <2> QED
    BY <2>1, BlockedFresh
<1>5. \A m, n \in Node : id[m] = id[n] => m = n
  BY PeeringAssumption DEF Init
<1>6. faults \in Nat
  BY DEF Init
<1> QED
  BY <1>2, <1>3, <1>4, <1>5, <1>6 DEF SocketInv

LEMMA NextSocket ==
  ASSUME OneAddress, SeenTruly, NoLeftovers, IInv, SocketInv, [Next]_vars
  PROVE  SocketInv'
<1>1. ASSUME NEW n \in Node, Maintain(n)
      PROVE  SocketInv'
  BY <1>1, MaintainSocket
<1>2. ASSUME NEW n \in Node, BackoffOver(n)
      PROVE  SocketInv'
  BY <1>2, NoSocketStep DEF BackoffOver
<1>3. ASSUME NEW n \in Node, Restart(n)
      PROVE  SocketInv'
  BY <1>3, RestartSocket
<1>4. ASSUME NEW c \in Connection, Break(c)
      PROVE  SocketInv'
  BY <1>4, BreakSocket
<1>5. ASSUME NEW c \in Connection, NEW e \in Ends, EndEvent(c, e)
      PROVE  SocketInv'
  <2>1. CASE Opened(c)
    BY <2>1, OpenedSocket
  <2>2. CASE Refused(c)
    BY <2>2, RefusedSocket
  <2>3. CASE RejectHello(c, e)
    BY <2>3, RejectHelloSocket
  <2>4. CASE RejectDuplicate(c, e)
    BY <2>4, RejectDuplicateSocket
  <2>5. CASE AcceptHello(c, e)
    BY <2>5, AcceptHelloSocket
  <2>6. CASE LearnPeers(c, e)
    BY <2>6, LearnPeersSocket
  <2>7. CASE Heartbeat(c, e)
    BY <2>7, TimeoutSocket
  <2>8. CASE Closed(c, e)
    BY <2>8, ClosedSocket
  <2> QED
    BY <1>5, <2>1, <2>2, <2>3, <2>4, <2>5, <2>6, <2>7, <2>8
    DEF EndEvent, HandleHello
<1>6. ASSUME NEW c \in Connection, NEW e \in Ends, HandshakeTimeout(c, e)
      PROVE  SocketInv'
  BY <1>6, TimeoutSocket
<1>7. CASE UNCHANGED vars
  BY <1>7, NoSocketStep DEF vars
<1> QED
  BY <1>1, <1>2, <1>3, <1>4, <1>5, <1>6, <1>7 DEF Next

\* A connection that one end has kept and the other end closes on purpose was
\* dialled by the node with the greater identifier of the two.
LEMMA ClosedThereLoses ==
  ASSUME IInv, SocketInv, NEW c \in Connection, NEW e \in Ends,
         IsHandshaken(c, e), KeptHereClosedThere(c, e)
  PROVE  /\ c[1] \in Node /\ c[2] \in Address /\ ListensAt[c[2]] \in Node
         /\ c[2] # OwnAddress(c[1]) /\ ListensAt[c[2]] # c[1]
         /\ id[c[1]] \in Nat /\ id[ListensAt[c[2]]] \in Nat
         /\ id[c[1]] > id[ListensAt[c[2]]]
         /\ conn[c][e].st = "open" /\ conn[c][Other(e)].st = "closing"
         /\ conn[c].out.st # "none"
<1>1. /\ conn[c][e].st = "open" /\ conn[c][e].peer # NoId
      /\ conn[c][Other(e)].st = "closing" /\ conn[c][Other(e)].expectedClose
  BY DEF KeptHereClosedThere, IsHandshaken
<1>2. c[1] \in Node /\ c[2] \in Address /\ ListensAt[c[2]] \in Node
  BY <1>1, OwnerType DEF IInv
<1>3. Other(e) \in Ends /\ Other(Other(e)) = e
  BY DEF Ends, Other
<1>4. Suited(c) /\ Loses(c, id)
  BY <1>1, <1>3 DEF SocketInv, PairsOK, PairOK
<1>5. id[c[1]] \in Nat /\ id[ListensAt[c[2]]] \in Nat
  BY <1>2, IdsAreIds DEF IInv
<1>6. c[2] # OwnAddress(c[1])
  BY DEF Connection
<1>7. conn[c].out.st # "none"
  BY <1>1 DEF Ends, Other
<1> QED
  BY <1>1, <1>2, <1>4, <1>5, <1>6, <1>7 DEF Loses, Suited, Compatible

LEMMA SocketsAgree ==
  ASSUME OneAddress, IInv, SocketInv
  PROVE  SameSocketClosed
<1> SUFFICES ASSUME NEW x \in Handshaken, NEW y \in Handshaken,
                    KeptHereClosedThere(x[1], x[2]),
                    KeptHereClosedThere(y[1], y[2]),
                    Owner(x[1], x[2]) = Owner(y[1], Other(y[2])),
                    Owner(x[1], Other(x[2])) = Owner(y[1], y[2])
             PROVE  FALSE
  BY DEF SameSocketClosed
<1> DEFINE c == x[1]  e == x[2]  d == y[1]  f == y[2]
<1>1. /\ c \in Connection /\ e \in Ends /\ IsHandshaken(c, e)
      /\ d \in Connection /\ f \in Ends /\ IsHandshaken(d, f)
  BY DEF Handshaken
<1>2. /\ c[1] \in Node /\ c[2] \in Address /\ ListensAt[c[2]] \in Node
      /\ c[2] # OwnAddress(c[1]) /\ ListensAt[c[2]] # c[1]
      /\ id[c[1]] \in Nat /\ id[ListensAt[c[2]]] \in Nat
      /\ id[c[1]] > id[ListensAt[c[2]]]
      /\ conn[c][e].st = "open" /\ conn[c].out.st # "none"
  BY <1>1, ClosedThereLoses
<1>3. /\ d[1] \in Node /\ d[2] \in Address /\ ListensAt[d[2]] \in Node
      /\ d[2] # OwnAddress(d[1]) /\ ListensAt[d[2]] # d[1]
      /\ id[d[1]] > id[ListensAt[d[2]]]
      /\ conn[d][Other(f)].st = "closing" /\ conn[d].out.st # "none"
  BY <1>1, ClosedThereLoses
<1>4. CASE e = f
  <2>1. c[1] = ListensAt[d[2]] /\ d[1] = ListensAt[c[2]]
    BY <1>1, <1>4 DEF Owner, Other, Ends
  <2> QED
    BY <1>2, <1>3, <2>1
<1>5. CASE e # f
  <2>1. /\ c[1] = d[1] /\ ListensAt[c[2]] = ListensAt[d[2]]
        /\ Other(f) = e
    BY <1>1, <1>5 DEF Owner, Other, Ends
  <2>2. c[2] = d[2]
    BY <1>2, <1>3, <2>1 DEF OneAddress
  <2>3. c = d
    BY <1>1, <1>2, <1>3, <2>1, <2>2 DEF SocketInv, DialsOnce
  <2> QED
    BY <1>2, <1>3, <2>1, <2>3
<1> QED
  BY <1>4, <1>5

\* When two nodes have dialled each other they close the same one of the two
\* connections: it never happens that each closes the one the other has kept.
\* Nodes have one address each and are seen where they listen, and either no
\* fault occurs or a lost connection is gone at both ends before the next dial.
THEOREM SameSocketIsClosed ==
  ASSUME OneAddress, SeenTruly, NoLeftovers
  PROVE  Spec => []SameSocketClosed
<1>1. Init => SocketInv
  BY InitSocket
<1>2. IInv /\ SocketInv /\ [Next]_vars => SocketInv'
  BY NextSocket
<1>3. IInv /\ SocketInv => SameSocketClosed
  BY SocketsAgree
<1> QED
  BY <1>1, <1>2, <1>3, Inductive, PTL DEF Spec

=============================================================================
