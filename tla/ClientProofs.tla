---------------------------- MODULE ClientProofs ----------------------------
(***************************************************************************)
(* Proofs about Client, for any number of sends that overlap, time out and *)
(* are repeated: what a send reports is what happened, and, with a disk    *)
(* that works, a transfer that was accepted stays alive and does not share *)
(* its nonce with another one.                                             *)
(***************************************************************************)
EXTENDS Client, PaymentsProofs

-----------------------------------------------------------------------------
(* Requests and answers                                                    *)

\* Where a send can be: what it has in flight, and whether the node has taken
\* its transfer.  Only between submitting and the answer can both be the case.
Stage(s) ==
  \/ /\ phase[s] = "idle"
     /\ request[s] = Nothing /\ s \notin DOMAIN admitted
  \/ /\ phase[s] = "account"
     /\ request[s] \in {Nothing, GetAccount} /\ s \notin DOMAIN admitted
  \/ /\ phase[s] = "submit"
     /\ \/ /\ request[s] = Submit(paid[s])
           /\ response[s] = Nothing /\ s \notin DOMAIN admitted
        \/ request[s] = Nothing /\ response[s] = Nothing
        \/ /\ request[s] = Nothing
           /\ response[s] = [success |-> TRUE] /\ s \in DOMAIN admitted
        \/ /\ request[s] = Nothing
           /\ response[s] = [success |-> FALSE] /\ s \notin DOMAIN admitted
  \/ /\ phase[s] = "accepted"
     /\ request[s] = Nothing /\ s \in DOMAIN admitted
  \/ /\ phase[s] \in {"refused", "failed"}
     /\ request[s] = Nothing /\ s \notin DOMAIN admitted
  \/ /\ phase[s] = "unknown"
     /\ \/ request[s] = Nothing
        \/ request[s] = Submit(paid[s]) /\ s \notin DOMAIN admitted

TalkInv ==
  /\ DOMAIN phase = Sends /\ DOMAIN paid = Sends
  /\ DOMAIN request = Sends /\ DOMAIN response = Sends
  /\ DOMAIN admitted \subseteq Sends
  /\ \A s \in Sends : Stage(s)

\* The messages can be told apart.
LEMMA Messages ==
  /\ Nothing # GetAccount
  /\ \A tx : Submit(tx) # Nothing /\ Submit(tx) # GetAccount
  /\ [success |-> TRUE] # [success |-> FALSE]
<1>1. DOMAIN Nothing = {}
  BY DEF Nothing
<1>2. GetAccount.method = "getAccount" /\ "method" \in DOMAIN GetAccount
  BY DEF GetAccount
<1>3. ASSUME NEW tx
      PROVE  Submit(tx) # Nothing /\ Submit(tx) # GetAccount
  <2>1. /\ Submit(tx).method = "submitTransaction"
        /\ "method" \in DOMAIN Submit(tx)
    BY DEF Submit
  <2>2. "submitTransaction" # "getAccount"
    OBVIOUS
  <2> QED
    BY <1>1, <1>2, <2>1, <2>2
<1>4. [success |-> TRUE].success # [success |-> FALSE].success
  OBVIOUS
<1> QED
  BY <1>1, <1>2, <1>3, <1>4

\* Nothing about this send changes.
Rests(s) ==
  /\ phase'[s] = phase[s] /\ paid'[s] = paid[s]
  /\ request'[s] = request[s] /\ response'[s] = response[s]
  /\ s \in DOMAIN admitted' <=> s \in DOMAIN admitted

LEMMA RestingStage ==
  ASSUME NEW s \in Sends, Stage(s), Rests(s)
  PROVE  Stage(s)'
BY DEF Rests, Stage

\* The relation of messages and history holds at the start.
LEMMA InitTalk == ClientInit => TalkInv
BY DEF ClientInit, TalkInv, Stage

\* Every step of clients, network and node keeps it.
LEMMA NextTalk == TalkInv /\ [ClientNext]_allVars => TalkInv'
<1> SUFFICES ASSUME TalkInv, [ClientNext]_allVars
             PROVE  TalkInv'
  OBVIOUS
<1> USE Messages
<1>1. ASSUME NEW s \in Sends, Send(s)
      PROVE  TalkInv'
  <2>1. \A r \in Sends : r # s => Rests(r)
    BY <1>1 DEF Send, Rests, TalkInv
  <2>2. Stage(s)'
    BY <1>1 DEF Send, Stage, TalkInv
  <2> QED
    BY <1>1, <2>1, <2>2, RestingStage DEF Send, TalkInv
<1>2. ASSUME NEW s \in Sends, ReceiveAccount(s)
      PROVE  TalkInv'
  <2>1. \A r \in Sends : r # s => Rests(r)
    BY <1>2 DEF ReceiveAccount, Rests, TalkInv
  <2>2. Stage(s)'
    BY <1>2 DEF ReceiveAccount, Stage, TalkInv
  <2> QED
    BY <1>2, <2>1, <2>2, RestingStage DEF ReceiveAccount, TalkInv
<1>3. ASSUME NEW s \in Sends, ReceiveResult(s)
      PROVE  TalkInv'
  <2>1. \A r \in Sends : r # s => Rests(r)
    BY <1>3 DEF ReceiveResult, Rests, TalkInv
  <2>2. Stage(s)'
    BY <1>3 DEF ReceiveResult, Stage, TalkInv
  <2> QED
    BY <1>3, <2>1, <2>2, RestingStage DEF ReceiveResult, TalkInv
<1>4. ASSUME NEW s \in Sends, Timeout(s)
      PROVE  TalkInv'
  <2>1. \A r \in Sends : r # s => Rests(r)
    BY <1>4 DEF Timeout, Rests, TalkInv
  <2>2. Stage(s)'
    BY <1>4 DEF Timeout, IsWaiting, Stage, TalkInv
  <2> QED
    BY <1>4, <2>1, <2>2, RestingStage DEF Timeout, TalkInv
<1>5. ASSUME NEW s \in Sends, LoseConnection(s)
      PROVE  TalkInv'
  <2>1. \A r \in Sends : r # s => Rests(r)
    BY <1>5 DEF LoseConnection, Rests, TalkInv
  <2>2. Stage(s)'
    BY <1>5 DEF LoseConnection, Stage, TalkInv
  <2> QED
    BY <1>5, <2>1, <2>2, RestingStage DEF LoseConnection, TalkInv
<1>6. ASSUME NEW s \in Sends, ServeGetAccount(s)
      PROVE  TalkInv'
  <2>1. \A r \in Sends : r # s => Rests(r)
    BY <1>6 DEF ServeGetAccount, Answer, Rests, TalkInv
  <2>2. Stage(s)'
    BY <1>6 DEF ServeGetAccount, Answer, Stage, TalkInv
  <2> QED
    BY <1>6, <2>1, <2>2, RestingStage DEF ServeGetAccount, Answer, TalkInv
<1>7. ASSUME NEW s \in Sends, ServeSubmit(s)
      PROVE  TalkInv'
  <2>1. CASE /\ admitted' = Arrived(admitted, s, now)
             /\ Answer(s, [success |-> TRUE])
    <3>0. DOMAIN admitted' = DOMAIN admitted \cup {s}
      BY <2>1 DEF Arrived
    <3>1. \A r \in Sends : r # s => Rests(r)
      BY <1>7, <2>1, <3>0 DEF ServeSubmit, Answer, Rests, TalkInv
    <3>2. Stage(s)'
      BY <1>7, <2>1, <3>0 DEF ServeSubmit, Answer, IsWaiting, Stage, TalkInv
    <3> QED
      BY <1>7, <2>1, <3>0, <3>1, <3>2, RestingStage DEF ServeSubmit, Answer, TalkInv
  <2>2. CASE admitted' = admitted /\ Answer(s, [success |-> FALSE])
    <3>1. \A r \in Sends : r # s => Rests(r)
      BY <1>7, <2>2 DEF ServeSubmit, Answer, Rests, TalkInv
    <3>2. Stage(s)'
      BY <1>7, <2>2 DEF ServeSubmit, Answer, IsWaiting, Stage, TalkInv
    <3> QED
      BY <1>7, <2>2, <3>1, <3>2, RestingStage DEF ServeSubmit, Answer, TalkInv
  <2> QED
    BY <1>7, <2>1, <2>2 DEF ServeSubmit
<1>8. CASE NodeStep
  <2>1. \A r \in Sends : Rests(r)
    BY <1>8 DEF NodeStep, clientVars, Rests
  <2> QED
    BY <1>8, <2>1, RestingStage DEF NodeStep, clientVars, TalkInv
<1>9. CASE NodeRestart
  <2>1. \A r \in Sends : Stage(r)'
    BY <1>9 DEF NodeRestart, Stage, TalkInv
  <2> QED
    BY <1>9, <2>1 DEF NodeRestart, TalkInv
<1>10. CASE UNCHANGED allVars
  <2>1. \A r \in Sends : Rests(r)
    BY <1>10 DEF allVars, clientVars, Rests
  <2> QED
    BY <1>10, <2>1, RestingStage DEF allVars, clientVars, TalkInv
<1> QED
  BY <1>1, <1>2, <1>3, <1>4, <1>5, <1>6, <1>7, <1>8, <1>9, <1>10 DEF ClientNext

\* What a send reports is what happened, and stays so, whatever is lost, late
\* or repeated, and whether or not saves succeed.
THEOREM ReportsAreTrue == ClientSpec => []ReportsTruthful
<1>1. TalkInv => ReportsTruthful
  BY DEF TalkInv, Stage, ReportsTruthful
<1> QED
  BY <1>1, InitTalk, NextTalk, PTL DEF ClientSpec

-----------------------------------------------------------------------------
(* A block out of the own mempool                                          *)

\* A pool of verified transactions, one per sender and nonce.
IsPool(P) ==
  /\ IsFiniteSet(P)
  /\ \A x \in P : VerifyTransaction(x)
  /\ NoncesDistinct(P)

\* cur is the account state once the transactions T of a pool P were applied
\* to st: they are confirmed now, the others are not and can still be paid.
Spent(P, st, cur, T) ==
  /\ cur \in WorldState
  /\ T \in SUBSET P
  /\ \A a \in Address : cur.nonce[a] >= st.nonce[a]
  /\ \A x \in T : x.nonce < cur.nonce[x.from]
  /\ \A x \in P \ T : x.nonce >= cur.nonce[x.from]
  /\ Fits(cur, P \ T)

\* What a sender can pay, it can pay a part of.
LEMMA PartFits ==
  ASSUME NEW st \in WorldState, NEW P, IsFiniteSet(P),
         \A x \in P : VerifyTransaction(x), Fits(st, P), NEW Q \in SUBSET P
  PROVE  Fits(st, Q)
<1> SUFFICES ASSUME NEW a \in Address
             PROVE  Total(SentBy(Q, a)) <= st.balance[a]
  BY DEF Fits
<1>1. /\ IsFiniteSet(SentBy(P, a)) /\ HasAmounts(SentBy(P, a))
      /\ SentBy(Q, a) \in SUBSET SentBy(P, a)
  BY FS_Subset DEF SentBy, HasAmounts, VerifyTransaction
<1>2. /\ Total(SentBy(Q, a)) <= Total(SentBy(P, a))
      /\ Total(SentBy(Q, a)) \in Nat /\ Total(SentBy(P, a)) \in Nat
  BY <1>1, TotalMonotone
<1>3. Total(SentBy(P, a)) <= st.balance[a]
  BY DEF Fits
<1>4. st.balance[a] \in Nat
  BY DEF WorldState
<1> QED
  BY <1>2, <1>3, <1>4

\* Applying one more transaction of the pool.
LEMMA SpendOne ==
  ASSUME NEW P, IsPool(P), NEW st \in WorldState, NEW cur, NEW T,
         Spent(P, st, cur, T), NEW t \in P, TxApplies(cur, t)
  PROVE  Spent(P, st, ApplyTx(cur, t), T \cup {t})
<1> DEFINE new  == ApplyTx(cur, t)
           rest == P \ (T \cup {t})
           mine == SentBy(rest, t.from)
<1>1. /\ t.from \in Address /\ t.to \in Address /\ t.from # t.to
      /\ t.amount \in Nat
      /\ \A x \in P : x.from \in Address /\ x.nonce \in Nat
  BY DEF IsPool, VerifyTransaction
<1>2. cur \in WorldState /\ new \in WorldState
  BY ApplyTxType DEF IsPool, Spent
<1>3. \A a \in Address : cur.nonce[a] \in Nat /\ cur.balance[a] \in Nat
  BY <1>2 DEF WorldState
<1>4. /\ new.nonce[t.from] = cur.nonce[t.from] + 1
      /\ new.balance[t.from] = cur.balance[t.from] - t.amount
      /\ new.balance[t.to] = cur.balance[t.to] + t.amount
      /\ \A a \in Address \ {t.from} : new.nonce[a] = cur.nonce[a]
      /\ \A a \in Address \ {t.from, t.to} : new.balance[a] = cur.balance[a]
  BY <1>1, <1>2 DEF ApplyTx, WorldState
<1>5. t.nonce = cur.nonce[t.from] /\ t.amount <= cur.balance[t.from]
  BY <1>1, <1>3 DEF TxApplies
<1> HIDE DEF new
<1>6. t \notin T
  BY <1>1, <1>3, <1>5 DEF Spent
<1>7. \A a \in Address : new.nonce[a] >= st.nonce[a]
  <2>1. \A a \in Address : st.nonce[a] \in Nat /\ cur.nonce[a] >= st.nonce[a]
    BY DEF WorldState, Spent
  <2>2. \A a \in Address : new.nonce[a] = cur.nonce[a] \/ new.nonce[a] = cur.nonce[a] + 1
    BY <1>4
  <2> QED
    BY <1>3, <2>1, <2>2
<1>8. \A x \in T \cup {t} : x.nonce < new.nonce[x.from]
  <2> SUFFICES ASSUME NEW x \in T \cup {t}
               PROVE  x.nonce < new.nonce[x.from]
    OBVIOUS
  <2>1. x \in P /\ (x \in T => x.nonce < cur.nonce[x.from])
    BY DEF Spent
  <2>2. x.from = t.from \/ new.nonce[x.from] = cur.nonce[x.from]
    BY <1>1, <1>4, <2>1
  <2> QED
    BY <1>1, <1>3, <1>4, <1>5, <2>1, <2>2
<1>9. \A x \in rest : x.nonce >= new.nonce[x.from]
  <2> SUFFICES ASSUME NEW x \in rest
               PROVE  x.nonce >= new.nonce[x.from]
    OBVIOUS
  <2>1. x \in P /\ x # t /\ x.nonce >= cur.nonce[x.from]
    BY DEF Spent
  <2>2. CASE x.from = t.from
    <3>1. x.nonce # t.nonce
      BY <2>1, <2>2 DEF IsPool, NoncesDistinct
    <3> QED
      BY <1>1, <1>3, <1>4, <1>5, <2>1, <2>2, <3>1
  <2>3. CASE x.from # t.from
    BY <1>1, <1>4, <2>1, <2>3
  <2> QED
    BY <2>2, <2>3
<1>10. Fits(new, rest)
  <2> SUFFICES ASSUME NEW a \in Address
               PROVE  Total(SentBy(rest, a)) <= new.balance[a]
    BY DEF Fits
  <2>1. Total(SentBy(P \ T, a)) <= cur.balance[a]
    BY DEF Spent, Fits
  <2>2. CASE a = t.from
    <3>1. SentBy(P \ T, a) = mine \cup {t} /\ t \notin mine
      BY <1>6, <2>2 DEF SentBy
    <3>2. IsFiniteSet(mine) /\ HasAmounts(mine)
      BY FS_Subset DEF IsPool, SentBy, HasAmounts, VerifyTransaction
    <3> HIDE DEF mine
    <3>3. /\ Total(mine) \in Nat
          /\ Total(mine \cup {t}) = Total(mine) + t.amount
      BY <1>1, <3>1, <3>2, TotalAdd
    <3>4. Total(mine) + t.amount <= cur.balance[a]
      BY <2>1, <3>1, <3>3
    <3>5. Total(mine) <= new.balance[a]
      BY <1>1, <1>3, <1>4, <2>2, <3>3, <3>4
    <3> QED
      BY <2>2, <3>5 DEF mine
  <2>3. CASE a # t.from
    <3>1. SentBy(P \ T, a) = SentBy(rest, a)
      BY <2>3 DEF SentBy
    <3>2. new.balance[a] \in Nat /\ cur.balance[a] <= new.balance[a]
      BY <1>1, <1>3, <1>4, <2>3
    <3>3. Total(SentBy(rest, a)) \in Nat
      <4>1. IsFiniteSet(SentBy(rest, a)) /\ HasAmounts(SentBy(rest, a))
        BY FS_Subset DEF IsPool, SentBy, HasAmounts, VerifyTransaction
      <4> QED
        BY <4>1, TotalMonotone
    <3> QED
      BY <1>3, <2>1, <3>1, <3>2, <3>3
  <2> QED
    BY <2>2, <2>3
<1> QED
  BY <1>2, <1>7, <1>8, <1>9, <1>10 DEF Spent, new

\* Applying a list of transactions of the pool.
LEMMA SpendAll ==
  ASSUME NEW P, IsPool(P), NEW st \in WorldState, Spent(P, st, st, {}),
         NEW txs, IsSeq(txs), \A i \in 1 .. Len(txs) : txs[i] \in P,
         ApplyAll(st, txs).ok
  PROVE  Spent(P, st, ApplyAll(st, txs).state, Range(txs))
<1> DEFINE g == ApplySteps(st, txs)
           N == Len(txs)
           first(i) == {txs[j] : j \in 1 .. i}
           S == {i \in Nat : i <= N /\ g[i].ok => Spent(P, st, g[i].state, first(i))}
<1>0. N \in Nat /\ DOMAIN txs = 1 .. N
  BY DEF IsSeq
<1>1. g = [i \in 0 .. N |->
             IF i = 0 THEN Applied(st) ELSE ApplyNext(g[i - 1], st, txs[i])]
  BY <1>0, ApplyStepsUnfold
<1>2. g[N] = ApplyAll(st, txs)
  BY DEF ApplyAll
<1> HIDE DEF g
<1>3. 0 \in S
  <2>1. g[0].state = st
    BY <1>0, <1>1 DEF Applied
  <2>2. first(0) = {}
    OBVIOUS
  <2> HIDE DEF first
  <2> QED
    BY <2>1, <2>2
<1>4. ASSUME NEW n \in Nat, n \in S
      PROVE  n + 1 \in S
  <2> SUFFICES ASSUME n + 1 <= N, g[n + 1].ok
               PROVE  Spent(P, st, g[n + 1].state, first(n + 1))
    OBVIOUS
  <2> DEFINE t == txs[n + 1]
  <2>1. g[n + 1] = ApplyNext(g[n], st, t)
    BY <1>0, <1>1
  <2>2. /\ g[n].ok /\ TxApplies(g[n].state, t)
        /\ g[n + 1].state = ApplyTx(g[n].state, t)
    BY <2>1 DEF ApplyNext, Applied, Rejected
  <2>3. t \in P
    BY <1>0
  <2>4. Spent(P, st, g[n].state, first(n))
    BY <1>0, <1>4, <2>2
  <2>5. first(n + 1) = first(n) \cup {t}
    <3>1. \A j : j \in 1 .. n + 1 <=> j \in 1 .. n \/ j = n + 1
      OBVIOUS
    <3> QED
      BY <3>1
  <2> HIDE DEF t, first
  <2> QED
    BY <2>2, <2>3, <2>4, <2>5, SpendOne
<1>5. N \in S
  <2> HIDE DEF S
  <2> QED
    BY <1>0, <1>3, <1>4, SetInduction
<1>6. first(N) = Range(txs)
  BY <1>0 DEF Range
<1> HIDE DEF first
<1> QED
  BY <1>0, <1>2, <1>5, <1>6

-----------------------------------------------------------------------------
(* What keeps a transfer alive                                             *)

\* Confirmed in a block, and its nonce spent.
Settled(o, tx) ==
  /\ \E i \in DOMAIN o.chain : tx \in Range(o.chain[i].transactions)
  /\ tx.from \in Address /\ tx.nonce \in Nat
  /\ tx.nonce < o.state.nonce[tx.from]

\* A transfer taken at some time is pending since then or later, or settled,
\* or its time to live is over.
Alive(o, tx, since, time) ==
  \/ tx \in o.pendingTransactions /\ o.receivedAt[tx.hash] >= since
  \/ Settled(o, tx)
  \/ time > since + TxTtl

\* pruneMempool keeps what is live, where all that is live can be paid.
LEMMA PruneKeepsLive ==
  ASSUME NEW o, NEW t, Prunable(o),
         DOMAIN o.receivedAt = HashesOf(o.pendingTransactions),
         NEW Q \in SUBSET o.pendingTransactions, Fits(o.state, Q),
         \A x \in o.pendingTransactions : IsLive(o, x, t) => x \in Q,
         NEW x \in o.pendingTransactions, IsLive(o, x, t)
  PROVE  /\ x \in PruneMempool(o, t).pendingTransactions
         /\ PruneMempool(o, t).receivedAt[x.hash] = o.receivedAt[x.hash]
<1> DEFINE live == {y \in o.pendingTransactions : IsLive(o, y, t)}
           r == PruneMempool(o, t)
<1>1. /\ IsFiniteSet(live) /\ \A y \in live : VerifyTransaction(y)
      /\ live \in SUBSET Q /\ x \in live /\ IsFiniteSet(Q)
      /\ \A y \in Q : VerifyTransaction(y)
      /\ o.state \in WorldState
  BY FS_Subset DEF Prunable
<1>2. r.pendingTransactions = Affordable(o, live)
  BY PruneResult
<1> HIDE DEF live
<1>3. Fits(o.state, live)
  BY <1>1, PartFits
<1>4. Affordable(o, live) = live
  BY <1>1, <1>3, AllKept
<1>5. x \in r.pendingTransactions
  BY <1>1, <1>2, <1>4
<1>6. /\ DOMAIN r.receivedAt = HashesOf(r.pendingTransactions)
      /\ \A h \in DOMAIN r.receivedAt : r.receivedAt[h] = o.receivedAt[h]
  BY PruneFacts DEF Prunable
<1> HIDE DEF r
<1>7. x.hash \in DOMAIN r.receivedAt
  BY <1>5, <1>6 DEF HashesOf
<1> QED
  BY <1>5, <1>6, <1>7 DEF r

\* The sweep drops what is expired and nothing else.
LEMMA SweepAlive ==
  ASSUME NEW o, NEW t \in Nat, ObjectOK(o, t), Fits(o.state, o.pendingTransactions),
         NEW tx, NEW since \in Nat, Alive(o, tx, since, t)
  PROVE  Alive(PruneMempool(o, t), tx, since, t)
<1> DEFINE r == PruneMempool(o, t)
<1>1. Prunable(o) /\ DOMAIN o.receivedAt = HashesOf(o.pendingTransactions)
  BY ObjectPrunable DEF ObjectOK, UnprunedOK
<1>2. r.chain = o.chain /\ r.state = o.state
  BY <1>1, PruneFacts DEF Prunable
<1>3. CASE tx \in o.pendingTransactions /\ o.receivedAt[tx.hash] >= since
  <2>1. /\ o.receivedAt[tx.hash] \in Nat /\ tx.nonce >= o.state.nonce[tx.from]
    BY <1>3 DEF ObjectOK, UnprunedOK, HashesOf
  <2>2. CASE IsLive(o, tx, t)
    <3>1. /\ tx \in r.pendingTransactions
          /\ r.receivedAt[tx.hash] = o.receivedAt[tx.hash]
      BY <1>1, <1>3, <2>2, PruneKeepsLive
    <3> QED
      BY <1>3, <3>1 DEF Alive
  <2>3. CASE ~IsLive(o, tx, t)
    <3>1. ~(t - o.receivedAt[tx.hash] <= TxTtl)
      BY <2>1, <2>3 DEF IsLive
    <3>2. t > since + TxTtl
      BY <1>3, <2>1, <3>1, BlockchainAssumption
    <3> QED
      BY <3>2 DEF Alive
  <2> QED
    BY <2>2, <2>3
<1>4. CASE Settled(o, tx)
  BY <1>2, <1>4 DEF Alive, Settled
<1> HIDE DEF r
<1> QED
  BY <1>3, <1>4 DEF Alive, r

\* A block out of the own pool confirms transfers of it and drops only those
\* that are expired: the balances still cover all the others.
LEMMA BlockAlive ==
  ASSUME NEW o, NEW t \in Nat, ObjectOK(o, t), Fits(o.state, o.pendingTransactions),
         NEW b, IsBlock(b), CanAddBlock(o, b, t),
         \A i \in 1 .. Len(b.transactions) :
           b.transactions[i] \in o.pendingTransactions,
         NEW tx, NEW since \in Nat, Alive(o, tx, since, t)
  PROVE  Alive(AddBlock(o, b, t), tx, since, t)
<1> DEFINE st == ApplyBlockTransactions(b, o.state).state
           P == o.pendingTransactions
           T == Range(b.transactions)
           r == [o EXCEPT !.chain = Append(@, b), !.state = st]
           q == PruneMempool(r, t)
<1>1. /\ IsObject(r) /\ r.chain = Append(o.chain, b) /\ r.state = st
      /\ r.pendingTransactions = P /\ r.receivedAt = o.receivedAt
  <2> HIDE DEF st
  <2> QED
    BY DEF ObjectOK, UnprunedOK, IsObject
<1>2. AddBlock(o, b, t) = q
  BY DEF AddBlock
<1>3. /\ IsPool(P) /\ o.state \in WorldState /\ IsSeq(o.chain)
      /\ DOMAIN o.receivedAt = HashesOf(P)
      /\ \A x \in P : x.nonce >= o.state.nonce[x.from]
      /\ \A h \in DOMAIN o.receivedAt : o.receivedAt[h] \in Nat
  BY DEF ObjectOK, UnprunedOK, IsPool, ChainOK, IsChain
<1>4. Spent(P, o.state, st, T)
  <2>1. ApplyBlockTransactions(b, o.state).ok
    BY DEF CanAddBlock
  <2>2. ApplyBlockTransactions(b, o.state) = ApplyAll(o.state, b.transactions)
    BY <2>1 DEF ApplyBlockTransactions, Rejected
  <2>3. Spent(P, o.state, o.state, {})
    <3>1. P \ {} = P
      OBVIOUS
    <3>2. \A a \in Address : o.state.nonce[a] \in Nat
      BY <1>3 DEF WorldState
    <3> QED
      BY <1>3, <3>1, <3>2 DEF Spent
  <2> QED
    BY <1>3, <2>1, <2>2, <2>3, SpendAll DEF IsBlock
<1> HIDE DEF st, P, T, r
<1>5. Prunable(r) /\ DOMAIN r.receivedAt = HashesOf(r.pendingTransactions)
  BY <1>1, <1>3, <1>4 DEF Prunable, Spent, IsPool
<1>6. q.chain = Append(o.chain, b) /\ q.state = st
  BY <1>1, <1>5, PruneFacts DEF Prunable
<1>7. /\ Len(o.chain) \in Nat /\ Len(q.chain) = Len(o.chain) + 1
      /\ DOMAIN o.chain = 1 .. Len(o.chain) /\ DOMAIN q.chain = 1 .. Len(o.chain) + 1
      /\ \A i \in DOMAIN o.chain : q.chain[i] = o.chain[i]
      /\ q.chain[Len(o.chain) + 1] = b
  BY <1>3, <1>6, AppendIsSeq DEF IsSeq
<1> HIDE DEF q
<1>8. CASE tx \in P /\ o.receivedAt[tx.hash] >= since
  <2>0. /\ tx.from \in Address /\ tx.nonce \in Nat /\ st.nonce[tx.from] \in Nat
        /\ o.receivedAt[tx.hash] \in Nat
    BY <1>3, <1>4, <1>8 DEF IsPool, VerifyTransaction, Spent, WorldState, HashesOf
  <2>1. CASE tx \in T
    <3>1. tx.nonce < st.nonce[tx.from]
      BY <1>4, <2>1 DEF Spent
    <3>2. \E i \in DOMAIN q.chain : tx \in Range(q.chain[i].transactions)
      BY <1>7, <2>1 DEF T
    <3>3. Settled(q, tx)
      BY <1>6, <2>0, <3>1, <3>2 DEF Settled
    <3> QED
      BY <1>2, <3>3 DEF Alive
  <2>2. CASE tx \notin T /\ IsLive(r, tx, t)
    <3>1. \A x \in P : IsLive(r, x, t) => x \in P \ T
      <4> SUFFICES ASSUME NEW x \in P, IsLive(r, x, t), x \in T
                   PROVE  FALSE
        OBVIOUS
      <4>1. x.nonce < st.nonce[x.from] /\ x.nonce >= st.nonce[x.from]
        BY <1>1, <1>4 DEF Spent, IsLive
      <4>2. x.nonce \in Nat /\ st.nonce[x.from] \in Nat
        BY <1>3, <1>4 DEF IsPool, VerifyTransaction, Spent, WorldState
      <4> QED
        BY <4>1, <4>2
    <3>2. Fits(r.state, P \ T) /\ P \ T \in SUBSET r.pendingTransactions
      BY <1>1, <1>4 DEF Spent
    <3>3. /\ tx \in r.pendingTransactions
          /\ \A x \in r.pendingTransactions : IsLive(r, x, t) => x \in P \ T
      BY <1>1, <1>8, <3>1
    <3>4. /\ tx \in PruneMempool(r, t).pendingTransactions
          /\ PruneMempool(r, t).receivedAt[tx.hash] = r.receivedAt[tx.hash]
      BY <1>5, <2>2, <3>2, <3>3, PruneKeepsLive
    <3> QED
      BY <1>1, <1>2, <1>8, <3>4 DEF Alive, q
  <2>3. CASE tx \notin T /\ ~IsLive(r, tx, t)
    <3>1. tx.nonce >= st.nonce[tx.from]
      BY <1>4, <1>8, <2>3 DEF Spent
    <3>2. ~(t - o.receivedAt[tx.hash] <= TxTtl)
      BY <1>1, <2>3, <3>1 DEF IsLive
    <3>3. t > since + TxTtl
      BY <1>8, <2>0, <3>2, BlockchainAssumption
    <3> QED
      BY <3>3 DEF Alive
  <2> QED
    BY <2>1, <2>2, <2>3
<1>9. CASE Settled(o, tx)
  <2>1. /\ tx.from \in Address /\ tx.nonce \in Nat
        /\ tx.nonce < o.state.nonce[tx.from]
    BY <1>9 DEF Settled
  <2>2. /\ st.nonce[tx.from] >= o.state.nonce[tx.from]
        /\ st.nonce[tx.from] \in Nat /\ o.state.nonce[tx.from] \in Nat
    BY <1>3, <1>4, <2>1 DEF Spent, WorldState
  <2>3. tx.nonce < st.nonce[tx.from]
    BY <2>1, <2>2
  <2>4. \E i \in DOMAIN q.chain : tx \in Range(q.chain[i].transactions)
    <3>1. PICK i \in DOMAIN o.chain : tx \in Range(o.chain[i].transactions)
      BY <1>9 DEF Settled
    <3>2. i \in DOMAIN q.chain /\ q.chain[i] = o.chain[i]
      BY <1>7
    <3> QED
      BY <3>1, <3>2
  <2> QED
    BY <1>2, <1>6, <2>1, <2>3, <2>4 DEF Alive, Settled
<1>10. CASE t > since + TxTtl
  BY <1>10 DEF Alive
<1> QED
  BY <1>8, <1>9, <1>10 DEF Alive, P

-----------------------------------------------------------------------------
(* The node under its clients                                              *)

\* What a node does here: serve any submission, and go on by itself.
NodeMove ==
  \/ \E tx : SubmitTransaction(tx)
  \/ Tick
  \/ SweepMempool
  \/ Propose
  \/ Restart
  \/ UNCHANGED vars

LEMMA ClientStepIsNodeMove == [ClientNext]_allVars => NodeMove
BY DEF ClientNext, Send, ReceiveAccount, ReceiveResult, Timeout, LoseConnection,
       ServeGetAccount, ServeSubmit, NodeStep, NodeRestart, allVars, NodeMove

\* The invariants of the node hold for submissions of any transaction, not
\* only for those of TxInput.
NodeInv == IInv /\ PoolInv /\ Mirrored

LEMMA SubmitKeeps ==
  ASSUME DiskMayFail = FALSE, NodeInv, NEW tx, SubmitTransaction(tx)
  PROVE  NodeInv'
<1>0. /\ now \in Nat /\ ObjectOK(bc, now)
      /\ SizeOK(bc.pendingTransactions) /\ Fits(bc.state, bc.pendingTransactions)
  BY NodeAssumption DEF NodeInv, IInv, PoolInv
<1>1. /\ CanAddTransaction(bc, tx) /\ bc' = AddTransaction(bc, tx, now)
      /\ Persist(bc') /\ now' = now
  BY DEF SubmitTransaction
<1>2. ObjectOK(bc', now)
  BY <1>0, <1>1, AddTransactionOK
<1>3. DiskOK(disk', now)
  BY <1>1, <1>2, PersistOK DEF NodeInv
<1>4. IInv'
  BY <1>1, <1>2, <1>3 DEF NodeInv, IInv
<1>5. SizeOK(bc'.pendingTransactions) /\ Fits(bc'.state, bc'.pendingTransactions)
  BY <1>0, <1>1, AddTransactionPool
<1>6. PoolInv'
  BY <1>1, <1>5, PersistPool DEF NodeInv, PoolInv
<1>7. Mirrored'
  BY <1>1 DEF Persist, Mirrored
<1> QED
  BY <1>4, <1>6, <1>7 DEF NodeInv

LEMMA MoveKeeps ==
  ASSUME DiskMayFail = FALSE, NodeInv, NodeMove
  PROVE  NodeInv'
<1>1. CASE \E tx : SubmitTransaction(tx)
  BY <1>1, SubmitKeeps
<1>2. CASE [Next]_vars
  BY <1>2, NextIInv, NextPool, NextMirrored DEF NodeInv
<1> QED
  BY <1>1, <1>2 DEF NodeMove, Next

LEMMA InitNode == ClientInit => NodeInv
BY InitIInv, InitPool DEF ClientInit, Init, Mirrored, NodeInv

\* What is restored arrives at the time of the restart.
LEMMA RestoredNow ==
  ASSUME NEW d, NEW t \in Nat, DiskOK(d, t),
         NEW h \in DOMAIN Restore(d, t).receivedAt
  PROVE  Restore(d, t).receivedAt[h] = t
<1>1. CASE d # NoSnapshot
  <2> DEFINE u == Reloaded(d, t)
  <2>1. UnprunedOK(u, t) /\ Restore(d, t) = PruneMempool(u, t)
    BY <1>1, RestoreIsReload
  <2>2. \A k \in DOMAIN u.receivedAt : u.receivedAt[k] = t
    BY DEF Reloaded, NewBlockchain
  <2> HIDE DEF u
  <2>3. /\ h \in DOMAIN u.receivedAt
        /\ Restore(d, t).receivedAt[h] = u.receivedAt[h]
    BY <2>1, PruneFacts DEF UnprunedOK
  <2> QED
    BY <2>2, <2>3
<1>2. CASE d = NoSnapshot
  <2>1. Restore(d, t) = NewBlockchain
    BY <1>2, Zenon DEF Restore
  <2> QED
    BY <2>1 DEF NewBlockchain
<1> QED
  BY <1>1, <1>2

\* Whatever the node does, a transfer that is alive stays so.
LEMMA MoveAlive ==
  ASSUME DiskMayFail = FALSE, NodeInv, NodeMove,
         NEW tx, NEW since \in 0 .. now, Alive(bc, tx, since, now)
  PROVE  Alive(bc', tx, since, now')
<1>0. /\ now \in Nat /\ since \in Nat /\ since <= now
      /\ ObjectOK(bc, now) /\ Fits(bc.state, bc.pendingTransactions)
      /\ IsObject(bc)
  BY NodeAssumption DEF NodeInv, IInv, PoolInv, ObjectOK, UnprunedOK
<1>1. ASSUME NEW u, SubmitTransaction(u)
      PROVE  Alive(bc', tx, since, now')
  <2>1. /\ bc'.chain = bc.chain /\ bc'.state = bc.state /\ now' = now
        /\ bc'.pendingTransactions = bc.pendingTransactions \cup {u}
        /\ bc'.receivedAt = Arrived(bc.receivedAt, u.hash, now)
    BY <1>0, <1>1 DEF SubmitTransaction, AddTransaction, IsObject
  <2>2. CASE tx \in bc.pendingTransactions /\ bc.receivedAt[tx.hash] >= since
    <3>1. u.hash \notin HashesOf(bc.pendingTransactions)
      BY <1>1 DEF SubmitTransaction, CanAddTransaction
    <3>2. tx.hash \in DOMAIN bc.receivedAt /\ tx.hash # u.hash
      BY <1>0, <2>2, <3>1 DEF ObjectOK, UnprunedOK, HashesOf
    <3>3. bc'.receivedAt[tx.hash] = bc.receivedAt[tx.hash]
      BY <2>1, <3>2 DEF Arrived
    <3> QED
      BY <2>1, <2>2, <3>3 DEF Alive
  <2>3. CASE Settled(bc, tx)
    BY <2>1, <2>3 DEF Alive, Settled
  <2>4. CASE now > since + TxTtl
    BY <2>1, <2>4 DEF Alive
  <2> QED
    BY <2>2, <2>3, <2>4 DEF Alive
<1>2. CASE Tick
  <2>1. bc' = bc /\ now' = now + 1
    BY <1>2 DEF Tick
  <2>2. now > since + TxTtl => now' > since + TxTtl
    BY <1>0, <2>1, BlockchainAssumption
  <2> QED
    BY <2>1, <2>2 DEF Alive
<1>3. CASE SweepMempool
  BY <1>0, <1>3, SweepAlive DEF SweepMempool
<1>4. CASE Propose
  <2>1. PICK b \in Proposals(bc, MyKey, now) :
          bc' = AddBlock(bc, b, now) /\ now' = now
    BY <1>4 DEF Propose
  <2>2. /\ IsBlock(b) /\ CanAddBlock(bc, b, now)
        /\ \A i \in 1 .. Len(b.transactions) :
             b.transactions[i] \in bc.pendingTransactions
    BY <1>0, ProposalOK
  <2> QED
    BY <1>0, <2>1, <2>2, BlockAlive
<1>5. CASE Restart
  <2>1. /\ bc'.chain = bc.chain /\ bc'.state = bc.state /\ now' = now
        /\ bc'.pendingTransactions = bc.pendingTransactions
    BY <1>5, RestartKeeps DEF NodeInv, Restart
  <2>2. CASE tx \in bc.pendingTransactions
    <3>1. NodeInv'
      BY MoveKeeps
    <3>2. tx.hash \in DOMAIN bc'.receivedAt
      BY <2>1, <2>2, <3>1 DEF NodeInv, IInv, ObjectOK, UnprunedOK, HashesOf
    <3>3. bc'.receivedAt[tx.hash] = now
      BY <1>0, <1>5, <3>2, RestoredNow DEF Restart, NodeInv, IInv
    <3> QED
      BY <1>0, <2>1, <2>2, <3>3 DEF Alive
  <2>3. CASE Settled(bc, tx)
    BY <2>1, <2>3 DEF Alive, Settled
  <2>4. CASE now > since + TxTtl
    BY <2>1, <2>4 DEF Alive
  <2> QED
    BY <2>2, <2>3, <2>4 DEF Alive
<1>6. CASE UNCHANGED vars
  BY <1>6 DEF vars, Alive
<1> QED
  BY <1>1, <1>2, <1>3, <1>4, <1>5, <1>6 DEF NodeMove

-----------------------------------------------------------------------------
(* Accepted transfers                                                      *)

\* Two sends use the same nonce of the same account.
Rivals(s, t) == paid[s].from = paid[t].from /\ paid[s].nonce = paid[t].nonce

\* One of two admissions came after the other's time to live.
Apart(s, t) ==
  \/ admitted[t] > admitted[s] + TxTtl
  \/ admitted[s] > admitted[t] + TxTtl

KeptInv ==
  /\ \A s \in DOMAIN admitted :
       admitted[s] \in 0 .. now /\ Alive(bc, paid[s], admitted[s], now)
  /\ \A s, t \in DOMAIN admitted : s # t /\ Rivals(s, t) => Apart(s, t)

\* The transfers of admitted sends are fixed, and a send is admitted once.
LEMMA AdmittedOnce ==
  ASSUME TalkInv, [ClientNext]_allVars
  PROVE  \/ /\ admitted' = admitted
            /\ \A r \in DOMAIN admitted : paid'[r] = paid[r]
         \/ \E s \in Sends \ DOMAIN admitted :
              /\ SubmitTransaction(paid[s])
              /\ admitted' = Arrived(admitted, s, now)
              /\ paid' = paid
<1>1. ASSUME NEW s \in Sends, ReceiveAccount(s)
      PROVE  /\ admitted' = admitted
             /\ \A r \in DOMAIN admitted : paid'[r] = paid[r]
  <2>1. s \notin DOMAIN admitted
    BY <1>1 DEF ReceiveAccount, TalkInv, Stage
  <2> QED
    BY <1>1, <2>1 DEF ReceiveAccount, TalkInv
<1>2. ASSUME NEW s \in Sends, ServeSubmit(s), admitted' # admitted
      PROVE  /\ s \notin DOMAIN admitted
             /\ SubmitTransaction(paid[s])
             /\ admitted' = Arrived(admitted, s, now)
             /\ paid' = paid
  BY <1>2, Messages DEF ServeSubmit, TalkInv, Stage
<1> QED
  BY <1>1, <1>2
     DEF ClientNext, Send, ReceiveResult, Timeout, LoseConnection,
         ServeGetAccount, ServeSubmit, NodeStep, NodeRestart, clientVars, allVars

\* The node admits a transfer only if no rival is alive.
LEMMA NoLivingRival ==
  ASSUME NodeInv, NEW tx, CanAddTransaction(bc, tx),
         NEW u, u.from = tx.from, u.nonce = tx.nonce,
         NEW since \in 0 .. now, Alive(bc, u, since, now)
  PROVE  now > since + TxTtl
<1>1. /\ tx.nonce >= bc.state.nonce[tx.from] /\ tx.nonce \in Nat
      /\ tx.from \in Address
      /\ \A x \in bc.pendingTransactions : x.from = tx.from => x.nonce # tx.nonce
  BY DEF CanAddTransaction, VerifyTransaction, PendingOf
<1>2. bc.state.nonce[tx.from] \in Nat
  BY <1>1 DEF NodeInv, IInv, ObjectOK, UnprunedOK, WorldState
<1>3. u \notin bc.pendingTransactions
  BY <1>1
<1>4. ~Settled(bc, u)
  BY <1>1, <1>2 DEF Settled
<1> QED
  BY <1>3, <1>4 DEF Alive

\* Every step keeps what was admitted alive, and rivals apart.
LEMMA NextKept ==
  ASSUME DiskMayFail = FALSE, NodeInv, TalkInv, KeptInv, [ClientNext]_allVars
  PROVE  KeptInv'
<1>0. NodeMove
  BY ClientStepIsNodeMove
<1>1. now \in Nat /\ now' \in Nat /\ now <= now'
  <2>1. now \in Nat
    BY NodeAssumption DEF NodeInv, IInv
  <2> QED
    BY <1>0, <2>1
       DEF NodeMove, SubmitTransaction, Tick, SweepMempool, Propose, Restart, vars
<1>2. \A r \in DOMAIN admitted :
        /\ admitted[r] \in 0 .. now'
        /\ Alive(bc', paid[r], admitted[r], now')
  <2> SUFFICES ASSUME NEW r \in DOMAIN admitted
               PROVE  /\ admitted[r] \in 0 .. now'
                      /\ Alive(bc', paid[r], admitted[r], now')
    OBVIOUS
  <2>1. admitted[r] \in 0 .. now /\ Alive(bc, paid[r], admitted[r], now)
    BY DEF KeptInv
  <2>2. admitted[r] \in 0 .. now'
    BY <1>1, <2>1
  <2>3. Alive(bc', paid[r], admitted[r], now')
    BY <1>0, <2>1, MoveAlive
  <2> QED
    BY <2>2, <2>3
<1>3. CASE /\ admitted' = admitted
           /\ \A r \in DOMAIN admitted : paid'[r] = paid[r]
  <2>1. \A r \in DOMAIN admitted' :
          admitted'[r] \in 0 .. now' /\ Alive(bc', paid'[r], admitted'[r], now')
    BY <1>2, <1>3
  <2>2. ASSUME NEW r \in DOMAIN admitted', NEW t \in DOMAIN admitted',
               r # t, Rivals(r, t)'
        PROVE  Apart(r, t)'
    <3>1. r \in DOMAIN admitted /\ t \in DOMAIN admitted
      BY <1>3, <2>2
    <3>2. paid'[r] = paid[r] /\ paid'[t] = paid[t]
      BY <1>3, <3>1
    <3>3. Rivals(r, t)
      BY <2>2, <3>2 DEF Rivals
    <3>4. Apart(r, t)
      BY <2>2, <3>1, <3>3 DEF KeptInv
    <3> QED
      BY <1>3, <3>4 DEF Apart
  <2> QED
    BY <2>1, <2>2 DEF KeptInv
<1>4. ASSUME NEW s \in Sends \ DOMAIN admitted, SubmitTransaction(paid[s]),
             admitted' = Arrived(admitted, s, now), paid' = paid
      PROVE  KeptInv'
  <2> DEFINE tx == paid[s]
  <2>1. /\ DOMAIN admitted' = DOMAIN admitted \cup {s}
        /\ admitted'[s] = now
        /\ \A r \in DOMAIN admitted : admitted'[r] = admitted[r]
    BY <1>4 DEF Arrived
  <2>2. /\ CanAddTransaction(bc, tx) /\ now' = now
        /\ bc' = AddTransaction(bc, tx, now)
    BY <1>4 DEF SubmitTransaction
  <2>3. tx \in bc'.pendingTransactions /\ bc'.receivedAt[tx.hash] = now
    <3>1. IsObject(bc)
      BY DEF NodeInv, IInv, ObjectOK, UnprunedOK
    <3> QED
      BY <2>2, <3>1 DEF AddTransaction, Arrived, IsObject
  <2>4. Alive(bc', tx, now, now')
    BY <1>1, <2>3 DEF Alive
  <2>5. ASSUME NEW r \in DOMAIN admitted, Rivals(r, s)
        PROVE  now > admitted[r] + TxTtl
    <3>1. /\ admitted[r] \in 0 .. now /\ Alive(bc, paid[r], admitted[r], now)
      BY DEF KeptInv
    <3> QED
      BY <2>2, <2>5, <3>1, NoLivingRival DEF Rivals
  <2> HIDE DEF tx
  <2>6. \A r \in DOMAIN admitted' :
          admitted'[r] \in 0 .. now' /\ Alive(bc', paid'[r], admitted'[r], now')
    BY <1>1, <1>2, <1>4, <2>1, <2>2, <2>4 DEF tx
  <2>7. \A r, t \in DOMAIN admitted' : r # t /\ Rivals(r, t)' => Apart(r, t)'
    <3> SUFFICES ASSUME NEW r \in DOMAIN admitted', NEW t \in DOMAIN admitted',
                        r # t, Rivals(r, t)'
                 PROVE  Apart(r, t)'
      OBVIOUS
    <3>1. Rivals(r, t) /\ Rivals(t, r)
      BY <1>4 DEF Rivals
    <3>2. CASE r = s
      BY <2>1, <2>5, <3>1, <3>2 DEF Apart
    <3>3. CASE t = s
      BY <2>1, <2>5, <3>1, <3>3 DEF Apart
    <3>4. CASE r # s /\ t # s
      BY <2>1, <3>1, <3>4 DEF KeptInv, Apart
    <3> QED
      BY <3>2, <3>3, <3>4
  <2> QED
    BY <2>6, <2>7 DEF KeptInv
<1> QED
  BY <1>3, <1>4, AdmittedOnce

\* If no save fails, every state a client can observe is sound.
THEOREM ClientsSound ==
  ASSUME DiskMayFail = FALSE
  PROVE  ClientSpec => [](NodeInv /\ TalkInv /\ KeptInv)
<1>1. ClientInit => KeptInv
  BY DEF ClientInit, KeptInv
<1>2. NodeInv /\ [ClientNext]_allVars => NodeInv'
  BY ClientStepIsNodeMove, MoveKeeps
<1>3. NodeInv /\ TalkInv /\ KeptInv /\ [ClientNext]_allVars => KeptInv'
  BY NextKept
<1> QED
  BY <1>1, <1>2, <1>3, InitNode, InitTalk, NextTalk, PTL DEF ClientSpec

\* If no save fails, a transfer that was reported as accepted is pending or
\* confirmed until its time to live is over, across blocks of the node's own
\* pool, sweeps, other sends and restarts.
THEOREM AcceptedStaysAlive ==
  ASSUME DiskMayFail = FALSE
  PROVE  ClientSpec => []AcceptedKept
<1>1. NodeInv /\ TalkInv /\ KeptInv => AcceptedKept
  BY DEF TalkInv, Stage, KeptInv, Alive, Settled, AcceptedKept
<1> QED
  BY <1>1, ClientsSound, PTL

\* If no save fails, two overlapping sends are never both accepted with one
\* nonce while the transfer of the first is alive.
THEOREM AcceptedNoncesDiffer ==
  ASSUME DiskMayFail = FALSE
  PROVE  ClientSpec => []NonceNotShared
<1>1. TalkInv /\ KeptInv => NonceNotShared
  BY DEF TalkInv, Stage, KeptInv, Rivals, Apart, NonceNotShared
<1> QED
  BY <1>1, ClientsSound, PTL

=============================================================================
