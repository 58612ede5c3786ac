--------------------------- MODULE PaymentsProofs ---------------------------
(***************************************************************************)
(* Proofs about what the chain of a Node means to the holders of accounts: *)
(* the replayed state is the account state that Payments defines from the  *)
(* list of confirmed transactions, no nonce is spent twice, no money is    *)
(* created, and with a disk that works Node implements Payments.           *)
(*                                                                         *)
(* All of it follows from one fact, Hist below, that each transaction      *)
(* applied to the account state preserves.                                 *)
(***************************************************************************)
EXTENDS NodeProofs

-----------------------------------------------------------------------------
(* Amounts                                                                 *)

\* On the subsets of a finite set of positions, AmountOf is a sum.
LEMMA AmountIsSum ==
  ASSUME NEW list, NEW U, IsFiniteSet(U), \A k \in U : list[k].amount \in Nat
  PROVE  \E g : /\ IsSum(g, U, [k \in U |-> list[k].amount])
                /\ \A s \in SUBSET U : PaymentService!AmountOf(list, s) = g[s]
<1> DEFINE w == [k \in U |-> list[k].amount]
           F(s, h) == [r \in SUBSET s |->
                         IF r = {} THEN 0
                         ELSE LET x == CHOOSE x \in r : TRUE
                              IN  list[x].amount + h[r \ {x}]]
           sol(s) == CHOOSE h : h = F(s, h)
<1>1. \A s : PaymentService!AmountOf(list, s) = sol(s)[s]
  BY DEF PaymentService!AmountOf, PaymentService!MapThenSumSet,
         PaymentService!MapThenFoldSet
<1>2. ASSUME NEW s \in SUBSET U
      PROVE  IsSum(sol(s), s, [k \in s |-> list[k].amount])
  <2> DEFINE v == [k \in s |-> list[k].amount]
             g == sol(s)
  <2>1. IsFiniteSet(s) /\ v \in [s -> Nat]
    BY FS_Subset
  <2>2. PICK k : IsSum(k, s, v)
    BY <2>1, SumExists
  <2>3. \A r \in SUBSET s : r # {} =>
          v[CHOOSE x \in r : TRUE] = list[CHOOSE x \in r : TRUE].amount
    OBVIOUS
  <2> HIDE DEF v
  <2>4. k = F(s, k)
    BY <2>2, <2>3 DEF IsSum
  <2>5. g = F(s, g)
    <3> HIDE DEF F
    <3> QED
      BY <2>4
  <2> HIDE DEF g
  <2>6. g = [r \in SUBSET s |->
               IF r = {} THEN 0
               ELSE LET x == CHOOSE x \in r : TRUE
                    IN  v[x] + g[r \ {x}]]
    BY <2>3, <2>5
  <2>7. IsSum(g, s, v)
    BY <2>1, <2>6, SumSolution
  <2> QED
    BY <2>7 DEF g, v
<1> HIDE DEF sol
<1>3. w \in [U -> Nat]
  OBVIOUS
<1>4. PICK g : IsSum(g, U, w)
  BY <1>3, SumExists
<1>5. ASSUME NEW s \in SUBSET U
      PROVE  PaymentService!AmountOf(list, s) = g[s]
  <2> DEFINE v == [k \in s |-> list[k].amount]
  <2>1. \A x \in s : w[x] = v[x]
    OBVIOUS
  <2>2. IsSum(sol(s), s, v) /\ IsFiniteSet(U)
    BY <1>2
  <2> HIDE DEF w, v
  <2>3. \A r \in SUBSET U :
          r \subseteq s /\ (\A x \in r : w[x] = v[x]) => g[r] = sol(s)[r]
    BY <1>4, <2>2, SumAgree
  <2>4. g[s] = sol(s)[s]
    BY <2>1, <2>3
  <2> QED
    BY <1>1, <2>4
<1> QED
  BY <1>4, <1>5

\* A list of n transactions that verify.
IsList(list, n) ==
  /\ DOMAIN list = 1 .. n
  /\ \A k \in 1 .. n : VerifyTransaction(list[k])

\* A list with one transaction more at its end.
Continues(more, list, n) ==
  /\ IsList(list, n)
  /\ IsList(more, n + 1)
  /\ \A k \in 1 .. n : more[k] = list[k]

\* One position more, its amount on top; what is at the others is as before.
LEMMA AmountAdd ==
  ASSUME NEW n \in Nat, NEW ks \in SUBSET (1 .. n), NEW list, NEW more,
         Continues(more, list, n)
  PROVE  /\ PaymentService!AmountOf(list, ks) \in Nat
         /\ PaymentService!AmountOf(more, ks) = PaymentService!AmountOf(list, ks)
         /\ PaymentService!AmountOf(more, ks \cup {n + 1})
              = PaymentService!AmountOf(list, ks) + more[n + 1].amount
<1>c. /\ \A k \in 1 .. n : list[k].amount \in Nat
      /\ \A k \in 1 .. n : more[k] = list[k]
      /\ more[n + 1].amount \in Nat
  BY DEF Continues, IsList, VerifyTransaction
<1> DEFINE U == 1 .. n + 1
           W == 1 .. n
           w == [k \in U |-> more[k].amount]
           v == [k \in W |-> list[k].amount]
           e == n + 1
           S == ks \cup {e}
<1>0. IsFiniteSet(1 .. n + 1) /\ IsFiniteSet(1 .. n)
  <2>1. 1 \in Int /\ n \in Int /\ n + 1 \in Int
    OBVIOUS
  <2> QED
    BY <2>1, FS_Interval
<1>1. /\ IsFiniteSet(U) /\ IsFiniteSet(W)
      /\ W \in SUBSET U /\ e \in U /\ e \notin W
      /\ \A k \in U : k \in W \/ k = e
  BY <1>0
<1>2. \A k \in U : more[k].amount \in Nat
  BY <1>1, <1>c
<1>3. w \in [U -> Nat] /\ v \in [W -> Nat]
  BY <1>2, <1>c
<1>4. \A k \in ks : w[k] = v[k]
  BY <1>1, <1>c
<1>5. w[e] = more[e].amount
  BY <1>1
<1>6. ks \in SUBSET U /\ S \in SUBSET U /\ e \in S /\ S \ {e} = ks
  BY <1>1
<1>7. PICK g : /\ IsSum(g, U, w)
               /\ \A s \in SUBSET U : PaymentService!AmountOf(more, s) = g[s]
  BY <1>1, <1>2, AmountIsSum
<1>8. PICK h : /\ IsSum(h, W, v)
               /\ \A s \in SUBSET W : PaymentService!AmountOf(list, s) = h[s]
  BY <1>1, <1>c, AmountIsSum
<1>a. ks \in SUBSET W
  OBVIOUS
<1> HIDE DEF w, v, U, W, S, e
<1>9. g[ks] = h[ks]
  <2>1. \A s \in SUBSET U :
          s \subseteq W /\ (\A x \in s : w[x] = v[x]) => g[s] = h[s]
    BY <1>1, <1>7, <1>8, SumAgree
  <2>2. ks \subseteq W
    BY <1>a
  <2> QED
    BY <1>4, <1>6, <2>1, <2>2
<1>10. g[S] = w[e] + g[S \ {e}]
  BY <1>1, <1>3, <1>6, <1>7, SumRemove
<1>11. h[ks] \in Nat
  BY <1>8, <1>a DEF IsSum
<1>12. PaymentService!AmountOf(list, ks) = h[ks]
  BY <1>8, <1>a
<1>13. PaymentService!AmountOf(more, ks) = g[ks]
  BY <1>6, <1>7
<1>14. PaymentService!AmountOf(more, S) = more[e].amount + h[ks]
  BY <1>5, <1>6, <1>7, <1>9, <1>10
<1>15. more[e].amount \in Nat
  BY <1>c DEF e
<1>16. PaymentService!AmountOf(more, S) = h[ks] + more[e].amount
  BY <1>11, <1>14, <1>15
<1> QED
  BY <1>9, <1>11, <1>12, <1>13, <1>16 DEF S, e


-----------------------------------------------------------------------------
(* Accounts                                                                *)

\* Payments counts as its instance does.
LEMMA SameCardinality == \A S : PaymentService!Cardinality(S) = Cardinality(S)
BY DEF PaymentService!Cardinality, Cardinality

\* The number of transactions of an account in a list.
SentCount(list, a) == Cardinality({k \in DOMAIN list : list[k].from = a})

\* What one transaction more at the end of a list does to what an account
\* has received and sent, and to the number of its transactions.
LEMMA AccountStep ==
  ASSUME NEW n \in Nat, NEW list, NEW more, Continues(more, list, n),
         NEW a
  PROVE  LET t == more[n + 1]
         IN  /\ PaymentService!Received(list, a) \in Nat
             /\ PaymentService!Received(more, a)
                  = PaymentService!Received(list, a)
                      + (IF t.to = a THEN t.amount ELSE 0)
             /\ PaymentService!Sent(list, a) \in Nat
             /\ PaymentService!Sent(more, a)
                  = PaymentService!Sent(list, a)
                      + (IF t.from = a THEN t.amount ELSE 0)
             /\ SentCount(list, a) \in Nat
             /\ SentCount(more, a)
                  = SentCount(list, a) + (IF t.from = a THEN 1 ELSE 0)
<1> DEFINE t == more[n + 1]
           e == n + 1
           to(l)   == {k \in DOMAIN l : l[k].to = a}
           from(l) == {k \in DOMAIN l : l[k].from = a}
<1>1. /\ DOMAIN list = 1 .. n /\ DOMAIN more = 1 .. n + 1
      /\ \A k \in 1 .. n : list[k].amount \in Nat
      /\ \A k \in 1 .. n : more[k] = list[k]
      /\ t.amount \in Nat
  BY DEF Continues, IsList, VerifyTransaction
<1>2. /\ \A k \in 1 .. n + 1 : k \in 1 .. n \/ k = e
      /\ 1 .. n \subseteq 1 .. n + 1 /\ e \in 1 .. n + 1 /\ e \notin 1 .. n
  OBVIOUS
<1>3. to(list) \in SUBSET (1 .. n) /\ from(list) \in SUBSET (1 .. n)
  BY <1>1
<1>4. to(more) = IF t.to = a THEN to(list) \cup {e} ELSE to(list)
  BY <1>1, <1>2
<1>5. from(more) = IF t.from = a THEN from(list) \cup {e} ELSE from(list)
  BY <1>1, <1>2
<1>6. /\ PaymentService!Received(list, a) = PaymentService!AmountOf(list, to(list))
      /\ PaymentService!Received(more, a) = PaymentService!AmountOf(more, to(more))
      /\ PaymentService!Sent(list, a) = PaymentService!AmountOf(list, from(list))
      /\ PaymentService!Sent(more, a) = PaymentService!AmountOf(more, from(more))
      /\ SentCount(list, a) = Cardinality(from(list))
      /\ SentCount(more, a) = Cardinality(from(more))
  BY DEF PaymentService!Received, PaymentService!Sent, SentCount
<1>7. IsFiniteSet(from(list)) /\ Cardinality(from(list)) \in Nat
  <2>1. IsFiniteSet(1 .. n)
    <3>1. 1 \in Int /\ n \in Int
      OBVIOUS
    <3> QED
      BY <3>1, FS_Interval
  <2> HIDE DEF from
  <2>2. IsFiniteSet(from(list))
    BY <1>3, <2>1, FS_Subset
  <2> QED
    BY <2>2, FS_CardinalityType
<1>8. e \notin from(list)
  BY <1>2, <1>3
<1> HIDE DEF to, from
<1>a. \A ks \in SUBSET (1 .. n) :
        /\ PaymentService!AmountOf(list, ks) \in Nat
        /\ PaymentService!AmountOf(more, ks) = PaymentService!AmountOf(list, ks)
        /\ PaymentService!AmountOf(more, ks \cup {n + 1})
             = PaymentService!AmountOf(list, ks) + more[n + 1].amount
  BY AmountAdd
<1>9. /\ PaymentService!AmountOf(list, to(list)) \in Nat
      /\ PaymentService!AmountOf(more, to(list))
           = PaymentService!AmountOf(list, to(list))
      /\ PaymentService!AmountOf(more, to(list) \cup {n + 1})
           = PaymentService!AmountOf(list, to(list)) + more[n + 1].amount
  BY <1>3, <1>a
<1>10. /\ PaymentService!AmountOf(list, from(list)) \in Nat
       /\ PaymentService!AmountOf(more, from(list))
            = PaymentService!AmountOf(list, from(list))
       /\ PaymentService!AmountOf(more, from(list) \cup {n + 1})
            = PaymentService!AmountOf(list, from(list)) + more[n + 1].amount
  BY <1>3, <1>a
<1>11. Cardinality(from(list) \cup {e}) = Cardinality(from(list)) + 1
  BY <1>7, <1>8, FS_AddElement
<1>12. /\ PaymentService!Received(list, a) \in Nat
       /\ PaymentService!Received(more, a)
            = PaymentService!Received(list, a)
                + (IF t.to = a THEN t.amount ELSE 0)
  BY <1>4, <1>6, <1>9
<1>13. /\ PaymentService!Sent(list, a) \in Nat
       /\ PaymentService!Sent(more, a)
            = PaymentService!Sent(list, a)
                + (IF t.from = a THEN t.amount ELSE 0)
  BY <1>5, <1>6, <1>10
<1>14. Cardinality(from(more))
         = Cardinality(from(list)) + (IF t.from = a THEN 1 ELSE 0)
  BY <1>5, <1>7, <1>11
<1> HIDE DEF t, e
<1> QED
  BY <1>6, <1>7, <1>12, <1>13, <1>14 DEF t

\* A transaction that applies takes the account state that Payments defines
\* from a list to the one it defines from the list with the transaction.
LEMMA AccountsAppend ==
  ASSUME NEW n \in Nat, NEW list, NEW more, Continues(more, list, n),
         NEW st \in WorldState, PaymentService!AccountsAfter(list) = st
  PROVE  PaymentService!AccountsAfter(more) = ApplyTx(st, more[n + 1])
<1> DEFINE t == more[n + 1]
           bal(l) == [a \in Address |-> GenesisAllocations[a]
                        + PaymentService!Received(l, a) - PaymentService!Sent(l, a)]
           non(l) == [a \in Address |-> SentCount(l, a)]
           newBalance == [st.balance EXCEPT ![t.from] = @ - t.amount,
                                            ![t.to]   = @ + t.amount]
           newNonce == [st.nonce EXCEPT ![t.from] = @ + 1]
<1>1. \A l : PaymentService!AccountsAfter(l) = [balance |-> bal(l), nonce |-> non(l)]
  BY SameCardinality DEF PaymentService!AccountsAfter, SentCount
<1>2. ApplyTx(st, t) = [balance |-> newBalance, nonce |-> newNonce]
  BY DEF ApplyTx
<1>3. /\ t.from \in Address /\ t.to \in Address /\ t.from # t.to
      /\ t.amount \in Nat
  BY DEF Continues, IsList, VerifyTransaction
<1>4. st.balance = bal(list) /\ st.nonce = non(list)
  <2> HIDE DEF bal, non
  <2>1. st = [balance |-> bal(list), nonce |-> non(list)]
    BY <1>1
  <2> QED
    BY <2>1
<1>5. /\ st.balance \in [Address -> Nat] /\ st.nonce \in [Address -> Nat]
  BY DEF WorldState
<1>6. ASSUME NEW a \in Address
      PROVE  bal(more)[a] = newBalance[a] /\ non(more)[a] = newNonce[a]
  <2> DEFINE r == PaymentService!Received(list, a)
             s == PaymentService!Sent(list, a)
             c == SentCount(list, a)
  <2>1. /\ r \in Nat /\ s \in Nat /\ c \in Nat
        /\ PaymentService!Received(more, a)
             = r + (IF t.to = a THEN t.amount ELSE 0)
        /\ PaymentService!Sent(more, a)
             = s + (IF t.from = a THEN t.amount ELSE 0)
        /\ SentCount(more, a) = c + (IF t.from = a THEN 1 ELSE 0)
    BY AccountStep
  <2>2. st.balance[a] = GenesisAllocations[a] + r - s /\ st.nonce[a] = c
    BY <1>4
  <2>3. GenesisAllocations[a] \in Nat
    BY LedgerAssumption
  <2>4. bal(more)[a] = GenesisAllocations[a]
                         + (r + (IF t.to = a THEN t.amount ELSE 0))
                         - (s + (IF t.from = a THEN t.amount ELSE 0))
    BY <2>1
  <2>5. non(more)[a] = c + (IF t.from = a THEN 1 ELSE 0)
    BY <2>1
  <2>6. newBalance[a] = IF a = t.to THEN st.balance[a] + t.amount
                        ELSE IF a = t.from THEN st.balance[a] - t.amount
                        ELSE st.balance[a]
    BY <1>3, <1>5
  <2>7. newNonce[a] = IF a = t.from THEN st.nonce[a] + 1 ELSE st.nonce[a]
    BY <1>3, <1>5
  <2> HIDE DEF r, s, c, t, bal, non, newBalance, newNonce
  <2>8. non(more)[a] = newNonce[a]
    BY <2>1, <2>2, <2>5, <2>7
  <2>9. bal(more)[a] = newBalance[a]
    BY <1>3, <2>1, <2>2, <2>3, <2>4, <2>6
  <2> QED
    BY <2>8, <2>9
<1>7. bal(more) = newBalance
  <2>1. DOMAIN newBalance = Address
    BY <1>5
  <2> QED
    BY <1>6, <2>1
<1>8. non(more) = newNonce
  <2>1. DOMAIN newNonce = Address
    BY <1>5
  <2> QED
    BY <1>6, <2>1
<1> HIDE DEF bal, non, newBalance, newNonce
<1> QED
  BY <1>1, <1>2, <1>7, <1>8 DEF t


\* A transaction moves money and creates none.
LEMMA SupplyStep ==
  ASSUME NEW st \in WorldState, NEW t, VerifyTransaction(t), TxApplies(st, t)
  PROVE  SumFunction(ApplyTx(st, t).balance) = SumFunction(st.balance)
<1> DEFINE w == st.balance
           v == ApplyTx(st, t).balance
           x == t.from
           y == t.to
<1>1. /\ x \in Address /\ y \in Address /\ x # y /\ t.amount \in Nat
  BY DEF VerifyTransaction
<1>2. w \in [Address -> Nat]
  BY DEF WorldState
<1>3. ApplyTx(st, t) \in WorldState
  BY ApplyTxType
<1>4. v = [w EXCEPT ![x] = @ - t.amount, ![y] = @ + t.amount]
  BY DEF ApplyTx
<1>5. v \in [Address -> Nat]
  BY <1>3 DEF WorldState
<1> HIDE DEF w, v, x, y
<1>6. /\ v[x] = w[x] - t.amount /\ v[y] = w[y] + t.amount
      /\ \A z \in Address \ {x, y} : v[z] = w[z]
  BY <1>1, <1>2, <1>4
<1>7. Moves(w, v, Address, x, y, t.amount)
  BY <1>1, <1>6 DEF Moves
<1>8. SumFunction(v) = SumFunction(w)
  BY <1>2, <1>5, <1>7, LedgerAssumption, SumFunctionMoves
<1> QED
  BY <1>8 DEF v, w

-----------------------------------------------------------------------------
(* The history of an account state                                         *)

\* st is what the transactions of list, each of them next for its sender and
\* covered when it was applied, make of the starting balances.
Hist(list, st) ==
  /\ IsSeq(list)
  /\ IsList(list, Len(list))
  /\ st \in WorldState
  /\ PaymentService!AccountsAfter(list) = st
  /\ PaymentService!Sound(list)
  /\ SumFunction(st.balance) = SumFunction(GenesisAllocations)

\* No transactions, and the starting balances.
LEMMA HistGenesis == Hist(<<>>, GenesisState)
<1> DEFINE L == << >>
<1>1. IsSeq(L) /\ Len(L) = 0 /\ DOMAIN L = {}
  <2>1. <<>> \in Seq({}) /\ Len(<<>>) = 0
    OBVIOUS
  <2>2. IsSeq(<<>>)
    BY <2>1, SeqIsSeq
  <2>3. DOMAIN <<>> = {}
    OBVIOUS
  <2> QED
    BY <2>1, <2>2, <2>3
<1> HIDE DEF L
<1>2. IsList(L, Len(L))
  BY <1>1 DEF IsList
<1>3. GenesisState \in WorldState
  BY LedgerAssumption DEF GenesisState, WorldState
<1>4. PaymentService!AmountOf(L, {}) = 0
  <2>1. PICK g : /\ IsSum(g, {}, [k \in {} |-> L[k].amount])
                 /\ \A s \in SUBSET {} : PaymentService!AmountOf(L, s) = g[s]
    BY FS_EmptySet, AmountIsSum
  <2> QED
    BY <2>1 DEF IsSum
<1>5. \A a \in Address :
        /\ PaymentService!Received(L, a) = 0
        /\ PaymentService!Sent(L, a) = 0
        /\ SentCount(L, a) = 0
  <2> SUFFICES ASSUME NEW a \in Address
               PROVE  /\ PaymentService!Received(L, a) = 0
                      /\ PaymentService!Sent(L, a) = 0
                      /\ SentCount(L, a) = 0
    OBVIOUS
  <2>1. {k \in DOMAIN L : L[k].to = a} = {} /\ {k \in DOMAIN L : L[k].from = a} = {}
    BY <1>1
  <2>2. Cardinality({}) = 0
    BY FS_EmptySet
  <2> QED
    BY <1>4, <2>1, <2>2
       DEF PaymentService!Received, PaymentService!Sent, SentCount
<1>6. PaymentService!AccountsAfter(L) = GenesisState
  <2>1. PaymentService!AccountsAfter(L) =
          [ balance |-> [a \in Address |-> GenesisAllocations[a]
              + PaymentService!Received(L, a) - PaymentService!Sent(L, a)],
            nonce   |-> [a \in Address |-> SentCount(L, a)] ]
    BY SameCardinality DEF PaymentService!AccountsAfter, SentCount
  <2>2. [a \in Address |-> GenesisAllocations[a]
           + PaymentService!Received(L, a) - PaymentService!Sent(L, a)]
          = GenesisAllocations
    BY <1>5, LedgerAssumption
  <2>3. [a \in Address |-> SentCount(L, a)] = [a \in Address |-> 0]
    BY <1>5
  <2> QED
    BY <2>1, <2>2, <2>3 DEF GenesisState
<1>7. PaymentService!Sound(L)
  BY <1>1 DEF PaymentService!Sound
<1>8. GenesisState.balance = GenesisAllocations
  BY DEF GenesisState
<1> QED
  BY <1>1, <1>2, <1>3, <1>6, <1>7, <1>8 DEF Hist, L

\* A transaction that applies continues the history.
LEMMA HistAppend ==
  ASSUME NEW list, NEW st, Hist(list, st),
         NEW t, VerifyTransaction(t), TxApplies(st, t)
  PROVE  Hist(Append(list, t), ApplyTx(st, t))
<1> DEFINE n    == Len(list)
           more == Append(list, t)
<1>1. /\ IsSeq(more) /\ n \in Nat /\ Len(more) = n + 1
      /\ \A k \in 1 .. n : more[k] = list[k]
      /\ more[n + 1] = t
  BY AppendIsSeq DEF Hist
<1>2. \A k \in 1 .. n + 1 : k \in 1 .. n \/ k = n + 1
  BY <1>1
<1>3. DOMAIN more = 1 .. n + 1
  <2> HIDE DEF more
  <2> QED
    BY <1>1 DEF IsSeq
<1>4. \A k \in 1 .. n : SubSeq(more, 1, k - 1) = SubSeq(list, 1, k - 1)
  <2> HIDE DEF more, n
  <2>1. list \in Seq(Range(list)) /\ more \in Seq(Range(more)) /\ n = Len(list)
    BY <1>1 DEF Hist, IsSeq, n
  <2> SUFFICES ASSUME NEW k \in 1 .. n
               PROVE  SubSeq(more, 1, k - 1) = SubSeq(list, 1, k - 1)
    OBVIOUS
  <2>2. \A i \in 1 .. k - 1 : i \in 1 .. n /\ more[i] = list[i]
    BY <1>1
  <2> QED
    BY <1>1, <2>1, <2>2
<1>5. SubSeq(more, 1, n) = list
  <2> HIDE DEF more, n
  <2>1. list \in Seq(Range(list)) /\ more \in Seq(Range(more)) /\ n = Len(list)
    BY <1>1 DEF Hist, IsSeq, n
  <2> QED
    BY <1>1, <2>1
<1> HIDE DEF more
<1>6. IsList(list, n)
  BY DEF Hist
<1> HIDE DEF n
<1>7. IsList(more, n + 1)
  BY <1>1, <1>2, <1>3, <1>6 DEF IsList
<1>8. st \in WorldState /\ PaymentService!AccountsAfter(list) = st
  BY DEF Hist
<1>9. PaymentService!AccountsAfter(more) = ApplyTx(st, t)
  <2>1. Continues(more, list, n)
    BY <1>1, <1>6, <1>7 DEF Continues
  <2> QED
    BY <1>1, <1>8, <2>1, AccountsAppend
<1>10. PaymentService!Sound(more)
  <2>1. \A k \in 1 .. n :
          /\ list[k].nonce =
               PaymentService!AccountsAfter(SubSeq(list, 1, k - 1)).nonce[list[k].from]
          /\ list[k].amount <=
               PaymentService!AccountsAfter(SubSeq(list, 1, k - 1)).balance[list[k].from]
    BY <1>6 DEF Hist, IsList, PaymentService!Sound
  <2> SUFFICES ASSUME NEW k \in 1 .. n + 1
               PROVE  /\ more[k].nonce =
                           PaymentService!AccountsAfter(
                             SubSeq(more, 1, k - 1)).nonce[more[k].from]
                      /\ more[k].amount <=
                           PaymentService!AccountsAfter(
                             SubSeq(more, 1, k - 1)).balance[more[k].from]
    BY <1>3 DEF PaymentService!Sound
  <2>2. CASE k \in 1 .. n
    BY <1>1, <1>4, <2>1, <2>2
  <2>3. CASE k = n + 1
    <3>1. SubSeq(more, 1, k - 1) = list /\ more[k] = t
      BY <1>1, <1>5, <2>3
    <3>2. t.from \in Address /\ t.amount \in Nat
      BY DEF VerifyTransaction
    <3>3. st.balance[t.from] \in Nat
      BY <1>8, <3>2 DEF WorldState
    <3>4. t.nonce = st.nonce[t.from] /\ t.amount <= st.balance[t.from]
      BY <3>2, <3>3 DEF TxApplies
    <3> QED
      BY <1>8, <3>1, <3>4
  <2> QED
    BY <1>2, <2>2, <2>3
<1>11. ApplyTx(st, t) \in WorldState
  BY <1>8, ApplyTxType
<1>12. SumFunction(ApplyTx(st, t).balance) = SumFunction(GenesisAllocations)
  BY <1>8, SupplyStep DEF Hist
<1> QED
  BY <1>1, <1>7, <1>9, <1>10, <1>11, <1>12 DEF Hist, more

-----------------------------------------------------------------------------
(* Lists                                                                   *)

\* Two sequences are sequences of the same set of elements.
LEMMA CommonSeq ==
  ASSUME NEW s, IsSeq(s), NEW u, IsSeq(u)
  PROVE  \E R : s \in Seq(R) /\ u \in Seq(R)
<1> DEFINE R == Range(s) \cup Range(u)
<1>1. s \in Seq(Range(s)) /\ u \in Seq(Range(u))
  BY DEF IsSeq
<1>2. s \in Seq(R) /\ u \in Seq(R)
  BY <1>1
<1> QED
  BY <1>2

\* Concatenation gives a sequence.
LEMMA ConcatIsSeq ==
  ASSUME NEW s, IsSeq(s), NEW u, IsSeq(u)
  PROVE  IsSeq(s \o u) /\ Len(s \o u) = Len(s) + Len(u)
<1>1. PICK R : s \in Seq(R) /\ u \in Seq(R)
  BY CommonSeq
<1>2. s \o u \in Seq(R) /\ Len(s \o u) = Len(s) + Len(u)
  BY <1>1
<1> QED
  BY <1>2, SeqIsSeq

\* Nothing of a list, and all of it.
LEMMA PrefixEnds ==
  ASSUME NEW s, IsSeq(s), NEW u, IsSeq(u)
  PROVE  s \o SubSeq(u, 1, 0) = s /\ s \o SubSeq(u, 1, Len(u)) = s \o u
<1>1. PICK R : s \in Seq(R) /\ u \in Seq(R)
  BY CommonSeq
<1>2. SubSeq(u, 1, 0) = <<>> /\ s \o <<>> = s
  BY <1>1
<1>3. SubSeq(u, 1, Len(u)) = u
  BY <1>1
<1> QED
  BY <1>2, <1>3

\* One element more of a list.
LEMMA PrefixAppend ==
  ASSUME NEW s, IsSeq(s), NEW u, IsSeq(u), NEW i \in Nat, i + 1 <= Len(u)
  PROVE  s \o SubSeq(u, 1, i + 1) = Append(s \o SubSeq(u, 1, i), u[i + 1])
<1>1. PICK R : s \in Seq(R) /\ u \in Seq(R)
  BY CommonSeq
<1>2. i + 1 \in 1 .. Len(u) /\ u[i + 1] \in R
  BY <1>1
<1> DEFINE a == SubSeq(u, 1, i)
           b == SubSeq(u, 1, i + 1)
           e == u[i + 1]
<1>3. /\ a \in Seq(R) /\ Len(a) = i /\ \A k \in 1 .. i : a[k] = u[k]
      /\ b \in Seq(R) /\ Len(b) = i + 1 /\ \A k \in 1 .. i + 1 : b[k] = u[k]
  BY <1>1, <1>2
<1>4. b[i + 1] = e /\ \A k \in 1 .. i : b[k] = a[k]
  BY <1>3
<1>5. e \in R
  BY <1>2
<1> HIDE DEF a, b, e
<1>c. s \in Seq(R) /\ a \in Seq(R) /\ b \in Seq(R)
  BY <1>1, <1>3
<1>6. /\ s \o b \in Seq(R) /\ s \o a \in Seq(R)
      /\ Len(s \o b) = Len(s) + i + 1 /\ Len(s \o a) = Len(s) + i
      /\ Len(s) \in Nat
  <2>1. /\ s \o b \in Seq(R) /\ s \o a \in Seq(R) /\ Len(s) \in Nat
        /\ Len(s \o b) = Len(s) + Len(b) /\ Len(s \o a) = Len(s) + Len(a)
    BY <1>c
  <2>2. Len(b) = i + 1 /\ Len(a) = i
    BY <1>3
  <2> QED
    BY <2>1, <2>2
<1>7. \A k \in 1 .. Len(s) + i + 1 : (s \o b)[k] = Append(s \o a, e)[k]
  <2> SUFFICES ASSUME NEW k \in 1 .. Len(s) + i + 1
               PROVE  (s \o b)[k] = Append(s \o a, e)[k]
    OBVIOUS
  <2>1. CASE k <= Len(s)
    <3>1. (s \o b)[k] = s[k] /\ (s \o a)[k] = s[k]
      BY <1>c, <1>3, <1>6, <2>1
    <3>2. Append(s \o a, e)[k] = (s \o a)[k]
      BY <1>5, <1>6, <2>1
    <3> QED
      BY <3>1, <3>2
  <2>2. CASE k > Len(s) /\ k <= Len(s) + i
    <3>1. k - Len(s) \in 1 .. i
      BY <1>6, <2>2
    <3>2. (s \o b)[k] = b[k - Len(s)] /\ (s \o a)[k] = a[k - Len(s)]
      BY <1>c, <1>3, <1>6, <2>2
    <3>3. Append(s \o a, e)[k] = (s \o a)[k]
      BY <1>5, <1>6, <2>2
    <3> QED
      BY <1>4, <3>1, <3>2, <3>3
  <2>3. CASE k = Len(s) + i + 1
    <3>1. (s \o b)[k] = b[k - Len(s)]
      BY <1>c, <1>3, <1>6, <2>3
    <3>2. k - Len(s) = i + 1 /\ k = Len(s \o a) + 1
      BY <1>6, <2>3
    <3>3. Append(s \o a, e)[Len(s \o a) + 1] = e
      BY <1>5, <1>6
    <3> QED
      BY <1>4, <3>1, <3>2, <3>3
  <2>4. \/ k <= Len(s)
        \/ k > Len(s) /\ k <= Len(s) + i
        \/ k = Len(s) + i + 1
    <3> DEFINE n == Len(s)
    <3>1. n \in Nat /\ k \in 1 .. n + i + 1
      BY <1>6
    <3> HIDE DEF n
    <3>2. k <= n \/ (k > n /\ k <= n + i) \/ k = n + i + 1
      BY <3>1
    <3> QED
      BY <3>2 DEF n
  <2> QED
    BY <2>1, <2>2, <2>3, <2>4
<1>8. Append(s \o a, e) \in Seq(R) /\ Len(Append(s \o a, e)) = Len(s) + i + 1
  BY <1>5, <1>6
<1>9. s \o b = Append(s \o a, e)
  BY <1>6, <1>7, <1>8
<1> QED
  BY <1>9 DEF a, b, e

\* Concatenation keeps what was there.
LEMMA ConcatPrefix ==
  ASSUME NEW s, IsSeq(s), NEW u, IsSeq(u)
  PROVE  IsPrefix(s, s \o u)
<1>1. PICK R : s \in Seq(R) /\ u \in Seq(R)
  BY CommonSeq
<1> QED
  BY <1>1 DEF IsPrefix

-----------------------------------------------------------------------------
(* Blocks and chains                                                       *)

\* The transactions of a block that applies continue the history.
LEMMA HistApplyAll ==
  ASSUME NEW list, NEW st, Hist(list, st),
         NEW txs, IsSeq(txs), IsList(txs, Len(txs)), ApplyAll(st, txs).ok
  PROVE  Hist(list \o txs, ApplyAll(st, txs).state)
<1> DEFINE g == ApplySteps(st, txs)
           N == Len(txs)
           part(i) == list \o SubSeq(txs, 1, i)
           S == {i \in Nat : i <= N /\ g[i].ok => Hist(part(i), g[i].state)}
<1>0. N \in Nat /\ IsSeq(list)
  BY DEF IsSeq, Hist
<1>1. g = [i \in 0 .. N |->
             IF i = 0 THEN Applied(st) ELSE ApplyNext(g[i - 1], st, txs[i])]
  BY <1>0, ApplyStepsUnfold
<1>2. g[N] = ApplyAll(st, txs)
  BY DEF ApplyAll
<1> HIDE DEF g
<1>3. 0 \in S
  <2>1. g[0] = Applied(st)
    BY <1>0, <1>1
  <2>2. part(0) = list
    BY <1>0, PrefixEnds
  <2>3. Hist(part(0), g[0].state)
    <3> HIDE DEF part
    <3> QED
      BY <2>1, <2>2 DEF Applied
  <2> QED
    BY <2>3
<1>4. ASSUME NEW n \in Nat, n \in S
      PROVE  n + 1 \in S
  <2> SUFFICES ASSUME n + 1 <= N, g[n + 1].ok
               PROVE  Hist(part(n + 1), g[n + 1].state)
    OBVIOUS
  <2> DEFINE t == txs[n + 1]
  <2>1. g[n + 1] = ApplyNext(g[n], st, t)
    BY <1>0, <1>1
  <2>2. /\ g[n].ok /\ TxApplies(g[n].state, t)
        /\ g[n + 1].state = ApplyTx(g[n].state, t)
    BY <2>1 DEF ApplyNext, Applied, Rejected
  <2>3. VerifyTransaction(t)
    BY <1>0 DEF IsList
  <2>4. Hist(part(n), g[n].state)
    BY <1>0, <1>4, <2>2
  <2>5. part(n + 1) = Append(part(n), t)
    BY <1>0, PrefixAppend
  <2> HIDE DEF t, part
  <2>6. Hist(Append(part(n), t), ApplyTx(g[n].state, t))
    BY <2>2, <2>3, <2>4, HistAppend
  <2> QED
    BY <2>2, <2>5, <2>6
<1>5. N \in S
  <2> HIDE DEF S
  <2> QED
    BY <1>0, <1>3, <1>4, SetInduction
<1>6. part(N) = list \o txs
  BY <1>0, PrefixEnds
<1>7. Hist(part(N), g[N].state)
  BY <1>0, <1>2, <1>5
<1> HIDE DEF part
<1> QED
  BY <1>2, <1>6, <1>7

\* A block whose transactions apply continues the history with them.
LEMMA HistBlock ==
  ASSUME NEW list, NEW st, Hist(list, st), NEW b, IsBlock(b),
         ApplyBlockTransactions(b, st).ok
  PROVE  Hist(list \o b.transactions, ApplyBlockTransactions(b, st).state)
<1> DEFINE txs == b.transactions
<1>1. IsSeq(txs)
  BY DEF IsBlock
<1>2. /\ \A i \in 1 .. Len(txs) : VerifyTransaction(txs[i])
      /\ ApplyBlockTransactions(b, st) = ApplyAll(st, txs)
  BY DEF ApplyBlockTransactions, Rejected
<1>3. DOMAIN txs = 1 .. Len(txs)
  <2> HIDE DEF txs
  <2> QED
    BY <1>1 DEF IsSeq
<1> HIDE DEF txs
<1>4. IsList(txs, Len(txs))
  BY <1>2, <1>3 DEF IsList
<1>5. ApplyAll(st, txs).ok
  BY <1>2
<1>6. Hist(list \o txs, ApplyAll(st, txs).state)
  BY <1>1, <1>4, <1>5, HistApplyAll
<1> QED
  BY <1>2, <1>6 DEF txs

\* The bodies of the blocks after genesis.
Bodies(c) == [i \in 1 .. Len(c) - 1 |-> c[i + 1].transactions]

\* f[i] joins the first i sequences of n.
Joins(f, seqs, n) ==
  f = [i \in 1 .. n |-> IF i = 1 THEN seqs[1] ELSE f[i - 1] \o seqs[i]]

\* The recursive definition of FlattenSeq has a solution, so it unfolds.
LEMMA FlattenUnfold ==
  ASSUME NEW seqs, NEW n \in Nat, n # 0, Len(seqs) = n
  PROVE  \E f : Joins(f, seqs, n) /\ FlattenSeq(seqs) = f[n]
<1> DEFINE F(f, k) == [i \in 1 .. k |->
                         IF i = 1 THEN seqs[i] ELSE f[i - 1] \o seqs[i]]
           S == {k \in Nat : \E f : f = F(f, k)}
<1>1. 0 \in S
  <2> DEFINE g == [i \in 1 .. 0 |-> seqs]
  <2>1. g = F(g, 0)
    OBVIOUS
  <2> QED
    BY <2>1
<1>2. ASSUME NEW k \in Nat, k \in S
      PROVE  k + 1 \in S
  <2>1. PICK g : g = F(g, k)
    BY <1>2
  <2> DEFINE next == IF k = 0 THEN seqs[1] ELSE g[k] \o seqs[k + 1]
             h == [i \in 1 .. k + 1 |-> IF i = k + 1 THEN next ELSE g[i]]
  <2>2. ASSUME NEW i \in 1 .. k + 1
        PROVE  h[i] = F(h, k + 1)[i]
    <3>1. CASE i = k + 1
      BY <3>1
    <3>2. CASE i \in 1 .. k
      <4>1. /\ h[i] = g[i]
            /\ i # 1 => h[i - 1] = g[i - 1] /\ i - 1 \in 1 .. k + 1
        BY <3>2
      <4>2. g[i] = IF i = 1 THEN seqs[i] ELSE g[i - 1] \o seqs[i]
        BY <2>1, <3>2
      <4> HIDE DEF h
      <4> QED
        BY <3>2, <4>1, <4>2
    <3> QED
      BY <3>1, <3>2
  <2>3. h = F(h, k + 1)
    BY <2>2
  <2> HIDE DEF h, F
  <2>4. \E f : f = F(f, k + 1)
    BY <2>3
  <2> QED
    BY <2>4
<1>3. n \in S
  <2> HIDE DEF S
  <2> QED
    BY <1>1, <1>2, SetInduction
<1>4. \E f : f = F(f, n)
  BY <1>3
<1> DEFINE f == CHOOSE g : g = F(g, n)
<1>5. f = F(f, n)
  <2> HIDE DEF F
  <2> QED
    BY <1>4
<1>6. FlattenSeq(seqs) = f[n]
  BY DEF FlattenSeq
<1>7. Joins(f, seqs, n)
  <2> HIDE DEF f
  <2> QED
    BY <1>5 DEF Joins
<1> HIDE DEF f
<1> QED
  BY <1>6, <1>7

\* The genesis block alone confirms nothing.
LEMMA NothingConfirmed ==
  ASSUME NEW c, Len(c) - 1 = 0
  PROVE  ConfirmedTxs(c) = <<>>
<1>1. ConfirmedTxs(c) = FlattenSeq([i \in 1 .. 0 |-> c[i + 1].transactions])
  BY DEF ConfirmedTxs
<1>2. 1 .. 0 = {}
  OBVIOUS
<1>3. [i \in 1 .. 0 |-> c[i + 1].transactions] \in [1 .. 0 -> {}]
  BY <1>2
<1>4. [i \in 1 .. 0 |-> c[i + 1].transactions] \in Seq({})
  BY <1>3
<1>5. [i \in 1 .. 0 |-> c[i + 1].transactions] = <<>>
  BY <1>4
<1> QED
  BY <1>1, <1>5 DEF FlattenSeq

\* The account state a valid chain leads to is what its transactions make of
\* the starting balances.
LEMMA HistReplay ==
  ASSUME NEW c, IsChain(c), Len(c) > 0, ReplayChain(c).ok
  PROVE  Hist(ConfirmedTxs(c), ReplayChain(c).state)
<1> DEFINE n == Len(c) - 1
           r == ReplaySteps(c)
<1>0. /\ Len(c) \in Nat /\ n \in Nat /\ Len(c) = n + 1
      /\ \A i \in 1 .. n + 1 : IsBlock(c[i])
  BY DEF IsChain, IsSeq
<1>1. r = [i \in 1 .. Len(c) |->
             IF i = 1 THEN Applied(GenesisState) ELSE ReplayNext(r[i - 1], c[i])]
  BY <1>0, ReplayStepsUnfold
<1>2. ReplayChain(c) = r[n + 1]
  BY <1>0 DEF ReplayChain
<1>3. ConfirmedTxs(c) = FlattenSeq(Bodies(c))
  BY DEF ConfirmedTxs, Bodies
<1>4. /\ Len(Bodies(c)) = n
      /\ \A i \in 1 .. n : Bodies(c)[i] = c[i + 1].transactions
  BY <1>0 DEF Bodies
<1> HIDE DEF n, r
<1>5. r[1] = Applied(GenesisState)
  BY <1>0, <1>1
<1>6. ASSUME NEW i \in 1 .. n, r[i + 1].ok
      PROVE  /\ r[i].ok
             /\ r[i + 1] = ApplyBlockTransactions(c[i + 1], r[i].state)
             /\ IsBlock(c[i + 1])
  <2>1. /\ i + 1 \in 1 .. Len(c) /\ i + 1 # 1 /\ (i + 1) - 1 = i
        /\ IsBlock(c[i + 1])
    BY <1>0
  <2>2. r[i + 1] = ReplayNext(r[i], c[i + 1])
    BY <1>1, <2>1
  <2> QED
    BY <1>6, <2>1, <2>2 DEF ReplayNext
<1>7. CASE n = 0
  <2>1. ConfirmedTxs(c) = <<>>
    <3>1. Len(c) - 1 = 0
      BY <1>0, <1>7
    <3> QED
      BY <3>1, NothingConfirmed
  <2> QED
    BY <1>2, <1>5, <1>7, <2>1, HistGenesis DEF Applied
<1>8. CASE n # 0
  <2>1. PICK f : Joins(f, Bodies(c), n) /\ FlattenSeq(Bodies(c)) = f[n]
    BY <1>0, <1>4, <1>8, FlattenUnfold
  <2> DEFINE S == {k \in Nat : k + 1 <= n /\ r[k + 2].ok
                                  => Hist(f[k + 1], r[k + 2].state)}
  <2>2. 0 \in S
    <3> SUFFICES ASSUME 1 <= n, r[2].ok
                 PROVE  Hist(f[1], r[2].state)
      OBVIOUS
    <3>1. f[1] = c[2].transactions
      BY <1>0, <1>4, <2>1 DEF Joins
    <3>2. 1 \in 1 .. n /\ 1 + 1 = 2
      BY <1>0
    <3>3. /\ r[2] = ApplyBlockTransactions(c[2], GenesisState) /\ IsBlock(c[2])
      BY <1>5, <1>6, <3>2 DEF Applied
    <3>4. Hist(<<>> \o c[2].transactions,
               ApplyBlockTransactions(c[2], GenesisState).state)
      BY <3>3, HistBlock, HistGenesis
    <3>5. <<>> \o c[2].transactions = c[2].transactions
      BY <3>3 DEF IsBlock, IsSeq
    <3> QED
      BY <3>1, <3>3, <3>4, <3>5
  <2>3. ASSUME NEW k \in Nat, k \in S
        PROVE  k + 1 \in S
    <3> SUFFICES ASSUME k + 2 <= n, r[k + 3].ok
                 PROVE  Hist(f[k + 2], r[k + 3].state)
      OBVIOUS
    <3>1. /\ k + 2 \in 1 .. n /\ (k + 2) + 1 = k + 3 /\ k + 2 # 1
          /\ (k + 2) - 1 = k + 1 /\ k + 1 <= n
      BY <1>0
    <3>2. f[k + 2] = f[k + 1] \o c[k + 3].transactions
      <4>1. f[k + 2] = f[(k + 2) - 1] \o Bodies(c)[k + 2]
        BY <2>1, <3>1 DEF Joins
      <4>2. Bodies(c)[k + 2] = c[(k + 2) + 1].transactions
        BY <1>4, <3>1
      <4> QED
        BY <3>1, <4>1, <4>2
    <3>3. /\ r[k + 2].ok /\ IsBlock(c[k + 3])
          /\ r[k + 3] = ApplyBlockTransactions(c[k + 3], r[k + 2].state)
      BY <1>6, <3>1
    <3>4. Hist(f[k + 1], r[k + 2].state)
      BY <2>3, <3>1, <3>3
    <3> QED
      BY <3>2, <3>3, <3>4, HistBlock
  <2>4. n - 1 \in S
    <3>1. n - 1 \in Nat
      BY <1>0, <1>8
    <3> HIDE DEF S
    <3> QED
      BY <2>2, <2>3, <3>1, SetInduction
  <2>5. /\ (n - 1) + 1 = n /\ (n - 1) + 2 = n + 1 /\ n <= n
    BY <1>0
  <2>6. Hist(f[n], r[n + 1].state)
    BY <1>2, <2>4, <2>5
  <2> QED
    BY <1>2, <1>3, <2>1, <2>6
<1> QED
  BY <1>7, <1>8

-----------------------------------------------------------------------------
(* Nonces and supply                                                       *)

\* The state in memory is what the transactions of the chain make of the
\* starting balances.
LEMMA ObjectHist ==
  ASSUME NEW o, NEW t, ObjectOK(o, t)
  PROVE  Hist(ConfirmedTxs(o.chain), o.state)
<1>1. /\ IsChain(o.chain) /\ Len(o.chain) > 0
      /\ ReplayChain(o.chain) = Applied(o.state)
  BY DEF ObjectOK, UnprunedOK, ChainOK
<1>2. ReplayChain(o.chain).ok /\ ReplayChain(o.chain).state = o.state
  BY <1>1 DEF Applied
<1> QED
  BY <1>1, <1>2, HistReplay

\* In a history nonces count, for each sender, its earlier transactions.
LEMMA HistNonces ==
  ASSUME NEW list, NEW st, Hist(list, st)
  PROVE  /\ \A k \in DOMAIN list :
              list[k].nonce =
                Cardinality({j \in 1 .. k - 1 : list[j].from = list[k].from})
         /\ \A a \in Address :
              st.nonce[a] = Cardinality({j \in 1 .. Len(list) : list[j].from = a})
<1>1. /\ IsSeq(list) /\ Len(list) \in Nat /\ DOMAIN list = 1 .. Len(list)
      /\ \A k \in 1 .. Len(list) : list[k].from \in Address
  BY DEF Hist, IsSeq, IsList, VerifyTransaction
<1>2. \A l : \A a \in Address :
        PaymentService!AccountsAfter(l).nonce[a] = SentCount(l, a)
  BY SameCardinality DEF PaymentService!AccountsAfter, SentCount
<1>3. ASSUME NEW k \in DOMAIN list
      PROVE  list[k].nonce =
               Cardinality({j \in 1 .. k - 1 : list[j].from = list[k].from})
  <2> DEFINE before == SubSeq(list, 1, k - 1)
  <2>1. list[k].nonce = PaymentService!AccountsAfter(before).nonce[list[k].from]
    BY DEF Hist, PaymentService!Sound
  <2>2. list[k].nonce = SentCount(before, list[k].from)
    BY <1>1, <1>2, <2>1
  <2>3. /\ DOMAIN before = 1 .. k - 1
        /\ \A j \in 1 .. k - 1 : before[j] = list[j]
    BY <1>1 DEF IsSeq
  <2> HIDE DEF before
  <2>4. {j \in DOMAIN before : before[j].from = list[k].from}
          = {j \in 1 .. k - 1 : list[j].from = list[k].from}
    BY <2>3
  <2> QED
    BY <2>2, <2>4 DEF SentCount
<1>4. ASSUME NEW a \in Address
      PROVE  st.nonce[a] = Cardinality({j \in 1 .. Len(list) : list[j].from = a})
  <2>1. st = PaymentService!AccountsAfter(list)
    BY DEF Hist
  <2>2. st.nonce[a] = SentCount(list, a)
    BY <1>2, <2>1
  <2> QED
    BY <1>1, <2>2 DEF SentCount
<1> QED
  BY <1>3, <1>4

\* No signed transfer is ever confirmed twice, whatever blocks, longer chains
\* and restarts the node goes through.
THEOREM NoncesSpentOnce == Spec => []NonceSpentOnce
<1>1. IInv => NonceSpentOnce
  <2> SUFFICES ASSUME IInv
               PROVE  NonceSpentOnce
    OBVIOUS
  <2>1. Hist(ConfirmedTxs(bc.chain), bc.state)
    BY ObjectHist DEF IInv
  <2> QED
    BY <2>1, HistNonces DEF NonceSpentOnce
<1> QED
  BY <1>1, Soundness, PTL

\* No transaction, block, reorganisation or restart creates or destroys money.
THEOREM SupplyIsConserved == Spec => []SupplyConserved
<1>1. IInv => SupplyConserved
  <2> SUFFICES ASSUME IInv
               PROVE  SupplyConserved
    OBVIOUS
  <2>1. Hist(ConfirmedTxs(bc.chain), bc.state)
    BY ObjectHist DEF IInv
  <2> QED
    BY <2>1 DEF Hist, SupplyConserved
<1> QED
  BY <1>1, Soundness, PTL

-----------------------------------------------------------------------------
(* The refinement                                                          *)

\* A block's transactions come after those of the chain it extends.
LEMMA ConfirmedAppend ==
  ASSUME NEW c, IsChain(c), Len(c) > 0, NEW b, IsBlock(b)
  PROVE  ConfirmedTxs(Append(c, b)) = ConfirmedTxs(c) \o b.transactions
<1> DEFINE d == Append(c, b)
           n == Len(c) - 1
<1>0. /\ n \in Nat /\ Len(c) = n + 1 /\ Len(d) = n + 2
      /\ \A i \in 1 .. n + 1 : d[i] = c[i]
      /\ d[n + 2] = b
  BY AppendIsSeq DEF IsChain, IsSeq
<1> HIDE DEF d, n
<1>1. /\ Len(Bodies(d)) = n + 1 /\ Len(Bodies(c)) = n
      /\ \A i \in 1 .. n : Bodies(d)[i] = Bodies(c)[i]
      /\ Bodies(d)[n + 1] = b.transactions
  BY <1>0 DEF Bodies
<1>2. /\ ConfirmedTxs(d) = FlattenSeq(Bodies(d))
      /\ ConfirmedTxs(c) = FlattenSeq(Bodies(c))
  BY DEF ConfirmedTxs, Bodies
<1>3. PICK g : Joins(g, Bodies(d), n + 1) /\ FlattenSeq(Bodies(d)) = g[n + 1]
  BY <1>0, <1>1, FlattenUnfold
<1>4. CASE n = 0
  <2>1. g[1] = b.transactions
    BY <1>1, <1>3, <1>4 DEF Joins
  <2>2. ConfirmedTxs(c) = <<>>
    <3>1. Len(c) - 1 = 0
      BY <1>0, <1>4
    <3> QED
      BY <3>1, NothingConfirmed
  <2>3. <<>> \o b.transactions = b.transactions
    BY DEF IsBlock, IsSeq
  <2> QED
    BY <1>2, <1>3, <1>4, <2>1, <2>2, <2>3 DEF d
<1>5. CASE n # 0
  <2>1. PICK f : Joins(f, Bodies(c), n) /\ FlattenSeq(Bodies(c)) = f[n]
    BY <1>0, <1>1, <1>5, FlattenUnfold
  <2> DEFINE S == {k \in Nat : k + 1 <= n => g[k + 1] = f[k + 1]}
  <2>2. 0 \in S
    BY <1>0, <1>1, <1>3, <1>5, <2>1 DEF Joins
  <2>3. ASSUME NEW k \in Nat, k \in S
        PROVE  k + 1 \in S
    <3> SUFFICES ASSUME k + 2 <= n
                 PROVE  g[k + 2] = f[k + 2]
      OBVIOUS
    <3>1. /\ k + 2 \in 1 .. n /\ k + 2 \in 1 .. n + 1 /\ k + 2 # 1
          /\ (k + 2) - 1 = k + 1 /\ k + 1 <= n
      BY <1>0
    <3>2. /\ g[k + 2] = g[k + 1] \o Bodies(d)[k + 2]
          /\ f[k + 2] = f[k + 1] \o Bodies(c)[k + 2]
      <4>1. g[k + 2] = g[(k + 2) - 1] \o Bodies(d)[k + 2]
        BY <1>3, <3>1 DEF Joins
      <4>2. f[k + 2] = f[(k + 2) - 1] \o Bodies(c)[k + 2]
        BY <2>1, <3>1 DEF Joins
      <4> QED
        BY <3>1, <4>1, <4>2
    <3> QED
      BY <1>1, <2>3, <3>1, <3>2
  <2>4. g[n] = f[n]
    <3>1. n - 1 \in Nat /\ (n - 1) + 1 = n
      BY <1>0, <1>5
    <3>2. n - 1 \in S
      <4> HIDE DEF S
      <4> QED
        BY <2>2, <2>3, <3>1, SetInduction
    <3> QED
      BY <3>1, <3>2
  <2>5. g[n + 1] = g[n] \o b.transactions
    <3>1. n + 1 \in 1 .. n + 1 /\ n + 1 # 1 /\ (n + 1) - 1 = n
      BY <1>0, <1>5
    <3> QED
      BY <1>1, <1>3, <3>1 DEF Joins
  <2> QED
    BY <1>2, <1>3, <2>1, <2>4, <2>5 DEF d
<1> QED
  BY <1>4, <1>5

\* A pool in which nothing is confirmed, no nonce is used twice and everything
\* can be paid is payable in the sense of Payments.
LEMMA PoolPayable ==
  ASSUME NEW o, NEW t, ObjectOK(o, t), Fits(o.state, o.pendingTransactions)
  PROVE  PaymentService!Payable(o.pendingTransactions, o.state)
<1>1. \A S : PaymentService!MapThenSumSet(LAMBDA x : x.amount, S) = Total(S)
  BY DEF Total, MapThenSumSet, MapThenFoldSet,
         PaymentService!MapThenSumSet, PaymentService!MapThenFoldSet
<1>2. \A a \in Address :
        PaymentService!MapThenSumSet(LAMBDA x : x.amount,
                                     {x \in o.pendingTransactions : x.from = a})
          <= o.state.balance[a]
  BY <1>1 DEF Fits, SentBy
<1>3. /\ \A x \in o.pendingTransactions : x.nonce >= o.state.nonce[x.from]
      /\ \A x, y \in o.pendingTransactions :
           (x.from = y.from /\ x.nonce = y.nonce) => x = y
  BY DEF ObjectOK, UnprunedOK, NoncesDistinct
<1> QED
  BY <1>2, <1>3 DEF PaymentService!Payable

\* addBlock takes nothing into the pool.
LEMMA AddBlockPending ==
  ASSUME NEW o, NEW t \in Nat, ObjectOK(o, t), NEW b
  PROVE  AddBlock(o, b, t).pendingTransactions \subseteq o.pendingTransactions
<1> DEFINE r == [o EXCEPT !.chain = Append(@, b),
                          !.state = ApplyBlockTransactions(b, @).state]
<1>1. /\ IsObject(r)
      /\ r.pendingTransactions = o.pendingTransactions
      /\ r.receivedAt = o.receivedAt
  BY DEF ObjectOK, UnprunedOK, IsObject
<1>2. AddBlock(o, b, t) = PruneMempool(r, t)
  BY DEF AddBlock
<1> HIDE DEF r
<1> QED
  BY <1>1, <1>2, PruneFacts DEF ObjectOK, UnprunedOK

\* Nor does replaceChain.
LEMMA ReplaceChainPending ==
  ASSUME NEW o, NEW t \in Nat, ObjectOK(o, t), NEW c
  PROVE  ReplaceChain(o, c, t).pendingTransactions \subseteq o.pendingTransactions
<1> DEFINE r == [o EXCEPT !.chain = c, !.state = ReplayChain(c).state]
<1>1. /\ IsObject(r)
      /\ r.pendingTransactions = o.pendingTransactions
      /\ r.receivedAt = o.receivedAt
  BY DEF ObjectOK, UnprunedOK, IsObject
<1>2. ReplaceChain(o, c, t) = PruneMempool(r, t)
  BY DEF ReplaceChain
<1> HIDE DEF r
<1> QED
  BY <1>1, <1>2, PruneFacts DEF ObjectOK, UnprunedOK

\* A node that has just started has settled nothing.
LEMMA InitServes == Init => PaymentService!Init
<1> SUFFICES ASSUME Init
             PROVE  PaymentService!Init
  OBVIOUS
<1>1. bc = NewBlockchain
  BY DEF Init
<1>2. /\ bc.chain = <<GenesisBlock>> /\ bc.state = GenesisState
      /\ bc.pendingTransactions = {}
  BY <1>1 DEF NewBlockchain
<1>3. Len(bc.chain) = 1
  BY <1>2
<1>4. ConfirmedTxs(bc.chain) = <<>>
  BY <1>3, NothingConfirmed
<1>5. bc.state = PaymentService!AccountsAfter(<<>>)
  BY <1>2, HistGenesis DEF Hist
<1> QED
  BY <1>2, <1>3, <1>4, <1>5 DEF PaymentService!Init

\* What a block does, received or proposed, is to settle transfers.
LEMMA BlockSettles ==
  ASSUME IInv, NEW b, IsBlock(b), bc' = AddBlock(bc, b, now)
  PROVE  PaymentService!Settle
<1>1. /\ now \in Nat /\ ObjectOK(bc, now)
      /\ IsChain(bc.chain) /\ Len(bc.chain) > 0 /\ IsSeq(bc.chain)
  BY NodeAssumption DEF IInv, ObjectOK, UnprunedOK, ChainOK, IsChain
<1>2. bc'.chain = Append(bc.chain, b)
  BY <1>1, AddBlockChain
<1>3. Len(bc'.chain) = Len(bc.chain) + 1
  BY <1>1, <1>2, AppendIsSeq
<1>4. ConfirmedTxs(bc'.chain) = ConfirmedTxs(bc.chain) \o b.transactions
  BY <1>1, <1>2, ConfirmedAppend
<1>5. IsSeq(ConfirmedTxs(bc.chain)) /\ IsSeq(b.transactions)
  BY <1>1, ObjectHist DEF Hist, IsBlock
<1>6. IsPrefix(ConfirmedTxs(bc.chain), ConfirmedTxs(bc'.chain))
  BY <1>4, <1>5, ConcatPrefix
<1>7. bc'.pendingTransactions \subseteq bc.pendingTransactions
  BY <1>1, AddBlockPending
<1> QED
  BY <1>3, <1>6, <1>7
     DEF PaymentService!Settle, PaymentService!IsPrefix, IsPrefix

\* Each step of the node is a step of Payments, or changes nothing there.
LEMMA NextServes ==
  ASSUME IInv, PoolInv, Mirrored, IInv', PoolInv', [Next]_vars
  PROVE  [PaymentService!Next]_(PaymentService!payments)
<1> DEFINE Same == /\ bc'.chain = bc.chain
                   /\ bc'.state = bc.state
                   /\ bc'.pendingTransactions = bc.pendingTransactions
           Moved == \/ PaymentService!Accept
                    \/ PaymentService!GiveUp
                    \/ PaymentService!Settle
                    \/ PaymentService!Reorganise
<1>0. /\ now \in Nat /\ ObjectOK(bc, now) /\ IsObject(bc)
      /\ ObjectOK(bc', now') /\ Fits(bc'.state, bc'.pendingTransactions)
  BY NodeAssumption DEF IInv, PoolInv, ObjectOK, UnprunedOK
<1>1. ASSUME Same
      PROVE  UNCHANGED PaymentService!payments
  BY <1>1 DEF PaymentService!payments
<1>2. ASSUME Moved
      PROVE  PaymentService!Next
  <2>1. Hist(ConfirmedTxs(bc'.chain), bc'.state)
    BY <1>0, ObjectHist
  <2>2. /\ PaymentService!Sound(ConfirmedTxs(bc'.chain))
        /\ bc'.state = PaymentService!AccountsAfter(ConfirmedTxs(bc'.chain))
    BY <2>1 DEF Hist
  <2>3. PaymentService!Payable(bc'.pendingTransactions, bc'.state)
    BY <1>0, PoolPayable
  <2> QED
    BY <1>2, <2>2, <2>3 DEF PaymentService!Next
<1>3. CASE Tick
  BY <1>1, <1>3 DEF Tick
<1>4. ASSUME NEW tx \in TxInput, SubmitTransaction(tx)
      PROVE  PaymentService!Accept
  <2>1. /\ bc'.chain = bc.chain
        /\ bc'.pendingTransactions = bc.pendingTransactions \cup {tx}
    BY <1>0, <1>4 DEF SubmitTransaction, AddTransaction, IsObject
  <2>2. tx \notin bc.pendingTransactions
    BY <1>4 DEF SubmitTransaction, CanAddTransaction, HashesOf
  <2> QED
    BY <2>1, <2>2 DEF PaymentService!Accept
<1>5. ASSUME NEW b \in BlockInput, ReceiveBlock(b)
      PROVE  PaymentService!Settle
  BY <1>5, BlockSettles, NodeAssumption DEF ReceiveBlock
<1>6. ASSUME NEW c \in ChainInput, ReceiveChain(c)
      PROVE  PaymentService!Reorganise
  <2>1. bc'.chain = c /\ Len(c) > Len(bc.chain)
    BY <1>0, <1>6, ReplaceChainChain DEF ReceiveChain, CanReplaceChain
  <2>2. bc'.pendingTransactions \subseteq bc.pendingTransactions
    BY <1>0, <1>6, ReplaceChainPending DEF ReceiveChain
  <2> QED
    BY <2>1, <2>2 DEF PaymentService!Reorganise
<1>7. CASE SweepMempool
  <2>1. /\ bc'.chain = bc.chain
        /\ bc'.pendingTransactions \subseteq bc.pendingTransactions
    BY <1>0, <1>7, PruneFacts DEF SweepMempool, ObjectOK, UnprunedOK
  <2>2. PaymentService!GiveUp
    BY <2>1 DEF PaymentService!GiveUp
  <2> QED
    BY <1>2, <2>2
<1>8. CASE Propose
  <2>1. PICK b \in Proposals(bc, MyKey, now) : bc' = AddBlock(bc, b, now)
    BY <1>8 DEF Propose
  <2>2. IsBlock(b)
    BY <1>0, ProposalOK
  <2>3. PaymentService!Settle
    BY <2>1, <2>2, BlockSettles
  <2> QED
    BY <1>2, <2>3
<1>9. CASE Restart
  BY <1>1, <1>9, RestartKeeps
<1>10. CASE UNCHANGED vars
  BY <1>1, <1>10 DEF vars
<1> HIDE DEF Same
<1> QED
  BY <1>2, <1>3, <1>4, <1>5, <1>6, <1>7, <1>8, <1>9, <1>10 DEF Next

\* If no save fails, the node implements Payments: its holders see transfers
\* accepted, settled in batches or given up, and longer histories, but never
\* a crash or a restart.
THEOREM NodeServesPayments ==
  ASSUME DiskMayFail = FALSE
  PROVE  Spec => ServesPayments
<1>1. /\ IInv /\ PoolInv /\ Mirrored /\ IInv' /\ PoolInv' /\ [Next]_vars
        => [PaymentService!Next]_(PaymentService!payments)
  BY NextServes
<1> QED
  BY <1>1, InitServes, DiskMirrors, PTL
     DEF Spec, ServesPayments, PaymentService!Spec

=============================================================================
