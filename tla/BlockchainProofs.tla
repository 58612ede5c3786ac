-------------------------- MODULE BlockchainProofs --------------------------
(***************************************************************************)
(* Lemmas about the operators of Ledger and Blockchain: what applyAll, the *)
(* replay of a chain and the pruning of the mempool compute, and that each *)
(* method of the Blockchain object keeps the object sound (ObjectOK).      *)
(* They speak of no variable, so one node (Node) and several that gossip   *)
(* (Network) both use them.                                                *)
(*                                                                         *)
(* The first part is about the folds of the community modules.  A fold is  *)
(* a recursive function on the subsets of a finite set, so what is needed  *)
(* is that the recursion has a solution, that it has only one, and that a  *)
(* sum does not depend on the order in which the fold takes the elements.  *)
(* The library states such facts for operators, which the provers cannot   *)
(* instantiate; here the step of a recursion, and the weights of a sum,    *)
(* are functions, and induction is done on sets: a set that holds 0 and    *)
(* the successor of each of its members holds every natural number.        *)
(***************************************************************************)
EXTENDS Blockchain, FiniteSetTheorems, WellFoundedInduction, TLAPS

-----------------------------------------------------------------------------
(* Induction                                                               *)

\* A non-empty set of natural numbers has a least member.
LEMMA LeastMember ==
  ASSUME NEW T \in SUBSET Nat, T # {}
  PROVE  \E x \in T : \A y \in T : x <= y
<1> DEFINE Lt == OpToRel(<, Nat)
<1>1. IsWellFoundedOn(Lt, Nat)
  BY NatLessThanWellFounded
<1>2. \A x, y \in Nat : x < y => <<x, y>> \in Lt
  BY DEF OpToRel
<1> HIDE DEF Lt
<1>3. PICK x \in T : \A y \in T : ~(<<y, x>> \in Lt)
  BY <1>1, WFMin
<1>4. ASSUME NEW y \in T
      PROVE  x <= y
  <2>1. x \in Nat /\ y \in Nat
    OBVIOUS
  <2>2. ~(y < x)
    BY <1>2, <1>3, <2>1, Zenon
  <2> QED
    BY <2>1, <2>2
<1> QED
  BY <1>4

\* Induction on the natural numbers.
LEMMA SetInduction ==
  ASSUME NEW S, 0 \in S, \A n \in Nat : n \in S => n + 1 \in S
  PROVE  Nat \subseteq S
<1> SUFFICES ASSUME Nat \ S # {}
             PROVE  FALSE
  OBVIOUS
<1>1. PICK x \in Nat \ S : \A y \in Nat \ S : x <= y
  BY LeastMember
<1>2. x - 1 \in Nat
  BY <1>1
<1>3. x - 1 \in S
  BY <1>1, <1>2
<1> QED
  BY <1>1, <1>2, <1>3

\* Induction on the subsets of a finite set: P is the set of those that have
\* the property.
LEMMA SubsetInduction ==
  ASSUME NEW U, IsFiniteSet(U), NEW P,
         \A s \in SUBSET U : (\A x \in s : s \ {x} \in P) => s \in P
  PROVE  SUBSET U \subseteq P
<1> DEFINE S == {n \in Nat : \A s \in SUBSET U : Cardinality(s) = n => s \in P}
<1>0. \A s \in SUBSET U : IsFiniteSet(s) /\ Cardinality(s) \in Nat
  BY FS_Subset, FS_CardinalityType
<1>1. 0 \in S
  <2> SUFFICES ASSUME NEW s \in SUBSET U, Cardinality(s) = 0
               PROVE  s \in P
    OBVIOUS
  <2>1. s = {}
    BY <1>0, FS_EmptySet
  <2> QED
    BY <2>1
<1>2. ASSUME NEW n \in Nat, n \in S
      PROVE  n + 1 \in S
  <2> SUFFICES ASSUME NEW s \in SUBSET U, Cardinality(s) = n + 1
               PROVE  s \in P
    OBVIOUS
  <2>1. ASSUME NEW x \in s
        PROVE  s \ {x} \in P
    <3>1. Cardinality(s \ {x}) = n
      BY <1>0, FS_RemoveElement
    <3> QED
      BY <1>2, <3>1
  <2> QED
    BY <2>1
<1> HIDE DEF S
<1>3. Nat \subseteq S
  BY <1>1, <1>2, SetInduction
<1> QED
  BY <1>0, <1>3 DEF S

-----------------------------------------------------------------------------
(* Recursion on the subsets of a finite set                                *)

\* g computes, on the subsets of U, the recursion that starts with base at {}
\* and takes the element choice[s] from s, which step combines with the rest.
Computes(g, U, base, choice, step) ==
  \A s \in SUBSET U :
    g[s] = IF s = {} THEN base ELSE step[s, g[s \ {choice[s]}]]

\* The recursion has a solution, whose values are of the type of the step.
LEMMA RecursionExists ==
  ASSUME NEW U, IsFiniteSet(U), NEW V, NEW base \in V,
         NEW choice, \A s \in SUBSET U : s # {} => choice[s] \in s,
         NEW step \in [(SUBSET U) \X V -> V]
  PROVE  \E g \in [SUBSET U -> V] : Computes(g, U, base, choice, step)
<1> DEFINE Layer(n) == {s \in SUBSET U : Cardinality(s) <= n}
           Good(g, n) == /\ g \in [Layer(n) -> V]
                         /\ \A s \in Layer(n) :
                              g[s] = IF s = {} THEN base
                                     ELSE step[s, g[s \ {choice[s]}]]
           S == {n \in Nat : \E g : Good(g, n)}
<1>0. \A s \in SUBSET U : IsFiniteSet(s) /\ Cardinality(s) \in Nat
  BY FS_Subset, FS_CardinalityType
<1>e. \A s \in SUBSET U : Cardinality(s) <= 0 => s = {}
  BY <1>0, FS_EmptySet
<1>r. ASSUME NEW n \in Nat, NEW s \in Layer(n + 1), s # {}
      PROVE  s \ {choice[s]} \in Layer(n)
  <2>1. choice[s] \in s /\ s \in SUBSET U
    BY <1>r
  <2>2. Cardinality(s \ {choice[s]}) = Cardinality(s) - 1
    BY <1>0, <2>1, FS_RemoveElement
  <2> QED
    BY <1>0, <2>1, <2>2
<1>1. 0 \in S
  <2> DEFINE g == [s \in Layer(0) |-> base]
  <2>1. Good(g, 0)
    BY <1>e
  <2> QED
    BY <2>1
<1>2. ASSUME NEW n \in Nat, n \in S
      PROVE  n + 1 \in S
  <2>1. PICK g : Good(g, n)
    BY <1>2
  <2> DEFINE h == [s \in Layer(n + 1) |->
                     IF s = {} THEN base ELSE step[s, g[s \ {choice[s]}]]]
  <2>2. h \in [Layer(n + 1) -> V]
    <3> SUFFICES ASSUME NEW s \in Layer(n + 1), s # {}
                 PROVE  step[s, g[s \ {choice[s]}]] \in V
      OBVIOUS
    <3>1. g[s \ {choice[s]}] \in V
      BY <1>r, <2>1
    <3> QED
      BY <3>1
  <2>3. ASSUME NEW s \in Layer(n)
        PROVE  h[s] = g[s]
    <3>1. s \in Layer(n + 1)
      BY <1>0
    <3> QED
      BY <2>1, <3>1
  <2>4. ASSUME NEW s \in Layer(n + 1)
        PROVE  h[s] = IF s = {} THEN base ELSE step[s, h[s \ {choice[s]}]]
    <3>1. CASE s = {}
      BY <3>1
    <3>2. CASE s # {}
      <4>1. h[s \ {choice[s]}] = g[s \ {choice[s]}]
        BY <1>r, <2>3, <3>2
      <4> QED
        BY <3>2, <4>1
    <3> QED
      BY <3>1, <3>2
  <2> HIDE DEF h
  <2>5. Good(h, n + 1)
    BY <2>2, <2>4
  <2> HIDE DEF Good
  <2> QED
    BY <2>5
<1> HIDE DEF S
<1>3. Cardinality(U) \in S
  BY <1>0, <1>1, <1>2, SetInduction
<1>4. PICK g : Good(g, Cardinality(U))
  BY <1>3 DEF S
<1>5. Layer(Cardinality(U)) = SUBSET U
  BY FS_Subset
<1> QED
  BY <1>4, <1>5 DEF Computes

\* Solutions agree where both are defined.
LEMMA RecursionUnique ==
  ASSUME NEW U, IsFiniteSet(U), NEW W \in SUBSET U,
         NEW base, NEW step,
         NEW choice, \A s \in SUBSET U : s # {} => choice[s] \in s,
         NEW g, Computes(g, U, base, choice, step),
         NEW h, Computes(h, W, base, choice, step)
  PROVE  \A s \in SUBSET W : g[s] = h[s]
<1> DEFINE P == {s \in SUBSET W : g[s] = h[s]}
<1>1. IsFiniteSet(W)
  BY FS_Subset
<1>2. ASSUME NEW s \in SUBSET W, \A x \in s : s \ {x} \in P
      PROVE  s \in P
  <2>1. CASE s = {}
    BY <2>1 DEF Computes
  <2>2. CASE s # {}
    <3>1. s \in SUBSET U /\ s \ {choice[s]} \in P
      BY <1>2, <2>2
    <3>2. g[s] = step[s, g[s \ {choice[s]}]]
      BY <2>2, <3>1 DEF Computes
    <3>3. h[s] = step[s, h[s \ {choice[s]}]]
      BY <2>2 DEF Computes
    <3> QED
      BY <3>1, <3>2, <3>3
  <2> QED
    BY <2>1, <2>2
<1> HIDE DEF P
<1>3. SUBSET W \subseteq P
  BY <1>1, <1>2, SubsetInduction
<1> QED
  BY <1>3 DEF P

-----------------------------------------------------------------------------
(* Sums                                                                    *)

\* g[s] is the sum of the weights of s, for every subset s of U, as the folds
\* of the community modules compute it.
IsSum(g, U, weight) ==
  /\ g \in [SUBSET U -> Nat]
  /\ \A s \in SUBSET U :
       g[s] = IF s = {} THEN 0
              ELSE LET x == CHOOSE x \in s : TRUE
                   IN  weight[x] + g[s \ {x}]

\* Every function with natural values can be summed over finite sets.
LEMMA SumExists ==
  ASSUME NEW U, IsFiniteSet(U), NEW weight \in [U -> Nat]
  PROVE  \E g : IsSum(g, U, weight)
<1> DEFINE choice == [s \in SUBSET U |-> CHOOSE x \in s : TRUE]
           step == [a \in (SUBSET U) \X Nat |->
                      IF a[1] = {} THEN 0 ELSE weight[choice[a[1]]] + a[2]]
<1>1. \A s \in SUBSET U : s # {} => choice[s] \in s
  OBVIOUS
<1>2. step \in [(SUBSET U) \X Nat -> Nat]
  BY <1>1
<1>3. \A s \in SUBSET U : \A n \in Nat :
        s # {} => step[s, n] = weight[choice[s]] + n
  OBVIOUS
<1>4. \A s \in SUBSET U : choice[s] = CHOOSE x \in s : TRUE
  OBVIOUS
<1> HIDE DEF choice, step
<1>5. PICK g \in [SUBSET U -> Nat] : Computes(g, U, 0, choice, step)
  BY <1>1, <1>2, RecursionExists
<1>6. ASSUME NEW s \in SUBSET U, s # {}
      PROVE  g[s] = weight[choice[s]] + g[s \ {choice[s]}]
  <2>1. g[s] = step[s, g[s \ {choice[s]}]]
    BY <1>5, <1>6 DEF Computes
  <2>2. g[s \ {choice[s]}] \in Nat
    BY <1>5
  <2> QED
    BY <1>3, <1>6, <2>1, <2>2
<1>7. g[{}] = 0
  BY <1>5 DEF Computes
<1>8. ASSUME NEW s \in SUBSET U
      PROVE  g[s] = IF s = {} THEN 0
                    ELSE LET x == CHOOSE x \in s : TRUE
                         IN  weight[x] + g[s \ {x}]
  BY <1>4, <1>6, <1>7
<1> QED
  BY <1>5, <1>8 DEF IsSum

\* Sums over a set agree when the weights of its elements do.
LEMMA SumAgree ==
  ASSUME NEW U, IsFiniteSet(U), NEW w, NEW g, IsSum(g, U, w),
         NEW W, NEW v, NEW h, IsSum(h, W, v)
  PROVE  \A s \in SUBSET U :
           s \subseteq W /\ (\A x \in s : w[x] = v[x]) => g[s] = h[s]
<1> DEFINE P == {s \in SUBSET U :
                   s \subseteq W /\ (\A x \in s : w[x] = v[x]) => g[s] = h[s]}
<1>1. ASSUME NEW s \in SUBSET U, \A x \in s : s \ {x} \in P
      PROVE  s \in P
  <2> SUFFICES ASSUME s \subseteq W, \A x \in s : w[x] = v[x]
               PROVE  g[s] = h[s]
    OBVIOUS
  <2>1. CASE s = {}
    BY <2>1 DEF IsSum
  <2>2. CASE s # {}
    <3> DEFINE x == CHOOSE x \in s : TRUE
    <3>1. x \in s
      BY <2>2
    <3>2. g[s] = w[x] + g[s \ {x}] /\ h[s] = v[x] + h[s \ {x}]
      BY <2>2 DEF IsSum
    <3> HIDE DEF x
    <3>3. g[s \ {x}] = h[s \ {x}]
      BY <1>1, <3>1
    <3> QED
      BY <3>1, <3>2, <3>3
  <2> QED
    BY <2>1, <2>2
<1> HIDE DEF P
<1>2. SUBSET U \subseteq P
  BY <1>1, SubsetInduction
<1> QED
  BY <1>2 DEF P

\* Any element can be taken out of a sum first.
LEMMA SumRemove ==
  ASSUME NEW U, IsFiniteSet(U), NEW weight \in [U -> Nat],
         NEW g, IsSum(g, U, weight), NEW S \in SUBSET U, NEW e \in S
  PROVE  g[S] = weight[e] + g[S \ {e}]
<1> DEFINE P == {s \in SUBSET U : \A x \in s : g[s] = weight[x] + g[s \ {x}]}
<1>1. ASSUME NEW s \in SUBSET U, \A x \in s : s \ {x} \in P
      PROVE  s \in P
  <2> SUFFICES ASSUME NEW x \in s
               PROVE  g[s] = weight[x] + g[s \ {x}]
    OBVIOUS
  <2> DEFINE c == CHOOSE y \in s : TRUE
  <2>1. c \in s
    OBVIOUS
  <2>2. g[s] = weight[c] + g[s \ {c}]
    BY DEF IsSum
  <2> HIDE DEF c
  <2>3. CASE x # c
    <3>1. s \ {c} \in P /\ s \ {x} \in P /\ x \in s \ {c} /\ c \in s \ {x}
      BY <1>1, <2>1, <2>3
    <3>2. g[s \ {c}] = weight[x] + g[(s \ {c}) \ {x}]
      BY <3>1
    <3>3. g[s \ {x}] = weight[c] + g[(s \ {x}) \ {c}]
      BY <3>1
    <3>4. (s \ {c}) \ {x} = (s \ {x}) \ {c}
      OBVIOUS
    <3>5. weight[x] \in Nat /\ weight[c] \in Nat /\ g[(s \ {x}) \ {c}] \in Nat
      BY <2>1 DEF IsSum
    <3>6. g[s] = weight[c] + (weight[x] + g[(s \ {x}) \ {c}])
      BY <2>2, <3>2, <3>4
    <3>7. \A p, q, r \in Nat : p + (q + r) = q + (p + r)
      OBVIOUS
    <3> QED
      BY <3>3, <3>5, <3>6, <3>7
  <2> QED
    BY <2>2, <2>3
<1> HIDE DEF P
<1>2. SUBSET U \subseteq P
  BY <1>1, SubsetInduction
<1> QED
  BY <1>2 DEF P

\* A part of a sum is no larger than the whole.
LEMMA SumMonotone ==
  ASSUME NEW U, IsFiniteSet(U), NEW weight \in [U -> Nat],
         NEW g, IsSum(g, U, weight),
         NEW S \in SUBSET U, NEW T \in SUBSET S
  PROVE  g[T] <= g[S]
<1> DEFINE P == {s \in SUBSET U : \A t \in SUBSET s : g[t] <= g[s]}
<1>1. ASSUME NEW s \in SUBSET U, \A x \in s : s \ {x} \in P
      PROVE  s \in P
  <2> SUFFICES ASSUME NEW t \in SUBSET s, t # s
               PROVE  g[t] <= g[s]
    BY DEF IsSum
  <2>1. PICK x \in s : x \notin t
    OBVIOUS
  <2>2. g[t] <= g[s \ {x}]
    BY <1>1, <2>1
  <2>3. g[s] = weight[x] + g[s \ {x}]
    BY SumRemove
  <2>4. weight[x] \in Nat /\ g[t] \in Nat /\ g[s \ {x}] \in Nat
    BY DEF IsSum
  <2> QED
    BY <2>2, <2>3, <2>4
<1> HIDE DEF P
<1>2. SUBSET U \subseteq P
  BY <1>1, SubsetInduction
<1> QED
  BY <1>2 DEF P

\* v is w with n moved from the weight of x to that of y.
Moves(w, v, U, x, y, n) ==
  /\ n \in Nat /\ x \in U /\ y \in U /\ x # y
  /\ v[x] = w[x] - n
  /\ v[y] = w[y] + n
  /\ \A z \in U \ {x, y} : v[z] = w[z]

\* Moving an amount from the weight of one element to that of another one
\* leaves the sum as it is.
LEMMA SumTransfer ==
  ASSUME NEW U, IsFiniteSet(U), NEW w \in [U -> Nat], NEW v \in [U -> Nat],
         NEW g, IsSum(g, U, w), NEW h, IsSum(h, U, v),
         NEW x, NEW y, NEW n, Moves(w, v, U, x, y, n)
  PROVE  h[U] = g[U]
<1>0. /\ n \in Nat /\ x \in U /\ y \in U /\ x # y
      /\ v[x] = w[x] - n /\ v[y] = w[y] + n
      /\ \A z \in U \ {x, y} : v[z] = w[z]
  BY DEF Moves
<1> DEFINE others == U \ {x}
           rest == others \ {y}
<1>1. g[U] = w[x] + g[others] /\ h[U] = v[x] + h[others]
  BY <1>0, SumRemove
<1>2. y \in others /\ others \in SUBSET U
  BY <1>0
<1>3. rest \in SUBSET U /\ \A z \in rest : z \in U \ {x, y}
  OBVIOUS
<1>4. g[rest] \in Nat /\ h[rest] \in Nat
  BY <1>3 DEF IsSum
<1> HIDE DEF others
<1>5. g[others] = w[y] + g[rest]
  BY <1>0, <1>2, SumRemove
<1>6. h[others] = v[y] + h[rest]
  BY <1>2, SumRemove
<1> HIDE DEF rest
<1>7. g[rest] = h[rest]
  BY <1>0, <1>3, SumAgree
<1> QED
  BY <1>0, <1>1, <1>4, <1>5, <1>6, <1>7

\* A solution of the recursion is a sum.
LEMMA SumSolution ==
  ASSUME NEW U, IsFiniteSet(U), NEW weight \in [U -> Nat],
         NEW g,
         g = [s \in SUBSET U |->
                IF s = {} THEN 0
                ELSE LET x == CHOOSE x \in s : TRUE
                     IN  weight[x] + g[s \ {x}]]
  PROVE  IsSum(g, U, weight)
<1> DEFINE P == {s \in SUBSET U : g[s] \in Nat}
<1>1. \A s \in SUBSET U :
        g[s] = IF s = {} THEN 0
               ELSE LET x == CHOOSE x \in s : TRUE
                    IN  weight[x] + g[s \ {x}]
  OBVIOUS
<1>2. DOMAIN g = SUBSET U /\ g = [s \in DOMAIN g |-> g[s]]
  OBVIOUS
<1>3. ASSUME NEW s \in SUBSET U, \A x \in s : s \ {x} \in P
      PROVE  s \in P
  <2>1. CASE s = {}
    <3>1. g[s] = 0
      BY <1>1, <2>1
    <3> QED
      BY <3>1
  <2>2. CASE s # {}
    <3> DEFINE x == CHOOSE x \in s : TRUE
    <3>1. x \in s
      BY <2>2
    <3>2. g[s] = weight[x] + g[s \ {x}]
      BY <1>1, <2>2
    <3>3. weight[x] \in Nat /\ g[s \ {x}] \in Nat
      BY <1>3, <3>1
    <3> QED
      BY <3>2, <3>3
  <2> QED
    BY <2>1, <2>2
<1> HIDE DEF P
<1>4. SUBSET U \subseteq P
  BY <1>3, SubsetInduction
<1>5. g \in [SUBSET U -> Nat]
  BY <1>2, <1>4 DEF P
<1> QED
  BY <1>1, <1>5 DEF IsSum

\* SumFunction is such a sum.
LEMMA SumFunctionIsSum ==
  ASSUME NEW U, IsFiniteSet(U), NEW f \in [U -> Nat]
  PROVE  \E g : IsSum(g, U, f) /\ SumFunction(f) = g[U]
<1> DEFINE F(h) == [s \in SUBSET U |->
                      IF s = {} THEN 0
                      ELSE LET x == CHOOSE x \in s : TRUE
                           IN  f[x] + h[s \ {x}]]
           g == CHOOSE h : h = F(h)
<1>1. DOMAIN f = U
  OBVIOUS
<1>2. SumFunction(f) = g[U]
  BY <1>1 DEF SumFunction, SumFunctionOnSet, FoldFunctionOnSet, MapThenFoldSet
<1>3. PICK k : IsSum(k, U, f)
  BY SumExists
<1>4. k = F(k)
  BY <1>3 DEF IsSum
<1>5. g = F(g)
  <2> HIDE DEF F
  <2> QED
    BY <1>4
<1> HIDE DEF g
<1>6. IsSum(g, U, f)
  BY <1>5, SumSolution
<1> QED
  BY <1>2, <1>6

\* Moving an amount from one value of a function to another one leaves the sum
\* of the values as it is.
LEMMA SumFunctionMoves ==
  ASSUME NEW U, IsFiniteSet(U), NEW w \in [U -> Nat], NEW v \in [U -> Nat],
         NEW x, NEW y, NEW n, Moves(w, v, U, x, y, n)
  PROVE  SumFunction(v) = SumFunction(w)
<1>1. PICK g : IsSum(g, U, w) /\ SumFunction(w) = g[U]
  BY SumFunctionIsSum
<1>2. PICK h : IsSum(h, U, v) /\ SumFunction(v) = h[U]
  BY SumFunctionIsSum
<1>3. h[U] = g[U]
  BY <1>1, <1>2, SumTransfer
<1> QED
  BY <1>1, <1>2, <1>3

-----------------------------------------------------------------------------
(* Sequences                                                               *)

\* Being a sequence does not depend on the set its elements come from.
LEMMA SeqIsSeq ==
  ASSUME NEW S, NEW s \in Seq(S)
  PROVE  IsSeq(s)
<1>1. s \in [1 .. Len(s) -> Range(s)] /\ Len(s) \in Nat
  BY DEF Range
<1> QED
  BY <1>1 DEF IsSeq

\* Appending a block or a transaction gives a sequence one longer.
LEMMA AppendIsSeq ==
  ASSUME NEW s, IsSeq(s), NEW e
  PROVE  /\ IsSeq(Append(s, e))
         /\ Len(Append(s, e)) = Len(s) + 1
         /\ \A i \in 1 .. Len(s) : Append(s, e)[i] = s[i]
         /\ Append(s, e)[Len(s) + 1] = e
         /\ Len(s) \in Nat
<1> DEFINE S == Range(s) \cup {e}
<1>1. s \in Seq(S) /\ e \in S
  BY DEF IsSeq
<1> HIDE DEF S
<1>2. Append(s, e) \in Seq(S)
  BY <1>1
<1>3. IsSeq(Append(s, e))
  BY <1>2, SeqIsSeq
<1> QED
  BY <1>1, <1>3

-----------------------------------------------------------------------------
(* applyAll                                                                *)

\* One step of applyAll's loop.
ApplyNext(prev, st, tx) ==
  IF prev.ok /\ TxApplies(prev.state, tx)
  THEN Applied(ApplyTx(prev.state, tx))
  ELSE Rejected(st)

\* The recursive definition of applyAll's loop has a solution, so it unfolds.
LEMMA ApplyStepsUnfold ==
  ASSUME NEW st, NEW txs, Len(txs) \in Nat
  PROVE  ApplySteps(st, txs) =
           [i \in 0 .. Len(txs) |->
              IF i = 0 THEN Applied(st)
              ELSE ApplyNext(ApplySteps(st, txs)[i - 1], st, txs[i])]
<1> DEFINE F(g, n) == [i \in 0 .. n |->
                         IF i = 0 THEN Applied(st)
                         ELSE ApplyNext(g[i - 1], st, txs[i])]
           S == {n \in Nat : \E g : g = F(g, n)}
<1>1. 0 \in S
  <2> DEFINE g == [i \in 0 .. 0 |-> Applied(st)]
  <2>1. g = F(g, 0)
    OBVIOUS
  <2> QED
    BY <2>1
<1>2. ASSUME NEW n \in Nat, n \in S
      PROVE  n + 1 \in S
  <2>1. PICK g : g = F(g, n)
    BY <1>2
  <2> DEFINE h == [i \in 0 .. n + 1 |->
                     IF i = n + 1 THEN ApplyNext(g[n], st, txs[n + 1])
                     ELSE g[i]]
  <2>2. ASSUME NEW i \in 0 .. n + 1
        PROVE  h[i] = F(h, n + 1)[i]
    <3>1. CASE i = 0
      BY <2>1, <3>1
    <3>2. CASE i \in 1 .. n
      <4>1. h[i] = g[i] /\ h[i - 1] = g[i - 1] /\ i - 1 \in 0 .. n + 1
        BY <3>2
      <4>2. g[i] = ApplyNext(g[i - 1], st, txs[i])
        BY <2>1, <3>2
      <4> QED
        BY <3>2, <4>1, <4>2
    <3>3. CASE i = n + 1
      BY <3>3
    <3> QED
      BY <3>1, <3>2, <3>3
  <2>3. h = F(h, n + 1)
    BY <2>2
  <2> HIDE DEF h
  <2> QED
    BY <2>3
<1>3. Len(txs) \in S
  <2> HIDE DEF S
  <2> QED
    BY <1>1, <1>2, SetInduction
<1>4. \E g : g = F(g, Len(txs))
  BY <1>3
<1>5. ApplySteps(st, txs) = CHOOSE g : g = F(g, Len(txs))
  BY DEF ApplySteps, ApplyNext
<1> QED
  BY <1>4, <1>5

\* A verified transaction that applies leads from world state to world state.
LEMMA ApplyTxType ==
  ASSUME NEW st \in WorldState, NEW tx, VerifyTransaction(tx),
         TxApplies(st, tx)
  PROVE  ApplyTx(st, tx) \in WorldState
<1>1. /\ tx.from \in Address /\ tx.to \in Address /\ tx.amount \in Nat
      /\ tx.from # tx.to
  BY DEF VerifyTransaction
<1>2. /\ st.balance \in [Address -> Nat] /\ st.nonce \in [Address -> Nat]
      /\ st.balance[tx.from] >= tx.amount
  BY DEF WorldState, TxApplies
<1>3. [st.balance EXCEPT ![tx.from] = @ - tx.amount,
                         ![tx.to]   = @ + tx.amount] \in [Address -> Nat]
  BY <1>1, <1>2
<1>4. [st.nonce EXCEPT ![tx.from] = @ + 1] \in [Address -> Nat]
  BY <1>1, <1>2
<1> QED
  BY <1>3, <1>4 DEF ApplyTx, WorldState

\* applyAll on verified transactions yields a world state, and the state it
\* was given when it refuses (all or nothing).
LEMMA ApplyAllType ==
  ASSUME NEW st \in WorldState, NEW txs, Len(txs) \in Nat,
         \A i \in 1 .. Len(txs) : VerifyTransaction(txs[i])
  PROVE  /\ ApplyAll(st, txs).ok \in BOOLEAN
         /\ ApplyAll(st, txs).state \in WorldState
         /\ ApplyAll(st, txs) = [ok    |-> ApplyAll(st, txs).ok,
                                 state |-> ApplyAll(st, txs).state]
         /\ ~ApplyAll(st, txs).ok => ApplyAll(st, txs).state = st
<1> DEFINE g == ApplySteps(st, txs)
           Good(r) == /\ r.ok \in BOOLEAN /\ r.state \in WorldState
                      /\ r = [ok |-> r.ok, state |-> r.state]
                      /\ ~r.ok => r.state = st
           S == {n \in Nat : n <= Len(txs) => Good(g[n])}
<1>1. g = [i \in 0 .. Len(txs) |->
             IF i = 0 THEN Applied(st) ELSE ApplyNext(g[i - 1], st, txs[i])]
  BY ApplyStepsUnfold
<1> HIDE DEF g
<1>2. 0 \in S
  BY <1>1 DEF Applied
<1>3. ASSUME NEW n \in Nat, n \in S
      PROVE  n + 1 \in S
  <2> SUFFICES ASSUME n + 1 <= Len(txs)
               PROVE  Good(g[n + 1])
    OBVIOUS
  <2>1. Good(g[n])
    BY <1>3
  <2>2. g[n + 1] = ApplyNext(g[n], st, txs[n + 1])
    BY <1>1
  <2>3. VerifyTransaction(txs[n + 1])
    OBVIOUS
  <2>4. CASE g[n].ok /\ TxApplies(g[n].state, txs[n + 1])
    <3>1. ApplyTx(g[n].state, txs[n + 1]) \in WorldState
      BY <2>1, <2>3, <2>4, ApplyTxType
    <3> QED
      BY <2>2, <2>4, <3>1 DEF ApplyNext, Applied
  <2>5. CASE ~(g[n].ok /\ TxApplies(g[n].state, txs[n + 1]))
    <3>1. g[n + 1] = Rejected(st)
      BY <2>2, <2>5, Zenon DEF ApplyNext
    <3> QED
      BY <3>1 DEF Rejected
  <2> QED
    BY <2>4, <2>5
<1>4. Len(txs) \in S
  <2> HIDE DEF S
  <2> QED
    BY <1>2, <1>3, SetInduction
<1> QED
  BY <1>4 DEF ApplyAll, g

\* applyBlockTransactions, accepting or not, yields an account state.
LEMMA ApplyBlockType ==
  ASSUME NEW st \in WorldState, NEW b, IsBlock(b)
  PROVE  /\ ApplyBlockTransactions(b, st).ok \in BOOLEAN
         /\ ApplyBlockTransactions(b, st).state \in WorldState
         /\ ApplyBlockTransactions(b, st) =
              [ok    |-> ApplyBlockTransactions(b, st).ok,
               state |-> ApplyBlockTransactions(b, st).state]
<1>1. Len(b.transactions) \in Nat
  BY DEF IsBlock, IsSeq
<1>2. CASE \A i \in 1 .. Len(b.transactions) :
             VerifyTransaction(b.transactions[i])
  BY <1>1, <1>2, ApplyAllType DEF ApplyBlockTransactions
<1>3. CASE ~ \A i \in 1 .. Len(b.transactions) :
               VerifyTransaction(b.transactions[i])
  BY <1>3 DEF ApplyBlockTransactions, Rejected
<1> QED
  BY <1>2, <1>3

-----------------------------------------------------------------------------
(* Replay of a chain                                                       *)

\* One step of validateChain's loop.
ReplayNext(prev, b) ==
  IF prev.ok THEN ApplyBlockTransactions(b, prev.state) ELSE prev

\* The recursive definition of the replay has a solution, so it unfolds.
LEMMA ReplayStepsUnfold ==
  ASSUME NEW c, Len(c) \in Nat
  PROVE  ReplaySteps(c) =
           [i \in 1 .. Len(c) |->
              IF i = 1 THEN Applied(GenesisState)
              ELSE ReplayNext(ReplaySteps(c)[i - 1], c[i])]
<1> DEFINE F(g, n) == [i \in 1 .. n |->
                         IF i = 1 THEN Applied(GenesisState)
                         ELSE ReplayNext(g[i - 1], c[i])]
           S == {n \in Nat : \E g : g = F(g, n)}
<1>1. 0 \in S
  <2> DEFINE g == [i \in 1 .. 0 |-> Applied(GenesisState)]
  <2>1. g = F(g, 0)
    OBVIOUS
  <2> QED
    BY <2>1
<1>2. ASSUME NEW n \in Nat, n \in S
      PROVE  n + 1 \in S
  <2>1. PICK g : g = F(g, n)
    BY <1>2
  <2> DEFINE h == [i \in 1 .. n + 1 |->
                     IF i = n + 1
                     THEN IF n = 0 THEN Applied(GenesisState)
                          ELSE ReplayNext(g[n], c[n + 1])
                     ELSE g[i]]
  <2>2. ASSUME NEW i \in 1 .. n + 1
        PROVE  h[i] = F(h, n + 1)[i]
    <3>1. CASE i = 1
      BY <2>1, <3>1
    <3>2. CASE i \in 2 .. n
      <4>1. h[i] = g[i] /\ h[i - 1] = g[i - 1] /\ i - 1 \in 1 .. n + 1
        BY <3>2
      <4>2. g[i] = ReplayNext(g[i - 1], c[i])
        BY <2>1, <3>2
      <4> QED
        BY <3>2, <4>1, <4>2
    <3>3. CASE i = n + 1 /\ n # 0
      BY <3>3
    <3> QED
      BY <3>1, <3>2, <3>3
  <2>3. h = F(h, n + 1)
    BY <2>2
  <2> HIDE DEF h
  <2> QED
    BY <2>3
<1>3. Len(c) \in S
  <2> HIDE DEF S
  <2> QED
    BY <1>1, <1>2, SetInduction
<1>4. \E g : g = F(g, Len(c))
  BY <1>3
<1>5. ReplaySteps(c) = CHOOSE g : g = F(g, Len(c))
  BY DEF ReplaySteps, ReplayNext
<1> QED
  BY <1>4, <1>5

\* Every account state that a replay passes through is a world state.
LEMMA ReplayType ==
  ASSUME NEW c, IsChain(c), Len(c) > 0
  PROVE  /\ ReplayChain(c).ok \in BOOLEAN
         /\ ReplayChain(c).state \in WorldState
         /\ ReplayChain(c) = [ok    |-> ReplayChain(c).ok,
                              state |-> ReplayChain(c).state]
<1> DEFINE g == ReplaySteps(c)
           Good(r) == /\ r.ok \in BOOLEAN /\ r.state \in WorldState
                      /\ r = [ok |-> r.ok, state |-> r.state]
           S == {n \in Nat : n + 1 <= Len(c) => Good(g[n + 1])}
<1>0. Len(c) \in Nat /\ \A i \in 1 .. Len(c) : IsBlock(c[i])
  BY DEF IsChain, IsSeq
<1>1. g = [i \in 1 .. Len(c) |->
             IF i = 1 THEN Applied(GenesisState) ELSE ReplayNext(g[i - 1], c[i])]
  BY <1>0, ReplayStepsUnfold
<1> HIDE DEF g
<1>2. 0 \in S
  <2>1. GenesisState \in WorldState
    BY LedgerAssumption DEF GenesisState, WorldState
  <2>2. g[0 + 1] = Applied(GenesisState)
    BY <1>0, <1>1
  <2>3. Good(Applied(GenesisState))
    BY <2>1 DEF Applied
  <2> QED
    BY <2>2, <2>3
<1>3. ASSUME NEW n \in Nat, n \in S
      PROVE  n + 1 \in S
  <2> SUFFICES ASSUME n + 2 <= Len(c)
               PROVE  Good(g[n + 2])
    OBVIOUS
  <2>1. Good(g[n + 1])
    BY <1>0, <1>3
  <2>2. g[n + 2] = ReplayNext(g[n + 1], c[n + 2])
    BY <1>0, <1>1
  <2>3. IsBlock(c[n + 2])
    BY <1>0
  <2>4. Good(ApplyBlockTransactions(c[n + 2], g[n + 1].state))
    BY <2>1, <2>3, ApplyBlockType
  <2> QED
    BY <2>1, <2>2, <2>4 DEF ReplayNext
<1>4. Len(c) - 1 \in S
  <2> HIDE DEF S
  <2> QED
    BY <1>0, <1>2, <1>3, SetInduction
<1> QED
  BY <1>0, <1>4 DEF ReplayChain, g

\* Replaying a chain with one more block is one more step: what addBlock does
\* to the state in memory is what a restart will recompute.
LEMMA ReplayAppend ==
  ASSUME NEW c, IsSeq(c), Len(c) > 0, NEW b
  PROVE  ReplayChain(Append(c, b)) = ReplayNext(ReplayChain(c), b)
<1> DEFINE d == Append(c, b)
           g == ReplaySteps(c)
           h == ReplaySteps(d)
           S == {n \in Nat : n + 1 <= Len(c) => g[n + 1] = h[n + 1]}
<1>0. /\ Len(c) \in Nat /\ Len(d) = Len(c) + 1
      /\ \A i \in 1 .. Len(c) : d[i] = c[i]
      /\ d[Len(c) + 1] = b
  BY AppendIsSeq
<1> HIDE DEF d
<1>1. g = [i \in 1 .. Len(c) |->
             IF i = 1 THEN Applied(GenesisState) ELSE ReplayNext(g[i - 1], c[i])]
  BY <1>0, ReplayStepsUnfold
<1>2. h = [i \in 1 .. Len(d) |->
             IF i = 1 THEN Applied(GenesisState) ELSE ReplayNext(h[i - 1], d[i])]
  BY <1>0, ReplayStepsUnfold
<1> HIDE DEF g, h
<1>3. 0 \in S
  BY <1>0, <1>1, <1>2
<1>4. ASSUME NEW n \in Nat, n \in S
      PROVE  n + 1 \in S
  <2> SUFFICES ASSUME n + 2 <= Len(c)
               PROVE  g[n + 2] = h[n + 2]
    OBVIOUS
  <2>1. g[n + 2] = ReplayNext(g[n + 1], c[n + 2])
    BY <1>0, <1>1
  <2>2. h[n + 2] = ReplayNext(h[n + 1], d[n + 2])
    BY <1>0, <1>2
  <2>3. g[n + 1] = h[n + 1] /\ d[n + 2] = c[n + 2]
    BY <1>0, <1>4
  <2> QED
    BY <2>1, <2>2, <2>3
<1>5. g[Len(c)] = h[Len(c)]
  <2>1. Len(c) - 1 \in S
    <3> HIDE DEF S
    <3> QED
      BY <1>0, <1>3, <1>4, SetInduction
  <2> QED
    BY <1>0, <2>1
<1>6. h[Len(d)] = ReplayNext(h[Len(c)], b)
  BY <1>0, <1>2
<1> QED
  BY <1>5, <1>6 DEF ReplayChain, d, g, h

\* The genesis chain replays to the genesis state.
LEMMA ReplayGenesis == ReplayChain(<<GenesisBlock>>) = Applied(GenesisState)
<1> DEFINE c == <<GenesisBlock>>
<1>1. Len(c) = 1
  OBVIOUS
<1> HIDE DEF c
<1>2. ReplaySteps(c)[1] = Applied(GenesisState)
  BY <1>1, ReplayStepsUnfold
<1> QED
  BY <1>1, <1>2 DEF ReplayChain, c

-----------------------------------------------------------------------------
(* The mempool                                                             *)

\* The fields of a blockchain object.
IsObject(o) ==
  DOMAIN o = {"chain", "state", "pendingTransactions", "receivedAt"}

\* pruneMempool touches only the pool: what survives was pending before, is
\* not confirmed, and keeps its arrival time.
LEMMA PruneFacts ==
  ASSUME NEW o, IsObject(o), NEW now,
         DOMAIN o.receivedAt = HashesOf(o.pendingTransactions),
         \A t \in o.pendingTransactions : VerifyTransaction(t)
  PROVE  /\ IsObject(PruneMempool(o, now))
         /\ PruneMempool(o, now).chain = o.chain
         /\ PruneMempool(o, now).state = o.state
         /\ PruneMempool(o, now).pendingTransactions
              \subseteq o.pendingTransactions
         /\ DOMAIN PruneMempool(o, now).receivedAt =
              HashesOf(PruneMempool(o, now).pendingTransactions)
         /\ \A h \in DOMAIN PruneMempool(o, now).receivedAt :
              /\ h \in DOMAIN o.receivedAt
              /\ PruneMempool(o, now).receivedAt[h] = o.receivedAt[h]
         /\ \A t \in PruneMempool(o, now).pendingTransactions :
              t.nonce >= o.state.nonce[t.from]
<1> DEFINE r == PruneMempool(o, now)
           live == {t \in o.pendingTransactions : IsLive(o, t, now)}
           keep == HashesOf(live \cap Affordable(o, live))
           kept == {t \in o.pendingTransactions : t.hash \in keep}
           arr == [h \in DOMAIN o.receivedAt \cap keep |-> o.receivedAt[h]]
<1>1. r = [o EXCEPT !.pendingTransactions = kept, !.receivedAt = arr]
  BY DEF PruneMempool
<1>2. /\ IsObject(r) /\ r.chain = o.chain /\ r.state = o.state
      /\ r.pendingTransactions = kept /\ r.receivedAt = arr
  <2> HIDE DEF r, kept, arr
  <2> QED
    BY <1>1 DEF IsObject
<1>3. DOMAIN arr = HashesOf(kept)
  <2> HIDE DEF keep
  <2> QED
    BY DEF HashesOf
<1>4. \A t \in kept : t.nonce >= o.state.nonce[t.from]
  <2> SUFFICES ASSUME NEW t \in o.pendingTransactions, t.hash \in keep
               PROVE  t.nonce >= o.state.nonce[t.from]
    OBVIOUS
  <2>1. PICK u \in live : u.hash = t.hash
    BY DEF HashesOf
  <2>2. ComputeTxHash(u) = ComputeTxHash(t)
    BY <2>1 DEF VerifyTransaction
  <2>3. u.from = t.from /\ u.nonce = t.nonce
    BY <2>2 DEF ComputeTxHash
  <2>4. u.nonce >= o.state.nonce[u.from]
    BY <2>1 DEF IsLive
  <2> QED
    BY <2>3, <2>4
<1>5. \A h \in DOMAIN arr : h \in DOMAIN o.receivedAt /\ arr[h] = o.receivedAt[h]
  OBVIOUS
<1>6. kept \subseteq o.pendingTransactions
  OBVIOUS
<1> HIDE DEF r, kept, arr
<1> QED
  BY <1>2, <1>3, <1>4, <1>5, <1>6 DEF r

-----------------------------------------------------------------------------
(* Selection of a block's transactions                                     *)

\* One step of selectTransactionsForBlock's loop.
SelectNext(prev, tx) ==
  IF Len(prev.selected) < MaxTxsPerBlock /\ TxApplies(prev.sim, tx)
  THEN [ sim      |-> ApplyTx(prev.sim, tx),
         selected |-> Append(prev.selected, tx) ]
  ELSE prev

\* The recursive definition of the selection has a solution, so it unfolds.
LEMMA SelectStepsUnfold ==
  ASSUME NEW o, NEW txs, Len(txs) \in Nat
  PROVE  SelectSteps(o, txs) =
           [i \in 0 .. Len(txs) |->
              IF i = 0 THEN [sim |-> o.state, selected |-> <<>>]
              ELSE SelectNext(SelectSteps(o, txs)[i - 1], txs[i])]
<1> DEFINE none == [sim |-> o.state, selected |-> <<>>]
           F(g, n) == [i \in 0 .. n |->
                         IF i = 0 THEN none ELSE SelectNext(g[i - 1], txs[i])]
           S == {n \in Nat : \E g : g = F(g, n)}
<1>2. SelectSteps(o, txs) = CHOOSE g : g = F(g, Len(txs))
  BY DEF SelectSteps, SelectNext
<1> HIDE DEF none
<1>3. 0 \in S
  <2> DEFINE g == [i \in 0 .. 0 |-> none]
  <2>1. g = F(g, 0)
    OBVIOUS
  <2> QED
    BY <2>1
<1>4. ASSUME NEW n \in Nat, n \in S
      PROVE  n + 1 \in S
  <2>1. PICK g : g = F(g, n)
    BY <1>4
  <2> DEFINE h == [i \in 0 .. n + 1 |->
                     IF i = n + 1 THEN SelectNext(g[n], txs[n + 1]) ELSE g[i]]
  <2>2. ASSUME NEW i \in 0 .. n + 1
        PROVE  h[i] = F(h, n + 1)[i]
    <3>1. CASE i = 0
      BY <2>1, <3>1
    <3>2. CASE i \in 1 .. n
      <4>1. h[i] = g[i] /\ h[i - 1] = g[i - 1] /\ i - 1 \in 0 .. n + 1
        BY <3>2
      <4>2. g[i] = SelectNext(g[i - 1], txs[i])
        BY <2>1, <3>2
      <4> QED
        BY <3>2, <4>1, <4>2
    <3>3. CASE i = n + 1
      BY <3>3
    <3> QED
      BY <3>1, <3>2, <3>3
  <2>3. h = F(h, n + 1)
    BY <2>2
  <2> HIDE DEF h
  <2> QED
    BY <2>3
<1>5. Len(txs) \in S
  <2> HIDE DEF S
  <2> QED
    BY <1>3, <1>4, SetInduction
<1>6. \E g : g = F(g, Len(txs))
  BY <1>5
<1> QED
  BY <1>2, <1>6 DEF none

\* applyAll of a sequence with one more transaction is one more step.
LEMMA ApplyAllAppend ==
  ASSUME NEW st, NEW s, IsSeq(s), NEW tx
  PROVE  ApplyAll(st, Append(s, tx)) = ApplyNext(ApplyAll(st, s), st, tx)
<1> DEFINE d == Append(s, tx)
           g == ApplySteps(st, s)
           h == ApplySteps(st, d)
           S == {n \in Nat : n <= Len(s) => g[n] = h[n]}
<1>0. /\ Len(s) \in Nat /\ Len(d) = Len(s) + 1
      /\ \A i \in 1 .. Len(s) : d[i] = s[i]
      /\ d[Len(s) + 1] = tx
  BY AppendIsSeq
<1> HIDE DEF d
<1>1. g = [i \in 0 .. Len(s) |->
             IF i = 0 THEN Applied(st) ELSE ApplyNext(g[i - 1], st, s[i])]
  BY <1>0, ApplyStepsUnfold
<1>2. h = [i \in 0 .. Len(d) |->
             IF i = 0 THEN Applied(st) ELSE ApplyNext(h[i - 1], st, d[i])]
  BY <1>0, ApplyStepsUnfold
<1> HIDE DEF g, h
<1>3. 0 \in S
  BY <1>0, <1>1, <1>2
<1>4. ASSUME NEW n \in Nat, n \in S
      PROVE  n + 1 \in S
  <2> SUFFICES ASSUME n + 1 <= Len(s)
               PROVE  g[n + 1] = h[n + 1]
    OBVIOUS
  <2>1. g[n + 1] = ApplyNext(g[n], st, s[n + 1])
    BY <1>0, <1>1
  <2>2. h[n + 1] = ApplyNext(h[n], st, d[n + 1])
    BY <1>0, <1>2
  <2>3. g[n] = h[n] /\ d[n + 1] = s[n + 1]
    BY <1>0, <1>4
  <2> QED
    BY <2>1, <2>2, <2>3
<1>5. g[Len(s)] = h[Len(s)]
  <2>1. Len(s) \in S
    <3> HIDE DEF S
    <3> QED
      BY <1>0, <1>3, <1>4, SetInduction
  <2> QED
    BY <1>0, <2>1
<1>6. h[Len(d)] = ApplyNext(h[Len(s)], st, tx)
  BY <1>0, <1>2
<1> QED
  BY <1>5, <1>6 DEF ApplyAll, d, g, h

\* The simulation of the selection agrees with applyAll: what is selected
\* comes from the sorted pool and applies to the object's state.
LEMMA SelectionApplies ==
  ASSUME NEW o, NEW txs, Len(txs) \in Nat,
         NEW P, \A i \in 1 .. Len(txs) : txs[i] \in P
  PROVE  LET sel == SelectTransactionsForBlock(o, txs)
         IN  /\ IsSeq(sel)
             /\ \A i \in 1 .. Len(sel) : sel[i] \in P
             /\ ApplyAll(o.state, sel).ok
<1> DEFINE g == SelectSteps(o, txs)
           none == [sim |-> o.state, selected |-> <<>>]
           Good(r) == /\ IsSeq(r.selected)
                      /\ \A i \in 1 .. Len(r.selected) : r.selected[i] \in P
                      /\ ApplyAll(o.state, r.selected) = Applied(r.sim)
           S == {n \in Nat : n <= Len(txs) => Good(g[n])}
<1>1. g = [i \in 0 .. Len(txs) |->
             IF i = 0 THEN none ELSE SelectNext(g[i - 1], txs[i])]
  BY SelectStepsUnfold
<1> HIDE DEF g
<1>2. 0 \in S
  <2>1. g[0] = none
    BY <1>1
  <2>2. IsSeq(<<>>) /\ Len(<<>>) = 0
    <3>1. <<>> \in Seq({}) /\ Len(<<>>) = 0
      OBVIOUS
    <3> QED
      BY <3>1, SeqIsSeq
  <2>3. ApplyAll(o.state, <<>>) = Applied(o.state)
    <3>1. ApplySteps(o.state, <<>>)[0] = Applied(o.state)
      BY <2>2, ApplyStepsUnfold
    <3> QED
      BY <2>2, <3>1 DEF ApplyAll
  <2>4. none.selected = <<>> /\ none.sim = o.state
    OBVIOUS
  <2> HIDE DEF none
  <2> QED
    BY <2>1, <2>2, <2>3, <2>4
<1>3. ASSUME NEW n \in Nat, n \in S
      PROVE  n + 1 \in S
  <2> SUFFICES ASSUME n + 1 <= Len(txs)
               PROVE  Good(g[n + 1])
    OBVIOUS
  <2> DEFINE p == g[n]
             tx == txs[n + 1]
             s == Append(p.selected, tx)
  <2>1. Good(p)
    BY <1>3
  <2>2. g[n + 1] = SelectNext(p, tx)
    BY <1>1
  <2>3. tx \in P
    OBVIOUS
  <2> HIDE DEF p, tx
  <2>4. CASE Len(p.selected) < MaxTxsPerBlock /\ TxApplies(p.sim, tx)
    <3>1. g[n + 1] = [sim |-> ApplyTx(p.sim, tx), selected |-> s]
      BY <2>2, <2>4, Zenon DEF SelectNext
    <3>2. /\ IsSeq(s) /\ Len(p.selected) \in Nat
          /\ Len(s) = Len(p.selected) + 1
          /\ \A i \in 1 .. Len(p.selected) : s[i] = p.selected[i]
          /\ s[Len(p.selected) + 1] = tx
      BY <2>1, AppendIsSeq
    <3>3. ApplyAll(o.state, s) = ApplyNext(Applied(p.sim), o.state, tx)
      BY <2>1, ApplyAllAppend
    <3>4. ApplyAll(o.state, s) = Applied(ApplyTx(p.sim, tx))
      BY <2>4, <3>3 DEF ApplyNext, Applied
    <3> HIDE DEF s
    <3>5. \A i \in 1 .. Len(s) : s[i] \in P
      BY <2>1, <2>3, <3>2
    <3> QED
      BY <3>1, <3>2, <3>4, <3>5
  <2>5. CASE ~(Len(p.selected) < MaxTxsPerBlock /\ TxApplies(p.sim, tx))
    <3>1. g[n + 1] = p
      BY <2>2, <2>5, Zenon DEF SelectNext
    <3> QED
      BY <2>1, <3>1
  <2> QED
    BY <2>4, <2>5
<1>4. Len(txs) \in S
  <2> HIDE DEF S
  <2> QED
    BY <1>2, <1>3, SetInduction
<1>5. Good(g[Len(txs)])
  BY <1>4
<1> QED
  BY <1>5 DEF SelectTransactionsForBlock, Applied, g

\* A sorted order of a finite set is a sequence of its members.
LEMMA SortedOrderIsSeq ==
  ASSUME NEW txs, IsFiniteSet(txs), NEW s \in SortedOrders(txs)
  PROVE  Len(s) \in Nat /\ \A i \in 1 .. Len(s) : s[i] \in txs
<1>1. Cardinality(txs) \in Nat
  BY FS_CardinalityType
<1>2. s \in [1 .. Cardinality(txs) -> txs]
  BY DEF SortedOrders, SetToSeqs
<1>3. s \in Seq(txs)
  BY <1>1, <1>2
<1> QED
  BY <1>3

-----------------------------------------------------------------------------
(* Sound objects                                                           *)

\* A chain that would pass validateChain at this time.
ChainOK(c, time) ==
  /\ IsChain(c)
  /\ Len(c) > 0
  /\ IsRooted(c)
  /\ IsLinked(c, time)

\* A sender uses a nonce once in a set of transactions.
NoncesDistinct(txs) ==
  \A t, u \in txs : (t.from = u.from /\ t.nonce = u.nonce) => t = u

\* What holds of the object while the mempool is still to be pruned.
UnprunedOK(o, time) ==
  /\ IsObject(o)
  /\ ChainOK(o.chain, time)
  /\ o.state \in WorldState
  /\ ReplayChain(o.chain) = Applied(o.state)
  /\ \A t \in o.pendingTransactions : VerifyTransaction(t)
  /\ NoncesDistinct(o.pendingTransactions)
  /\ IsFiniteSet(o.pendingTransactions)
  /\ DOMAIN o.receivedAt = HashesOf(o.pendingTransactions)
  /\ \A h \in DOMAIN o.receivedAt : o.receivedAt[h] \in 0 .. time

\* What holds of the object between two handlers.
ObjectOK(o, time) ==
  /\ UnprunedOK(o, time)
  /\ \A t \in o.pendingTransactions : t.nonce >= o.state.nonce[t.from]

\* What holds of the data file: a later restart will accept its chain.
DiskOK(d, time) ==
  d # NoSnapshot =>
    /\ ChainOK(d.chain, time)
    /\ ReplayChain(d.chain).ok
    /\ NoncesDistinct(d.pendingTransactions)
    /\ IsFiniteSet(d.pendingTransactions)

-----------------------------------------------------------------------------
(* Chains                                                                  *)

\* A point of time falls in a slot; slots before the epoch have negative numbers.
LEMMA SlotType ==
  ASSUME NEW t \in Int
  PROVE  GetSlot(t) \in Int
BY LedgerAssumption DEF GetSlot

\* Later points of time fall in the same slot or in later ones.
LEMMA SlotMonotone ==
  ASSUME NEW t \in Int, NEW u \in Int, t <= u
  PROVE  GetSlot(t) <= GetSlot(u)
<1> DEFINE D == SlotDuration
<1>1. D \in Nat /\ D > 0
  BY LedgerAssumption
<1> HIDE DEF D
<1>2. \A x \in Int : /\ x \div D \in Int
                     /\ D * (x \div D) <= x
                     /\ x < D * (x \div D) + D
  BY <1>1
<1>3. D * (t \div D) < D * ((u \div D) + 1)
  BY <1>1, <1>2
<1>4. \A p, r \in Int : D * p < D * r => p < r
  BY <1>1
<1>5. t \div D < (u \div D) + 1
  BY <1>2, <1>3, <1>4
<1> QED
  BY <1>2, <1>5 DEF GetSlot, D

\* A chain that was valid stays valid as time goes on.
LEMMA ChainOKLater ==
  ASSUME NEW c, NEW t \in Nat, NEW u \in Nat, t <= u, ChainOK(c, t)
  PROVE  ChainOK(c, u)
<1> SUFFICES ASSUME NEW i \in 2 .. Len(c)
             PROVE  IsValidNewBlock(c[i], c[i - 1], u)
  BY DEF ChainOK, IsLinked
<1>1. IsValidNewBlock(c[i], c[i - 1], t)
  BY DEF ChainOK, IsLinked
<1>2. c[i].timestamp \in Int
  BY DEF ChainOK, IsChain, IsSeq, IsBlock
<1>3. c[i].timestamp <= u + MaxFutureDrift
  BY <1>1, <1>2, LedgerAssumption DEF IsValidNewBlock
<1> QED
  BY <1>1, <1>3 DEF IsValidNewBlock

\* A valid next block keeps the chain valid.
LEMMA ChainOKAppend ==
  ASSUME NEW c, NEW t \in Nat, ChainOK(c, t),
         NEW b, IsBlock(b), IsValidNewBlock(b, c[Len(c)], t)
  PROVE  ChainOK(Append(c, b), t)
<1> DEFINE d == Append(c, b)
<1>1. /\ IsSeq(d) /\ Len(c) \in Nat /\ Len(d) = Len(c) + 1
      /\ \A i \in 1 .. Len(c) : d[i] = c[i]
      /\ d[Len(c) + 1] = b
  BY AppendIsSeq DEF ChainOK, IsChain
<1>2. DOMAIN c = 1 .. Len(c) /\ DOMAIN d = 1 .. Len(d)
  BY <1>1 DEF ChainOK, IsChain, IsSeq
<1> HIDE DEF d
<1>3. IsChain(d)
  <2>1. ASSUME NEW i \in 1 .. Len(d)
        PROVE  IsBlock(d[i])
    <3>1. CASE i = Len(c) + 1
      BY <1>1, <3>1
    <3>2. CASE i \in 1 .. Len(c)
      BY <1>1, <1>2, <3>2 DEF ChainOK, IsChain
    <3> QED
      BY <1>1, <3>1, <3>2
  <2> QED
    BY <1>1, <1>2, <2>1 DEF IsChain
<1>4. IsRooted(d)
  BY <1>1 DEF ChainOK, IsRooted
<1>5. ASSUME NEW i \in 2 .. Len(d)
      PROVE  IsValidNewBlock(d[i], d[i - 1], t)
  <2>1. CASE i = Len(c) + 1
    BY <1>1, <2>1 DEF ChainOK
  <2>2. CASE i \in 2 .. Len(c)
    <3>1. d[i] = c[i] /\ d[i - 1] = c[i - 1]
      BY <1>1, <2>2
    <3>2. IsValidNewBlock(c[i], c[i - 1], t)
      BY <2>2 DEF ChainOK, IsLinked
    <3> QED
      BY <3>1, <3>2
  <2> QED
    BY <1>1, <2>1, <2>2
<1> QED
  BY <1>1, <1>3, <1>4, <1>5 DEF ChainOK, IsLinked, d

\* In a linked chain a block is at least as many slots after an earlier one as
\* it is blocks: the step rule of isValidNewBlock, carried over the chain.
LEMMA SlotsApart ==
  ASSUME NEW c, NEW t \in Nat, ChainOK(c, t),
         NEW i \in 1 .. Len(c), NEW j \in 1 .. Len(c), i <= j
  PROVE  j - i <= GetSlot(c[j].timestamp) - GetSlot(c[i].timestamp)
<1> DEFINE slot(k) == GetSlot(c[k].timestamp)
           S == {n \in Nat : i + n <= Len(c) => n <= slot(i + n) - slot(i)}
<1>0. Len(c) \in Nat /\ \A k \in 1 .. Len(c) : slot(k) \in Int
  <2>1. Len(c) \in Nat /\ \A k \in 1 .. Len(c) : c[k].timestamp \in Int
    BY DEF ChainOK, IsChain, IsSeq, IsBlock
  <2> QED
    BY <2>1, SlotType
<1>1. \A k \in 2 .. Len(c) : slot(k) > slot(k - 1)
  BY DEF ChainOK, IsLinked, IsValidNewBlock
<1> HIDE DEF slot
<1>2. 0 \in S
  BY <1>0
<1>3. ASSUME NEW n \in Nat, n \in S
      PROVE  n + 1 \in S
  <2> SUFFICES ASSUME i + (n + 1) <= Len(c)
               PROVE  n + 1 <= slot(i + (n + 1)) - slot(i)
    OBVIOUS
  <2> DEFINE k == i + (n + 1)
  <2>1. k \in 2 .. Len(c) /\ k - 1 = i + n /\ k - 1 \in 1 .. Len(c)
    BY <1>0
  <2>2. n <= slot(i + n) - slot(i)
    BY <1>0, <1>3
  <2> HIDE DEF k
  <2>3. slot(k) > slot(k - 1)
    BY <1>1, <2>1
  <2>4. slot(i) \in Int /\ slot(k) \in Int /\ slot(k - 1) \in Int
    BY <1>0, <2>1
  <2>5. n + 1 <= slot(k) - slot(i)
    BY <2>1, <2>2, <2>3, <2>4
  <2> QED
    BY <2>5 DEF k
<1>4. j - i \in S
  <2>1. j - i \in Nat
    BY <1>0
  <2> HIDE DEF S
  <2> QED
    BY <1>2, <1>3, <2>1, SetInduction
<1>5. j - i <= slot(i + (j - i)) - slot(i) /\ i + (j - i) = j
  BY <1>0, <1>4
<1> QED
  BY <1>5 DEF slot

\* In a linked chain slots increase from any block to any later one.
LEMMA SlotsIncrease ==
  ASSUME NEW c, NEW t \in Nat, ChainOK(c, t),
         NEW i \in 1 .. Len(c), NEW j \in 1 .. Len(c), i < j
  PROVE  GetSlot(c[i].timestamp) < GetSlot(c[j].timestamp)
<1>1. /\ c[i].timestamp \in Int /\ c[j].timestamp \in Int
      /\ i \in Int /\ j \in Int
  BY DEF ChainOK, IsChain, IsSeq, IsBlock
<1>2. GetSlot(c[i].timestamp) \in Int /\ GetSlot(c[j].timestamp) \in Int
  BY <1>1, SlotType
<1>3. j - i <= GetSlot(c[j].timestamp) - GetSlot(c[i].timestamp)
  BY <1>1, SlotsApart
<1> QED
  BY <1>1, <1>2, <1>3

-----------------------------------------------------------------------------
(* The operations keep the object sound                                    *)

\* A node that starts from genesis is sound.
LEMMA NewBlockchainOK ==
  ASSUME NEW t \in Nat
  PROVE  ObjectOK(NewBlockchain, t)
<1> DEFINE o == NewBlockchain
           g == GenesisBlock
<1>1. /\ IsObject(o) /\ o.chain = <<g>> /\ o.state = GenesisState
      /\ o.pendingTransactions = {} /\ DOMAIN o.receivedAt = {}
  BY DEF NewBlockchain, IsObject
<1>2. g.index = 0 /\ g.timestamp = 0 /\ g.transactions = <<>>
  BY DEF GenesisBlock, MakeBlock
<1>3. IsBlock(g)
  <2>1. IsSeq(<<>>)
    <3>1. <<>> \in Seq({})
      OBVIOUS
    <3> QED
      BY <3>1, SeqIsSeq
  <2> QED
    BY <1>2, <2>1 DEF IsBlock
<1> HIDE DEF g, o
<1>4. ChainOK(<<g>>, t)
  <2>1. IsSeq(<<g>>)
    <3>1. <<g>> \in Seq({g})
      OBVIOUS
    <3> QED
      BY <3>1, SeqIsSeq
  <2>2. Len(<<g>>) = 1 /\ <<g>>[1] = g /\ DOMAIN <<g>> = 1 .. 1
    OBVIOUS
  <2>3. IsChain(<<g>>)
    BY <1>3, <2>1, <2>2 DEF IsChain
  <2>4. IsRooted(<<g>>)
    BY <1>2, <2>2 DEF IsRooted, g
  <2>5. IsLinked(<<g>>, t)
    BY <2>2 DEF IsLinked
  <2> QED
    BY <2>2, <2>3, <2>4, <2>5 DEF ChainOK
<1>5. o.state \in WorldState
  BY <1>1, LedgerAssumption DEF GenesisState, WorldState
<1>6. ReplayChain(o.chain) = Applied(o.state)
  BY <1>1, ReplayGenesis DEF g
<1>7. IsFiniteSet({})
  BY FS_EmptySet
<1> QED
  BY <1>1, <1>4, <1>5, <1>6, <1>7
     DEF ObjectOK, UnprunedOK, NoncesDistinct, HashesOf, o

\* pruneMempool makes an object sound whose pool may still hold confirmed
\* transactions: the situation right after a block or a reorganisation.
LEMMA PruneOK ==
  ASSUME NEW o, NEW t \in Nat, UnprunedOK(o, t)
  PROVE  ObjectOK(PruneMempool(o, t), t)
<1> DEFINE r == PruneMempool(o, t)
<1>1. /\ IsObject(r) /\ r.chain = o.chain /\ r.state = o.state
      /\ r.pendingTransactions \subseteq o.pendingTransactions
      /\ DOMAIN r.receivedAt = HashesOf(r.pendingTransactions)
      /\ \A h \in DOMAIN r.receivedAt :
           h \in DOMAIN o.receivedAt /\ r.receivedAt[h] = o.receivedAt[h]
      /\ \A x \in r.pendingTransactions : x.nonce >= o.state.nonce[x.from]
  BY PruneFacts DEF UnprunedOK
<1> HIDE DEF r
<1>2. NoncesDistinct(r.pendingTransactions)
  BY <1>1 DEF UnprunedOK, NoncesDistinct
<1>3. IsFiniteSet(r.pendingTransactions)
  BY <1>1, FS_Subset DEF UnprunedOK
<1>4. UnprunedOK(r, t)
  BY <1>1, <1>2, <1>3 DEF UnprunedOK
<1> QED
  BY <1>1, <1>4 DEF ObjectOK, r

\* addTransaction keeps the object sound: the new nonce is neither confirmed
\* nor already pending.
LEMMA AddTransactionOK ==
  ASSUME NEW o, NEW t \in Nat, ObjectOK(o, t),
         NEW tx, CanAddTransaction(o, tx)
  PROVE  ObjectOK(AddTransaction(o, tx, t), t)
<1> DEFINE r == AddTransaction(o, tx, t)
           txs == o.pendingTransactions \cup {tx}
           arr == Arrived(o.receivedAt, tx.hash, t)
<1>1. /\ IsObject(r) /\ r.chain = o.chain /\ r.state = o.state
      /\ r.pendingTransactions = txs /\ r.receivedAt = arr
  <2>1. r = [o EXCEPT !.pendingTransactions = txs, !.receivedAt = arr]
    BY DEF AddTransaction
  <2> HIDE DEF r, txs, arr
  <2> QED
    BY <2>1 DEF ObjectOK, UnprunedOK, IsObject
<1>2. /\ VerifyTransaction(tx)
      /\ tx.nonce >= o.state.nonce[tx.from]
      /\ \A u \in o.pendingTransactions : u.from = tx.from => u.nonce # tx.nonce
  BY DEF CanAddTransaction, PendingOf
<1>3. NoncesDistinct(txs)
  BY <1>2 DEF ObjectOK, UnprunedOK, NoncesDistinct
<1>4. DOMAIN arr = HashesOf(txs)
  BY DEF ObjectOK, UnprunedOK, Arrived, HashesOf
<1>5. \A h \in DOMAIN arr : arr[h] \in 0 .. t
  BY DEF ObjectOK, UnprunedOK, Arrived
<1>6. \A u \in txs : VerifyTransaction(u) /\ u.nonce >= o.state.nonce[u.from]
  BY <1>2 DEF ObjectOK, UnprunedOK
<1>7. IsFiniteSet(txs)
  BY FS_AddElement DEF ObjectOK, UnprunedOK
<1> HIDE DEF r, txs, arr
<1>8. UnprunedOK(r, t)
  BY <1>1, <1>3, <1>4, <1>5, <1>6, <1>7 DEF ObjectOK, UnprunedOK
<1> QED
  BY <1>1, <1>6, <1>8 DEF ObjectOK, r

\* addBlock keeps the object sound: the state stays the replay of the chain.
LEMMA AddBlockOK ==
  ASSUME NEW o, NEW t \in Nat, ObjectOK(o, t),
         NEW b, IsBlock(b), CanAddBlock(o, b, t)
  PROVE  ObjectOK(AddBlock(o, b, t), t)
<1> DEFINE res == ApplyBlockTransactions(b, o.state)
           r == [o EXCEPT !.chain = Append(@, b), !.state = res.state]
<1>1. /\ IsObject(r) /\ r.chain = Append(o.chain, b) /\ r.state = res.state
      /\ r.pendingTransactions = o.pendingTransactions
      /\ r.receivedAt = o.receivedAt
  <2> HIDE DEF res
  <2> QED
    BY DEF ObjectOK, UnprunedOK, IsObject
<1>2. ChainOK(Append(o.chain, b), t)
  BY ChainOKAppend DEF CanAddBlock, GetLatestBlock, ObjectOK, UnprunedOK
<1>3. res = Applied(res.state) /\ res.state \in WorldState
  <2>1. /\ res.ok \in BOOLEAN /\ res.state \in WorldState
        /\ res = [ok |-> res.ok, state |-> res.state]
    BY ApplyBlockType DEF ObjectOK, UnprunedOK
  <2>2. res.ok
    BY DEF CanAddBlock
  <2> HIDE DEF res
  <2>3. res.ok = TRUE
    BY <2>1, <2>2
  <2> QED
    BY <2>1, <2>3 DEF Applied
<1>4. ReplayChain(Append(o.chain, b)) = res
  <2>1. ReplayChain(Append(o.chain, b)) = ReplayNext(Applied(o.state), b)
    BY ReplayAppend DEF ObjectOK, UnprunedOK, ChainOK, IsChain
  <2> QED
    BY <2>1 DEF ReplayNext, Applied
<1>5. AddBlock(o, b, t) = PruneMempool(r, t)
  BY DEF AddBlock
<1> HIDE DEF r, res
<1>6. UnprunedOK(r, t)
  BY <1>1, <1>2, <1>3, <1>4 DEF ObjectOK, UnprunedOK
<1> QED
  BY <1>5, <1>6, PruneOK

\* replaceChain keeps the object sound.
LEMMA ReplaceChainOK ==
  ASSUME NEW o, NEW t \in Nat, ObjectOK(o, t),
         NEW c, IsChain(c), CanReplaceChain(o, c, t)
  PROVE  ObjectOK(ReplaceChain(o, c, t), t)
<1> DEFINE st == ReplayChain(c).state
           r == [o EXCEPT !.chain = c, !.state = st]
<1>1. /\ IsObject(r) /\ r.chain = c /\ r.state = st
      /\ r.pendingTransactions = o.pendingTransactions
      /\ r.receivedAt = o.receivedAt
  <2> HIDE DEF st
  <2> QED
    BY DEF ObjectOK, UnprunedOK, IsObject
<1>2. ChainOK(c, t) /\ ReplayChain(c).ok
  BY DEF CanReplaceChain, IsChainValid, ChainOK
<1>3. ReplayChain(c) = Applied(st) /\ st \in WorldState
  <2>1. /\ ReplayChain(c).ok \in BOOLEAN /\ st \in WorldState
        /\ ReplayChain(c) = [ok |-> ReplayChain(c).ok, state |-> st]
    BY <1>2, ReplayType DEF ChainOK
  <2>2. ReplayChain(c).ok = TRUE
    BY <1>2, <2>1
  <2> QED
    BY <2>1, <2>2 DEF Applied
<1>4. ReplaceChain(o, c, t) = PruneMempool(r, t)
  BY DEF ReplaceChain
<1> HIDE DEF r, st
<1>5. UnprunedOK(r, t)
  BY <1>1, <1>2, <1>3 DEF ObjectOK, UnprunedOK
<1> QED
  BY <1>4, <1>5, PruneOK

\* The object that restorePending prunes.
Reloaded(d, t) ==
  LET kept == {x \in d.pendingTransactions : VerifyTransaction(x)}
  IN  [[NewBlockchain EXCEPT !.chain = d.chain,
                             !.state = ReplayChain(d.chain).state]
         EXCEPT !.pendingTransactions = kept,
                !.receivedAt = [h \in HashesOf(kept) |-> t]]

\* A sound file is accepted: what it holds is reloaded and pruned.
LEMMA RestoreIsReload ==
  ASSUME NEW d, NEW t \in Nat, DiskOK(d, t), d # NoSnapshot
  PROVE  /\ UnprunedOK(Reloaded(d, t), t)
         /\ Restore(d, t) = PruneMempool(Reloaded(d, t), t)
<1> DEFINE c == d.chain
           st == ReplayChain(c).state
           kept == {x \in d.pendingTransactions : VerifyTransaction(x)}
           arr == [h \in HashesOf(kept) |-> t]
           n == [NewBlockchain EXCEPT !.chain = c, !.state = st]
           r == [n EXCEPT !.pendingTransactions = kept, !.receivedAt = arr]
<1>1. /\ ChainOK(c, t) /\ ReplayChain(c).ok
      /\ NoncesDistinct(d.pendingTransactions)
      /\ IsFiniteSet(d.pendingTransactions)
  BY DEF DiskOK
<1>2. ReplayChain(c) = Applied(st) /\ st \in WorldState
  <2>1. /\ ReplayChain(c).ok \in BOOLEAN /\ st \in WorldState
        /\ ReplayChain(c) = [ok |-> ReplayChain(c).ok, state |-> st]
    BY <1>1, ReplayType DEF ChainOK
  <2>2. ReplayChain(c).ok = TRUE
    BY <1>1, <2>1
  <2> QED
    BY <2>1, <2>2 DEF Applied
<1>3. Restore(d, t) = PruneMempool(r, t)
  <2>1. IsChainValid(d.chain, t)
    BY <1>1 DEF IsChainValid, ChainOK
  <2> QED
    BY <2>1 DEF Restore, RestorePending
<1>4. DOMAIN arr = HashesOf(kept) /\ \A h \in DOMAIN arr : arr[h] \in 0 .. t
  OBVIOUS
<1>5. NoncesDistinct(kept) /\ \A x \in kept : VerifyTransaction(x)
  BY <1>1 DEF NoncesDistinct
<1>6. IsFiniteSet(kept)
  BY <1>1, FS_Subset
<1>7. r = Reloaded(d, t)
  BY DEF Reloaded
<1> HIDE DEF c, st, kept, arr
<1>8. /\ IsObject(r) /\ r.chain = c /\ r.state = st
      /\ r.pendingTransactions = kept /\ r.receivedAt = arr
  BY DEF NewBlockchain, IsObject
<1> HIDE DEF r
<1>9. UnprunedOK(r, t)
  BY <1>1, <1>2, <1>4, <1>5, <1>6, <1>8 DEF UnprunedOK
<1> QED
  BY <1>3, <1>7, <1>9

\* A restart gives a sound object whatever sound file it finds.
LEMMA RestoreOK ==
  ASSUME NEW d, NEW t \in Nat, DiskOK(d, t)
  PROVE  ObjectOK(Restore(d, t), t)
<1>1. CASE d # NoSnapshot
  BY <1>1, RestoreIsReload, PruneOK
<1>2. CASE d = NoSnapshot
  <2>1. Restore(d, t) = NewBlockchain
    BY <1>2, Zenon DEF Restore
  <2> QED
    BY <2>1, NewBlockchainOK
<1> QED
  BY <1>1, <1>2

\* What persist writes can be reloaded.
LEMMA SnapshotOK ==
  ASSUME NEW o, NEW t, ObjectOK(o, t)
  PROVE  DiskOK(Snapshot(o), t)
<1> DEFINE d == Snapshot(o)
<1>1. d.chain = o.chain /\ d.pendingTransactions = o.pendingTransactions
  BY DEF Snapshot
<1> HIDE DEF d
<1>2. ReplayChain(o.chain).ok
  BY DEF ObjectOK, UnprunedOK, Applied
<1> QED
  BY <1>1, <1>2 DEF DiskOK, ObjectOK, UnprunedOK, d

\* A block the proposer builds: well formed, its transactions come from the
\* pool, and its own addBlock takes it.
LEMMA ProposalOK ==
  ASSUME NEW o, NEW t \in Nat, ObjectOK(o, t),
         NEW key, NEW b \in Proposals(o, key, t)
  PROVE  /\ IsBlock(b) /\ CanAddBlock(o, b, t)
         /\ \A i \in 1 .. Len(b.transactions) :
              b.transactions[i] \in o.pendingTransactions
<1>1. PICK s \in SortedOrders(o.pendingTransactions) : b = Proposal(o, key, t, s)
  BY DEF Proposals
<1>2. MayPropose(o, key, t)
  BY DEF Proposals
<1> DEFINE prev == GetLatestBlock(o)
           sel == SelectTransactionsForBlock(o, s)
           data == [ index              |-> prev.index + 1,
                     timestamp          |-> t,
                     transactions       |-> sel,
                     previousHash       |-> prev.hash,
                     validatorPublicKey |-> key ]
<1>3. /\ IsSeq(sel) /\ ApplyAll(o.state, sel).ok
      /\ \A i \in 1 .. Len(sel) : sel[i] \in o.pendingTransactions
  <2>1. Len(s) \in Nat /\ \A i \in 1 .. Len(s) : s[i] \in o.pendingTransactions
    BY SortedOrderIsSeq DEF ObjectOK, UnprunedOK
  <2> QED
    BY <2>1, SelectionApplies
<1>4. prev.index \in Int /\ prev.timestamp \in Int
  BY DEF GetLatestBlock, ObjectOK, UnprunedOK, ChainOK, IsChain, IsSeq, IsBlock
<1>5. /\ b.index = prev.index + 1 /\ b.timestamp = t
      /\ b.transactions = sel /\ b.previousHash = prev.hash
      /\ b.validatorPublicKey = key
      /\ b.hash = ComputeHash(data) /\ b.signature = Sign(b.hash, key)
  BY <1>1 DEF Proposal, ProposeBlock, MakeBlock
<1>6. IsHashValid(b)
  <2>1. ComputeHash(data) =
          <<prev.index + 1, t, sel, prev.hash, key>>
    BY DEF ComputeHash
  <2> QED
    BY <1>5, <2>1 DEF IsHashValid, ComputeHash
<1> HIDE DEF prev, sel, data
<1>7. IsBlock(b)
  BY <1>3, <1>4, <1>5 DEF IsBlock
<1>8. IsSignatureValid(b)
  BY <1>5 DEF IsSignatureValid, Verify
<1>9. GetTimeIntoSlot(t) >= SlotWait
  <2>1. GetTimeIntoSlot(t) \in Int
    <3>1. GetSlot(t) \in Int
      BY SlotType
    <3> QED
      BY <3>1, LedgerAssumption DEF GetTimeIntoSlot
  <2>2. GetSlotWaitRemaining(t) = 0
    BY <1>2 DEF MayPropose
  <2> QED
    BY <2>1, <2>2, LedgerAssumption DEF GetSlotWaitRemaining
<1>10. IsValidNewBlock(b, prev, t)
  <2>1. GetSlot(t) > GetSlot(prev.timestamp)
    BY <1>2 DEF MayPropose, prev
  <2>2. GetValidatorForSlot(GetSlot(t)) = key
    BY <1>2 DEF MayPropose
  <2>3. t <= t + MaxFutureDrift
    BY LedgerAssumption
  <2> QED
    BY <1>5, <1>6, <1>8, <1>9, <2>1, <2>2, <2>3 DEF IsValidNewBlock
<1>11. ~AlreadyHave(o, b)
  BY <1>4, <1>5 DEF AlreadyHave, prev
<1>12. ApplyBlockTransactions(b, o.state).ok
  BY <1>3, <1>5 DEF ApplyBlockTransactions, ObjectOK, UnprunedOK
<1> QED
  BY <1>3, <1>5, <1>7, <1>10, <1>11, <1>12 DEF CanAddBlock, prev

-----------------------------------------------------------------------------
(* Growth of chains                                                        *)

\* Pushing a block extends the chain.
LEMMA AppendExtends ==
  ASSUME NEW s, IsSeq(s), NEW e
  PROVE  Len(Append(s, e)) > Len(s) /\ IsPrefix(s, Append(s, e))
<1> DEFINE d == Append(s, e)
<1>1. /\ IsSeq(d) /\ Len(s) \in Nat /\ Len(d) = Len(s) + 1
      /\ \A i \in 1 .. Len(s) : d[i] = s[i]
  BY AppendIsSeq
<1> HIDE DEF d
<1>2. SubSeq(s, 1, Len(s)) = SubSeq(d, 1, Len(s))
  BY <1>1 DEF IsSeq
<1> QED
  BY <1>1, <1>2 DEF IsPrefix, d

\* addBlock appends the block, whatever pruning does to the mempool.
LEMMA AddBlockChain ==
  ASSUME NEW o, NEW t \in Nat, ObjectOK(o, t), NEW b
  PROVE  AddBlock(o, b, t).chain = Append(o.chain, b)
<1> DEFINE r == [o EXCEPT !.chain = Append(@, b),
                          !.state = ApplyBlockTransactions(b, @).state]
<1>1. /\ IsObject(r) /\ r.chain = Append(o.chain, b)
      /\ r.pendingTransactions = o.pendingTransactions
      /\ r.receivedAt = o.receivedAt
  BY DEF ObjectOK, UnprunedOK, IsObject
<1>2. AddBlock(o, b, t) = PruneMempool(r, t)
  BY DEF AddBlock
<1> HIDE DEF r
<1> QED
  BY <1>1, <1>2, PruneFacts DEF ObjectOK, UnprunedOK

\* replaceChain holds the new chain afterwards.
LEMMA ReplaceChainChain ==
  ASSUME NEW o, NEW t \in Nat, ObjectOK(o, t), NEW c
  PROVE  ReplaceChain(o, c, t).chain = c
<1> DEFINE r == [o EXCEPT !.chain = c, !.state = ReplayChain(c).state]
<1>1. /\ IsObject(r) /\ r.chain = c
      /\ r.pendingTransactions = o.pendingTransactions
      /\ r.receivedAt = o.receivedAt
  BY DEF ObjectOK, UnprunedOK, IsObject
<1>2. ReplaceChain(o, c, t) = PruneMempool(r, t)
  BY DEF ReplaceChain
<1> HIDE DEF r
<1> QED
  BY <1>1, <1>2, PruneFacts DEF ObjectOK, UnprunedOK

-----------------------------------------------------------------------------
(* Totals                                                                  *)

\* Transactions whose amounts are natural numbers.
HasAmounts(txs) == \A t \in txs : t.amount \in Nat

\* On the subsets of a finite set, Total is a sum.
LEMMA TotalIsSum ==
  ASSUME NEW U, IsFiniteSet(U), HasAmounts(U)
  PROVE  \E g : /\ IsSum(g, U, [t \in U |-> t.amount])
                /\ \A s \in SUBSET U : Total(s) = g[s]
<1> DEFINE w == [t \in U |-> t.amount]
           F(s, h) == [r \in SUBSET s |->
                         IF r = {} THEN 0
                         ELSE LET x == CHOOSE x \in r : TRUE
                              IN  x.amount + h[r \ {x}]]
           sol(s) == CHOOSE h : h = F(s, h)
<1>1. \A s : Total(s) = sol(s)[s]
  BY DEF Total, MapThenSumSet, MapThenFoldSet
<1>2. ASSUME NEW s \in SUBSET U
      PROVE  IsSum(sol(s), s, [t \in s |-> t.amount])
  <2> DEFINE v == [t \in s |-> t.amount]
             g == sol(s)
  <2>1. IsFiniteSet(s) /\ v \in [s -> Nat]
    BY FS_Subset DEF HasAmounts
  <2>2. PICK k : IsSum(k, s, v)
    BY <2>1, SumExists
  <2>3. \A r \in SUBSET s : r # {} =>
          v[CHOOSE x \in r : TRUE] = (CHOOSE x \in r : TRUE).amount
    OBVIOUS
  <2> HIDE DEF v
  <2>4. k = F(s, k)
    BY <2>2, <2>3 DEF IsSum
  <2>5. g = F(s, g)
    <3> HIDE DEF F
    <3> QED
      BY <2>4
  <2> HIDE DEF g
  <2>6. g = [r \in SUBSET s |->
               IF r = {} THEN 0
               ELSE LET x == CHOOSE x \in r : TRUE
                    IN  v[x] + g[r \ {x}]]
    BY <2>3, <2>5
  <2>7. IsSum(g, s, v)
    BY <2>1, <2>6, SumSolution
  <2> QED
    BY <2>7 DEF g, v
<1> HIDE DEF sol
<1>3. w \in [U -> Nat]
  BY DEF HasAmounts
<1>4. PICK g : IsSum(g, U, w)
  BY <1>3, SumExists
<1>5. ASSUME NEW s \in SUBSET U
      PROVE  Total(s) = g[s]
  <2> DEFINE v == [t \in s |-> t.amount]
  <2>1. \A x \in s : w[x] = v[x]
    OBVIOUS
  <2>2. IsSum(sol(s), s, v) /\ IsFiniteSet(U)
    BY <1>2
  <2> HIDE DEF w, v
  <2>3. \A r \in SUBSET U :
          r \subseteq s /\ (\A x \in r : w[x] = v[x]) => g[r] = sol(s)[r]
    BY <1>4, <2>2, SumAgree
  <2>4. g[s] = sol(s)[s]
    BY <2>1, <2>3
  <2> QED
    BY <1>1, <2>4
<1> QED
  BY <1>4, <1>5

\* No transactions, no total.
LEMMA TotalEmpty == Total({}) = 0
<1>1. IsFiniteSet({}) /\ HasAmounts({})
  BY FS_EmptySet DEF HasAmounts
<1>2. PICK g : /\ IsSum(g, {}, [t \in {} |-> t.amount])
               /\ \A s \in SUBSET {} : Total(s) = g[s]
  BY <1>1, TotalIsSum
<1> QED
  BY <1>2 DEF IsSum

\* One transaction more, its amount on top.
LEMMA TotalAdd ==
  ASSUME NEW S, IsFiniteSet(S), HasAmounts(S),
         NEW t, t.amount \in Nat
  PROVE  /\ Total(S) \in Nat
         /\ Total(S \cup {t}) = IF t \in S THEN Total(S)
                                ELSE Total(S) + t.amount
<1> DEFINE U == S \cup {t}
           w == [x \in U |-> x.amount]
<1>1. IsFiniteSet(U) /\ HasAmounts(U)
  BY FS_AddElement DEF HasAmounts
<1>2. w \in [U -> Nat] /\ w[t] = t.amount
  BY <1>1 DEF HasAmounts
<1>3. PICK g : IsSum(g, U, w) /\ \A s \in SUBSET U : Total(s) = g[s]
  BY <1>1, TotalIsSum
<1>4. Total(S) \in Nat
  <2>1. S \in SUBSET U
    OBVIOUS
  <2>2. g[S] \in Nat
    BY <1>3, <2>1 DEF IsSum
  <2> QED
    BY <1>3, <2>1, <2>2
<1>5. CASE t \in S
  <2>1. S \cup {t} = S
    BY <1>5
  <2> QED
    BY <1>4, <1>5, <2>1
<1>6. CASE t \notin S
  <2>1. U \in SUBSET U /\ t \in U /\ U \ {t} = S /\ S \in SUBSET U
    BY <1>6
  <2> HIDE DEF U, w
  <2>2. g[U] = w[t] + g[U \ {t}]
    BY <1>1, <1>2, <1>3, <2>1, SumRemove
  <2>3. Total(U) = t.amount + Total(S)
    BY <1>2, <1>3, <2>1, <2>2
  <2> QED
    BY <1>2, <1>4, <1>6, <2>3 DEF U
<1> QED
  BY <1>4, <1>5, <1>6

\* A part of the transactions has no larger total.
LEMMA TotalMonotone ==
  ASSUME NEW S, IsFiniteSet(S), HasAmounts(S), NEW T \in SUBSET S
  PROVE  Total(T) <= Total(S) /\ Total(T) \in Nat /\ Total(S) \in Nat
<1> DEFINE w == [x \in S |-> x.amount]
<1>1. w \in [S -> Nat]
  BY DEF HasAmounts
<1>2. PICK g : IsSum(g, S, w) /\ \A s \in SUBSET S : Total(s) = g[s]
  BY TotalIsSum
<1> HIDE DEF w
<1>3. g[T] <= g[S]
  BY <1>1, <1>2, SumMonotone
<1> QED
  BY <1>2, <1>3 DEF IsSum

-----------------------------------------------------------------------------
(* Sorting                                                                 *)

\* Of finitely many transactions one comes last.
LEMMA LastExists ==
  ASSUME NEW U, IsFiniteSet(U), \A t \in U : VerifyTransaction(t), U # {}
  PROVE  \E x \in U : \A y \in U : ~Before(x, y)
<1> DEFINE P == {s \in SUBSET U :
                   s # {} => \E x \in s : \A y \in s : ~Before(x, y)}
<1>0. \A t \in U : t.nonce \in Int /\ t.timestamp \in Int
  BY DEF VerifyTransaction
<1>1. ASSUME NEW s \in SUBSET U, \A x \in s : s \ {x} \in P
      PROVE  s \in P
  <2> SUFFICES ASSUME NEW z \in s
               PROVE  \E x \in s : \A y \in s : ~Before(x, y)
    OBVIOUS
  <2>1. CASE s = {z}
    BY <1>0, <2>1 DEF Before
  <2>2. CASE s # {z}
    <3>1. PICK x \in s \ {z} : \A y \in s \ {z} : ~Before(x, y)
      BY <1>1, <2>2
    <3>2. CASE Before(x, z)
      <4>1. \A y \in s \ {z} : ~Before(z, y)
        BY <1>0, <3>1, <3>2 DEF Before
      <4>2. ~Before(z, z)
        BY <1>0 DEF Before
      <4> QED
        BY <4>1, <4>2
    <3>3. CASE ~Before(x, z)
      BY <3>1, <3>3
    <3> QED
      BY <3>2, <3>3
  <2> QED
    BY <2>1, <2>2
<1> HIDE DEF P
<1>2. SUBSET U \subseteq P
  BY <1>1, SubsetInduction
<1> QED
  BY <1>2 DEF P

\* The transactions of a pool can be put in a sorted order.
LEMMA SortedOrderExists ==
  ASSUME NEW U, IsFiniteSet(U), \A t \in U : VerifyTransaction(t)
  PROVE  SortedOrders(U) # {}
<1> DEFINE P == {s \in SUBSET U : SortedOrders(s) # {}}
<1>0. \A s \in SUBSET U : IsFiniteSet(s) /\ Cardinality(s) \in Nat
  BY FS_Subset, FS_CardinalityType
<1>1. ASSUME NEW s \in SUBSET U, \A x \in s : s \ {x} \in P
      PROVE  s \in P
  <2>1. CASE s = {}
    <3>1. Cardinality(s) = 0
      BY <2>1, FS_EmptySet
    <3> DEFINE f == [i \in 1 .. 0 |-> 0]
    <3>2. f \in SortedOrders(s)
      BY <3>1 DEF SortedOrders, SetToSeqs
    <3> QED
      BY <3>2
  <2>2. CASE s # {}
    <3>1. PICK x \in s : \A y \in s : ~Before(x, y)
      BY <1>0, <2>2, LastExists
    <3> DEFINE n == Cardinality(s \ {x})
    <3>2. n \in Nat /\ Cardinality(s) = n + 1
      BY <1>0, FS_RemoveElement
    <3>3. PICK f : f \in SortedOrders(s \ {x})
      BY <1>1
    <3> HIDE DEF n
    <3>4. /\ f \in [1 .. n -> s \ {x}]
          /\ \A i, j \in 1 .. n : i # j => f[i] # f[j]
          /\ \A i, j \in 1 .. n : i < j => ~Before(f[j], f[i])
      BY <3>3 DEF SortedOrders, SetToSeqs, n
    <3> DEFINE h == [i \in 1 .. n + 1 |-> IF i = n + 1 THEN x ELSE f[i]]
    <3>5. h \in [1 .. n + 1 -> s]
      BY <3>2, <3>4
    <3>6. \A i \in 1 .. n + 1 : i \in 1 .. n \/ i = n + 1
      BY <3>2
    <3>7. (\A i \in 1 .. n : h[i] = f[i]) /\ h[n + 1] = x
      BY <3>2
    <3> HIDE DEF h
    <3>8. ASSUME NEW i \in 1 .. n + 1, NEW j \in 1 .. n + 1, i # j
          PROVE  h[i] # h[j]
      BY <3>4, <3>6, <3>7, <3>8
    <3>9. ASSUME NEW i \in 1 .. n + 1, NEW j \in 1 .. n + 1, i < j
          PROVE  ~Before(h[j], h[i])
      <4>1. i \in 1 .. n
        BY <3>2, <3>9
      <4>2. CASE j \in 1 .. n
        BY <3>4, <3>7, <3>9, <4>1, <4>2
      <4>3. CASE j = n + 1
        BY <3>1, <3>5, <3>7, <4>3
      <4> QED
        BY <3>6, <4>2, <4>3
    <3>10. DOMAIN h = 1 .. n + 1
      BY <3>5
    <3>11. h \in SortedOrders(s)
      BY <3>2, <3>5, <3>8, <3>9, <3>10 DEF SortedOrders, SetToSeqs
    <3> QED
      BY <3>11
  <2> QED
    BY <2>1, <2>2
<1> HIDE DEF P
<1>2. SUBSET U \subseteq P
  BY <1>1, SubsetInduction
<1> QED
  BY <1>2 DEF P

-----------------------------------------------------------------------------
(* Pruning                                                                 *)

\* One turn of the loop in Affordable.
Take(o, kept, t) ==
  IF Total({k \in kept : k.from = t.from}) + t.amount <= o.state.balance[t.from]
  THEN kept \cup {t}
  ELSE kept

\* Max of a set of indices.
LEMMA MaxOfIndices ==
  ASSUME NEW n \in Nat, NEW S \in SUBSET (1 .. n), S # {}
  PROVE  Max(S) \in S /\ \A i \in S : Max(S) >= i
<1> DEFINE T == {m \in 0 .. n : n - m \in S}
<1>1. T \in SUBSET Nat
  OBVIOUS
<1>2. T # {}
  <2>1. PICK i \in S : TRUE
    OBVIOUS
  <2>2. n - i \in 0 .. n /\ n - (n - i) = i
    BY <2>1
  <2> QED
    BY <2>2
<1>3. PICK m \in T : \A y \in T : m <= y
  BY <1>1, <1>2, LeastMember
<1>4. ASSUME NEW i \in S
      PROVE  n - m >= i
  <2>1. n - i \in 0 .. n /\ n - (n - i) = i
    OBVIOUS
  <2>2. m <= n - i
    BY <1>3, <2>1
  <2> QED
    BY <2>1, <2>2
<1>5. n - m \in S
  OBVIOUS
<1> HIDE DEF T
<1> QED
  BY <1>4, <1>5 DEF Max

\* The sets that Affordable has kept after each transaction of a sorted order.
LEMMA AffordableSteps ==
  ASSUME NEW o, NEW live, IsFiniteSet(live),
         \A t \in live : VerifyTransaction(t)
  PROVE  \E s \in SortedOrders(live) : \E k :
           /\ k[0] = {}
           /\ \A i \in 1 .. Cardinality(live) : k[i] = Take(o, k[i - 1], s[i])
           /\ Affordable(o, live) = k[Cardinality(live)]
<1> DEFINE s == CHOOSE s \in SortedOrders(live) : TRUE
           n == Cardinality(live)
           F(h) == [r \in SUBSET DOMAIN s |->
                      IF r = {} THEN {}
                      ELSE Take(o, h[r \ {Max(r)}], s[Max(r)])]
           g == CHOOSE h : h = F(h)
<1>1. s \in SortedOrders(live) /\ n \in Nat
  BY SortedOrderExists, FS_CardinalityType
<1>2. Affordable(o, live) = g[DOMAIN s]
  BY DEF Affordable, FoldLeft, MapThenFoldSet, Take
<1> HIDE DEF s
<1>3. s \in [1 .. n -> live] /\ DOMAIN s = 1 .. n
  BY <1>1 DEF SortedOrders, SetToSeqs
<1> HIDE DEF n
<1>4. g = F(g)
  <2> DEFINE V == SUBSET live
             choice == [r \in SUBSET (1 .. n) |-> Max(r)]
             step == [a \in (SUBSET (1 .. n)) \X V |->
                        IF a[1] = {} THEN {} ELSE Take(o, a[2], s[choice[a[1]]])]
  <2>1. \A r \in SUBSET (1 .. n) : r # {} => choice[r] \in r
    BY <1>1, MaxOfIndices
  <2>2. \A r \in SUBSET (1 .. n) : choice[r] = Max(r)
    OBVIOUS
  <2>3. step \in [(SUBSET (1 .. n)) \X V -> V]
    BY <1>3, <2>1 DEF Take
  <2>4. \A r \in SUBSET (1 .. n) : \A v \in V :
          r # {} => step[r, v] = Take(o, v, s[choice[r]])
    OBVIOUS
  <2>5. {} \in V /\ IsFiniteSet(1 .. n)
    BY <1>1, FS_Interval
  <2> HIDE DEF choice, step, V
  <2>6. PICK h \in [SUBSET (1 .. n) -> V] :
          Computes(h, 1 .. n, {}, choice, step)
    BY <2>1, <2>3, <2>5, RecursionExists
  <2>7. ASSUME NEW r \in SUBSET (1 .. n)
        PROVE  h[r] = IF r = {} THEN {}
                      ELSE Take(o, h[r \ {Max(r)}], s[Max(r)])
    <3>1. CASE r = {}
      BY <2>6, <3>1 DEF Computes
    <3>2. CASE r # {}
      <4>1. h[r] = step[r, h[r \ {choice[r]}]] /\ h[r \ {choice[r]}] \in V
        BY <2>6, <3>2 DEF Computes
      <4> QED
        BY <2>2, <2>4, <3>2, <4>1
    <3> QED
      BY <3>1, <3>2
  <2>8. h = F(h)
    BY <1>3, <2>6, <2>7
  <2> HIDE DEF F
  <2> QED
    BY <2>8
<1>5. \A r \in SUBSET (1 .. n) :
        g[r] = IF r = {} THEN {} ELSE Take(o, g[r \ {Max(r)}], s[Max(r)])
  BY <1>3, <1>4
<1> HIDE DEF g
<1> DEFINE k == [i \in 0 .. n |-> g[1 .. i]]
<1>6. k[0] = {}
  BY <1>1, <1>5
<1>7. ASSUME NEW i \in 1 .. n
      PROVE  k[i] = Take(o, k[i - 1], s[i])
  <2>1. 1 .. i \in SUBSET (1 .. n) /\ i \in 1 .. i /\ i \in Nat /\ i - 1 \in 0 .. n
    BY <1>1
  <2>2. Max(1 .. i) \in 1 .. i /\ \A j \in 1 .. i : Max(1 .. i) >= j
    BY <2>1, MaxOfIndices
  <2>3. Max(1 .. i) = i
    BY <2>1, <2>2
  <2>4. (1 .. i) \ {i} = 1 .. i - 1
    BY <2>1
  <2>5. g[1 .. i] = Take(o, g[1 .. i - 1], s[i])
    BY <1>5, <2>1, <2>3, <2>4
  <2> QED
    BY <1>1, <2>1, <2>5
<1>8. Affordable(o, live) = k[n]
  BY <1>1, <1>2, <1>3
<1> HIDE DEF k
<1> QED
  BY <1>1, <1>6, <1>7, <1>8 DEF n

\* The transactions of one sender.
SentBy(txs, a) == {t \in txs : t.from = a}

\* Every sender can pay for all of its transactions in a set.
Fits(st, txs) == \A a \in Address : Total(SentBy(txs, a)) <= st.balance[a]

\* Nothing can always be paid.
LEMMA NothingFits ==
  ASSUME NEW st \in WorldState
  PROVE  Fits(st, {})
<1>1. Total({}) = 0
  BY TotalEmpty
<1>2. \A a \in Address : SentBy({}, a) = {} /\ st.balance[a] \in Nat
  BY DEF SentBy, WorldState
<1> QED
  BY <1>1, <1>2 DEF Fits

\* A transaction that is taken fits.
LEMMA TakeFits ==
  ASSUME NEW o, o.state \in WorldState, NEW live, IsFiniteSet(live),
         \A t \in live : VerifyTransaction(t),
         NEW kept \in SUBSET live, Fits(o.state, kept), NEW t \in live
  PROVE  /\ Take(o, kept, t) \in SUBSET live
         /\ Fits(o.state, Take(o, kept, t))
<1> DEFINE mine == SentBy(kept, t.from)
<1>1. /\ IsFiniteSet(mine) /\ HasAmounts(mine) /\ t.amount \in Nat
  BY FS_Subset DEF SentBy, HasAmounts, VerifyTransaction
<1>2. /\ Total(mine) \in Nat
      /\ Total(mine \cup {t}) = IF t \in mine THEN Total(mine)
                                ELSE Total(mine) + t.amount
  BY <1>1, TotalAdd
<1>3. Total(mine \cup {t}) <= Total(mine) + t.amount
  BY <1>1, <1>2
<1>4. CASE Total(mine) + t.amount <= o.state.balance[t.from]
  <2>1. Take(o, kept, t) = kept \cup {t}
    BY <1>4 DEF Take, SentBy
  <2>2. \A a \in Address : a # t.from =>
          SentBy(kept \cup {t}, a) = SentBy(kept, a)
    BY DEF SentBy
  <2>3. SentBy(kept \cup {t}, t.from) = mine \cup {t}
    BY DEF SentBy
  <2> HIDE DEF mine
  <2>4. Total(mine \cup {t}) \in Nat
    BY <1>1, <1>2
  <2>5. ASSUME NEW a \in Address
        PROVE  Total(SentBy(kept \cup {t}, a)) <= o.state.balance[a]
    <3>1. CASE a = t.from
      <4>1. Total(mine) + t.amount \in Nat
        BY <1>1, <1>2
      <4>2. o.state.balance[t.from] \in Nat
        BY <3>1 DEF WorldState
      <4>3. \A p, q, r \in Nat : p <= q /\ q <= r => p <= r
        OBVIOUS
      <4>4. Total(mine \cup {t}) <= o.state.balance[t.from]
        BY <1>3, <1>4, <2>4, <4>1, <4>2, <4>3
      <4> QED
        BY <2>3, <3>1, <4>4
    <3>2. CASE a # t.from
      BY <2>2, <3>2 DEF Fits
    <3> QED
      BY <3>1, <3>2
  <2> QED
    BY <2>1, <2>5 DEF Fits
<1>5. CASE ~(Total(mine) + t.amount <= o.state.balance[t.from])
  <2>1. Take(o, kept, t) = kept
    BY <1>5 DEF Take, SentBy
  <2> QED
    BY <2>1
<1> QED
  BY <1>4, <1>5

\* What Affordable keeps, its senders can pay.
LEMMA AffordableFits ==
  ASSUME NEW o, o.state \in WorldState, NEW live, IsFiniteSet(live),
         \A t \in live : VerifyTransaction(t)
  PROVE  /\ Affordable(o, live) \in SUBSET live
         /\ Fits(o.state, Affordable(o, live))
<1> DEFINE n == Cardinality(live)
<1>1. n \in Nat
  BY FS_CardinalityType
<1>2. PICK s \in SortedOrders(live) : \E k :
        /\ k[0] = {}
        /\ \A i \in 1 .. n : k[i] = Take(o, k[i - 1], s[i])
        /\ Affordable(o, live) = k[n]
  BY AffordableSteps
<1>3. PICK k : /\ k[0] = {}
               /\ \A i \in 1 .. n : k[i] = Take(o, k[i - 1], s[i])
               /\ Affordable(o, live) = k[n]
  BY <1>2
<1>4. \A i \in 1 .. n : s[i] \in live
  BY DEF SortedOrders, SetToSeqs
<1> HIDE DEF n
<1> DEFINE S == {i \in Nat : i <= n =>
                   k[i] \in SUBSET live /\ Fits(o.state, k[i])}
<1>5. 0 \in S
  <2>1. Fits(o.state, {})
    BY NothingFits
  <2> QED
    BY <1>3, <2>1
<1>6. ASSUME NEW i \in Nat, i \in S
      PROVE  i + 1 \in S
  <2> SUFFICES ASSUME i + 1 <= n
               PROVE  k[i + 1] \in SUBSET live /\ Fits(o.state, k[i + 1])
    OBVIOUS
  <2>1. k[i] \in SUBSET live /\ Fits(o.state, k[i])
    BY <1>1, <1>6
  <2>2. i + 1 \in 1 .. n /\ (i + 1) - 1 = i
    BY <1>1
  <2>3. k[i + 1] = Take(o, k[i], s[i + 1]) /\ s[i + 1] \in live
    BY <1>3, <1>4, <2>2
  <2> QED
    BY <2>1, <2>3, TakeFits
<1> HIDE DEF S
<1>7. n \in S
  BY <1>1, <1>5, <1>6, SetInduction
<1>8. k[n] \in SUBSET live /\ Fits(o.state, k[n])
  BY <1>1, <1>7 DEF S
<1> QED
  BY <1>3, <1>8

\* When a sender can pay for all of them, no transaction is skipped.
LEMMA TakeAll ==
  ASSUME NEW o, NEW live, IsFiniteSet(live),
         \A t \in live : VerifyTransaction(t), Fits(o.state, live),
         o.state \in WorldState,
         NEW kept \in SUBSET live, NEW t \in live, t \notin kept
  PROVE  Take(o, kept, t) = kept \cup {t}
<1> DEFINE mine == SentBy(kept, t.from)
           all  == SentBy(live, t.from)
<1>1. /\ IsFiniteSet(mine) /\ HasAmounts(mine)
      /\ IsFiniteSet(all) /\ HasAmounts(all)
      /\ t.amount \in Nat /\ t.from \in Address
  BY FS_Subset DEF SentBy, HasAmounts, VerifyTransaction
<1>2. t \notin mine /\ mine \cup {t} \in SUBSET all
  BY DEF SentBy
<1> HIDE DEF mine, all
<1>3. Total(mine) \in Nat /\ Total(mine \cup {t}) = Total(mine) + t.amount
  BY <1>1, <1>2, TotalAdd
<1>4. Total(mine \cup {t}) <= Total(all) /\ Total(all) \in Nat
  BY <1>1, <1>2, TotalMonotone
<1>5. Total(all) <= o.state.balance[t.from]
  BY <1>1 DEF Fits, all
<1>6. o.state.balance[t.from] \in Nat
  BY <1>1 DEF WorldState
<1>7. \A p, q, r \in Nat : p <= q /\ q <= r => p <= r
  OBVIOUS
<1>8. Total(mine) + t.amount \in Nat
  BY <1>1, <1>3
<1>9. Total(mine) + t.amount <= o.state.balance[t.from]
  BY <1>3, <1>4, <1>5, <1>6, <1>7, <1>8
<1> QED
  BY <1>9 DEF Take, mine, SentBy

\* Affordable keeps everything when everything can be paid.
LEMMA AllKept ==
  ASSUME NEW o, NEW live, IsFiniteSet(live),
         \A t \in live : VerifyTransaction(t), Fits(o.state, live),
         o.state \in WorldState
  PROVE  Affordable(o, live) = live
<1> DEFINE n == Cardinality(live)
<1>1. n \in Nat
  BY FS_CardinalityType
<1>2. PICK s \in SortedOrders(live) : \E k :
        /\ k[0] = {}
        /\ \A i \in 1 .. n : k[i] = Take(o, k[i - 1], s[i])
        /\ Affordable(o, live) = k[n]
  BY AffordableSteps
<1>3. PICK k : /\ k[0] = {}
               /\ \A i \in 1 .. n : k[i] = Take(o, k[i - 1], s[i])
               /\ Affordable(o, live) = k[n]
  BY <1>2
<1>4. /\ \A i \in 1 .. n : s[i] \in live
      /\ \A i, j \in 1 .. n : i # j => s[i] # s[j]
  BY DEF SortedOrders, SetToSeqs
<1> HIDE DEF n
<1> DEFINE S == {i \in Nat : i <= n =>
                   /\ k[i] \in SUBSET live
                   /\ Cardinality(k[i]) = i
                   /\ \A x \in k[i] : \E j \in 1 .. i : x = s[j]}
<1>5. 0 \in S
  BY <1>3, FS_EmptySet
<1>6. ASSUME NEW i \in Nat, i \in S
      PROVE  i + 1 \in S
  <2> SUFFICES ASSUME i + 1 <= n
               PROVE  /\ k[i + 1] \in SUBSET live
                      /\ Cardinality(k[i + 1]) = i + 1
                      /\ \A x \in k[i + 1] : \E j \in 1 .. i + 1 : x = s[j]
    OBVIOUS
  <2>1. /\ k[i] \in SUBSET live /\ Cardinality(k[i]) = i
        /\ \A x \in k[i] : \E j \in 1 .. i : x = s[j]
    BY <1>1, <1>6
  <2>2. i + 1 \in 1 .. n /\ (i + 1) - 1 = i
    BY <1>1
  <2>3. k[i + 1] = Take(o, k[i], s[i + 1]) /\ s[i + 1] \in live
    BY <1>3, <1>4, <2>2
  <2>4. s[i + 1] \notin k[i]
    <3> SUFFICES ASSUME NEW j \in 1 .. i, s[i + 1] = s[j]
                 PROVE  FALSE
      BY <2>1
    <3>1. j \in 1 .. n /\ j # i + 1
      BY <1>1
    <3> QED
      BY <1>4, <2>2, <3>1
  <2>5. k[i + 1] = k[i] \cup {s[i + 1]}
    BY <2>1, <2>3, <2>4, TakeAll
  <2>6. IsFiniteSet(k[i])
    BY <2>1, FS_Subset
  <2>7. Cardinality(k[i + 1]) = i + 1
    BY <2>1, <2>4, <2>5, <2>6, FS_AddElement
  <2>8. \A x \in k[i + 1] : \E j \in 1 .. i + 1 : x = s[j]
    <3>1. 1 .. i \subseteq 1 .. i + 1 /\ i + 1 \in 1 .. i + 1
      OBVIOUS
    <3> QED
      BY <2>1, <2>5, <3>1
  <2> QED
    BY <2>1, <2>3, <2>5, <2>7, <2>8
<1> HIDE DEF S
<1>7. n \in S
  BY <1>1, <1>5, <1>6, SetInduction
<1>8. k[n] \in SUBSET live /\ Cardinality(k[n]) = n
  BY <1>1, <1>7 DEF S
<1>9. k[n] = live
  BY <1>8, FS_Subset DEF n
<1> QED
  BY <1>3, <1>9

\* What pruneMempool needs of an object.
Prunable(o) ==
  /\ IsObject(o)
  /\ o.state \in WorldState
  /\ \A t \in o.pendingTransactions : VerifyTransaction(t)
  /\ NoncesDistinct(o.pendingTransactions)
  /\ IsFiniteSet(o.pendingTransactions)

\* pruneMempool goes by hashes, which tell the transactions of a pool apart:
\* what stays is what is live and affordable, and its senders can pay it.
LEMMA PruneResult ==
  ASSUME NEW o, NEW t, Prunable(o)
  PROVE  LET live == {x \in o.pendingTransactions : IsLive(o, x, t)}
             left == PruneMempool(o, t).pendingTransactions
         IN  /\ left = Affordable(o, live)
             /\ left \in SUBSET o.pendingTransactions
             /\ Fits(o.state, left)
<1> DEFINE live == {x \in o.pendingTransactions : IsLive(o, x, t)}
           kept == Affordable(o, live)
           left == {x \in o.pendingTransactions :
                      x.hash \in HashesOf(live \cap kept)}
<1>1. PruneMempool(o, t).pendingTransactions = left
  <2> DEFINE arr == [h \in DOMAIN o.receivedAt
                             \cap HashesOf(live \cap kept) |-> o.receivedAt[h]]
  <2>1. PruneMempool(o, t) =
          [o EXCEPT !.pendingTransactions = left, !.receivedAt = arr]
    BY DEF PruneMempool
  <2> HIDE DEF left, arr
  <2> QED
    BY <2>1 DEF Prunable, IsObject
<1>2. /\ IsFiniteSet(live) /\ live \in SUBSET o.pendingTransactions
      /\ \A x \in live : VerifyTransaction(x)
  BY FS_Subset DEF Prunable
<1> HIDE DEF live
<1>3. kept \in SUBSET live /\ Fits(o.state, kept)
  BY <1>2, AffordableFits DEF Prunable
<1> HIDE DEF kept
<1>4. left = kept
  <2>1. ASSUME NEW x \in o.pendingTransactions, NEW y \in kept, x.hash = y.hash
        PROVE  x = y
    <3>1. y \in o.pendingTransactions
      BY <1>2, <1>3
    <3>2. ComputeTxHash(x) = ComputeTxHash(y)
      BY <2>1, <3>1 DEF Prunable, VerifyTransaction
    <3>3. x.from = y.from /\ x.nonce = y.nonce
      BY <3>2 DEF ComputeTxHash
    <3> QED
      BY <3>1, <3>3 DEF Prunable, NoncesDistinct
  <2> QED
    BY <1>2, <1>3, <2>1 DEF HashesOf
<1> HIDE DEF left
<1> QED
  BY <1>1, <1>2, <1>3, <1>4 DEF live, kept

-----------------------------------------------------------------------------
(* The limits of the pool                                                  *)

\* The pool and each sender's share of it are within their limits.
SizeOK(txs) ==
  /\ Cardinality(txs) <= MaxPoolSize
  /\ \A a \in Address : Cardinality(SentBy(txs, a)) <= MaxPendingPerSender

\* A part of a pool within its limits is within them.
LEMMA SizeOfPart ==
  ASSUME NEW txs, IsFiniteSet(txs), SizeOK(txs), NEW part \in SUBSET txs
  PROVE  SizeOK(part)
<1>1. /\ Cardinality(part) <= Cardinality(txs)
      /\ Cardinality(part) \in Nat /\ Cardinality(txs) \in Nat
  BY FS_Subset, FS_CardinalityType
<1>2. ASSUME NEW a \in Address
      PROVE  /\ Cardinality(SentBy(part, a)) <= Cardinality(SentBy(txs, a))
             /\ Cardinality(SentBy(part, a)) \in Nat
             /\ Cardinality(SentBy(txs, a)) \in Nat
  <2>1. SentBy(part, a) \in SUBSET SentBy(txs, a)
    BY DEF SentBy
  <2>2. IsFiniteSet(SentBy(txs, a))
    BY FS_Subset DEF SentBy
  <2> QED
    BY <2>1, <2>2, FS_Subset, FS_CardinalityType
<1>3. Cardinality(part) <= MaxPoolSize
  BY <1>1, BlockchainAssumption DEF SizeOK
<1>4. ASSUME NEW a \in Address
      PROVE  Cardinality(SentBy(part, a)) <= MaxPendingPerSender
  BY <1>2, BlockchainAssumption DEF SizeOK
<1> QED
  BY <1>3, <1>4 DEF SizeOK

\* The object between two handlers can be pruned.
LEMMA ObjectPrunable ==
  ASSUME NEW o, NEW t, ObjectOK(o, t)
  PROVE  Prunable(o)
BY DEF ObjectOK, UnprunedOK, Prunable

\* Pruning leaves a pool within the limits that its senders can pay.
LEMMA PrunePool ==
  ASSUME NEW o, NEW t, Prunable(o), SizeOK(o.pendingTransactions)
  PROVE  /\ SizeOK(PruneMempool(o, t).pendingTransactions)
         /\ Fits(o.state, PruneMempool(o, t).pendingTransactions)
<1> DEFINE left == PruneMempool(o, t).pendingTransactions
<1>1. left \in SUBSET o.pendingTransactions /\ Fits(o.state, left)
  BY PruneResult
<1> HIDE DEF left
<1>2. SizeOK(left)
  BY <1>1, SizeOfPart DEF Prunable
<1> QED
  BY <1>1, <1>2 DEF left

\* addTransaction stays within the limits and within the sender's balance.
LEMMA AddTransactionPool ==
  ASSUME NEW o, NEW t, ObjectOK(o, t), NEW tx, CanAddTransaction(o, tx),
         SizeOK(o.pendingTransactions), Fits(o.state, o.pendingTransactions)
  PROVE  LET r == AddTransaction(o, tx, t)
         IN  SizeOK(r.pendingTransactions) /\ Fits(r.state, r.pendingTransactions)
<1> DEFINE txs  == o.pendingTransactions \cup {tx}
           mine == SentBy(o.pendingTransactions, tx.from)
           r    == AddTransaction(o, tx, t)
<1>1. r.state = o.state /\ r.pendingTransactions = txs
  BY DEF AddTransaction, ObjectOK, UnprunedOK, IsObject
<1>2. /\ IsFiniteSet(o.pendingTransactions)
      /\ IsFiniteSet(mine) /\ HasAmounts(mine)
      /\ o.state \in WorldState
  BY FS_Subset DEF ObjectOK, UnprunedOK, SentBy, HasAmounts, VerifyTransaction
<1>3. /\ tx.amount \in Nat /\ tx.from \in Address
      /\ tx \notin mine /\ tx \notin o.pendingTransactions
  BY DEF CanAddTransaction, VerifyTransaction, PendingOf, SentBy
<1>4. mine = PendingOf(o, tx.from)
  BY DEF SentBy, PendingOf
<1>5. /\ Cardinality(o.pendingTransactions) < MaxPoolSize
      /\ Cardinality(mine) < MaxPendingPerSender
      /\ o.state.balance[tx.from] >= Total(mine) + tx.amount
  BY <1>4 DEF CanAddTransaction
<1>6. SentBy(txs, tx.from) = mine \cup {tx}
  BY DEF SentBy
<1>7. \A a \in Address : a # tx.from =>
        SentBy(txs, a) = SentBy(o.pendingTransactions, a)
  BY DEF SentBy
<1> HIDE DEF mine, r
<1>8. SizeOK(txs)
  <2>1. Cardinality(txs) <= MaxPoolSize
    <3>1. Cardinality(txs) = Cardinality(o.pendingTransactions) + 1
      BY <1>2, <1>3, FS_AddElement
    <3>2. Cardinality(o.pendingTransactions) \in Nat
      BY <1>2, FS_CardinalityType
    <3> QED
      BY <1>5, <3>1, <3>2, BlockchainAssumption
  <2>2. Cardinality(SentBy(txs, tx.from)) <= MaxPendingPerSender
    <3>1. Cardinality(mine \cup {tx}) = Cardinality(mine) + 1
      BY <1>2, <1>3, FS_AddElement
    <3>2. Cardinality(mine) \in Nat
      BY <1>2, FS_CardinalityType
    <3> QED
      BY <1>5, <1>6, <3>1, <3>2, BlockchainAssumption
  <2> QED
    BY <1>7, <2>1, <2>2 DEF SizeOK
<1>9. Fits(o.state, txs)
  <2>1. Total(SentBy(txs, tx.from)) <= o.state.balance[tx.from]
    <3>1. Total(mine) \in Nat /\ Total(mine \cup {tx}) = Total(mine) + tx.amount
      BY <1>2, <1>3, TotalAdd
    <3>2. o.state.balance[tx.from] \in Nat
      BY <1>2, <1>3 DEF WorldState
    <3>3. Total(mine) + tx.amount <= o.state.balance[tx.from]
      BY <1>3, <1>5, <3>1, <3>2
    <3> QED
      BY <1>6, <3>1, <3>3
  <2> QED
    BY <1>7, <2>1 DEF Fits
<1> QED
  BY <1>1, <1>8, <1>9 DEF r

\* addBlock prunes the pool against the new state.
LEMMA AddBlockPool ==
  ASSUME NEW o, NEW t \in Nat, ObjectOK(o, t), SizeOK(o.pendingTransactions),
         NEW b, ObjectOK(AddBlock(o, b, t), t)
  PROVE  LET r == AddBlock(o, b, t)
         IN  SizeOK(r.pendingTransactions) /\ Fits(r.state, r.pendingTransactions)
<1> DEFINE r == [o EXCEPT !.chain = Append(@, b),
                          !.state = ApplyBlockTransactions(b, @).state]
<1>1. /\ IsObject(r)
      /\ r.pendingTransactions = o.pendingTransactions
      /\ r.receivedAt = o.receivedAt
  BY DEF ObjectOK, UnprunedOK, IsObject
<1>2. AddBlock(o, b, t) = PruneMempool(r, t)
  BY DEF AddBlock
<1> HIDE DEF r
<1>3. PruneMempool(r, t).state = r.state
  BY <1>1, PruneFacts DEF ObjectOK, UnprunedOK
<1>4. Prunable(r)
  BY <1>1, <1>2, <1>3 DEF ObjectOK, UnprunedOK, Prunable
<1> QED
  BY <1>1, <1>2, <1>3, <1>4, PrunePool

\* replaceChain prunes the pool against the state of the new chain.
LEMMA ReplaceChainPool ==
  ASSUME NEW o, NEW t \in Nat, ObjectOK(o, t), SizeOK(o.pendingTransactions),
         NEW c, ObjectOK(ReplaceChain(o, c, t), t)
  PROVE  LET r == ReplaceChain(o, c, t)
         IN  SizeOK(r.pendingTransactions) /\ Fits(r.state, r.pendingTransactions)
<1> DEFINE r == [o EXCEPT !.chain = c, !.state = ReplayChain(c).state]
<1>1. /\ IsObject(r)
      /\ r.pendingTransactions = o.pendingTransactions
      /\ r.receivedAt = o.receivedAt
  BY DEF ObjectOK, UnprunedOK, IsObject
<1>2. ReplaceChain(o, c, t) = PruneMempool(r, t)
  BY DEF ReplaceChain
<1> HIDE DEF r
<1>3. PruneMempool(r, t).state = r.state
  BY <1>1, PruneFacts DEF ObjectOK, UnprunedOK
<1>4. Prunable(r)
  BY <1>1, <1>2, <1>3 DEF ObjectOK, UnprunedOK, Prunable
<1> QED
  BY <1>1, <1>2, <1>3, <1>4, PrunePool

\* A restart takes up a pool within the limits and prunes it.
LEMMA RestorePool ==
  ASSUME NEW d, NEW t \in Nat, DiskOK(d, t),
         d # NoSnapshot => SizeOK(d.pendingTransactions)
  PROVE  LET r == Restore(d, t)
         IN  SizeOK(r.pendingTransactions) /\ Fits(r.state, r.pendingTransactions)
<1>1. CASE d # NoSnapshot
  <2> DEFINE u == Reloaded(d, t)
  <2>1. UnprunedOK(u, t) /\ Restore(d, t) = PruneMempool(u, t)
    BY <1>1, RestoreIsReload
  <2>2. u.pendingTransactions \in SUBSET d.pendingTransactions
    BY DEF Reloaded, NewBlockchain
  <2> HIDE DEF u
  <2>3. SizeOK(u.pendingTransactions)
    BY <1>1, <2>2, SizeOfPart DEF DiskOK
  <2>4. Prunable(u) /\ PruneMempool(u, t).state = u.state
    BY <2>1, PruneFacts DEF UnprunedOK, Prunable
  <2> QED
    BY <2>1, <2>3, <2>4, PrunePool
<1>2. CASE d = NoSnapshot
  <2> DEFINE o == NewBlockchain
  <2>1. Restore(d, t) = o
    BY <1>2, Zenon DEF Restore
  <2>2. o.pendingTransactions = {} /\ o.state \in WorldState
    BY LedgerAssumption DEF NewBlockchain, GenesisState, WorldState
  <2> HIDE DEF o
  <2>3. SizeOK({})
    <3>1. \A a \in Address : SentBy({}, a) = {}
      BY DEF SentBy
    <3>2. Cardinality({}) = 0
      BY FS_EmptySet
    <3> QED
      BY <3>1, <3>2, BlockchainAssumption DEF SizeOK
  <2> QED
    BY <2>1, <2>2, <2>3, NothingFits
<1> QED
  BY <1>1, <1>2

-----------------------------------------------------------------------------
(* The next nonce                                                          *)

\* Of k + 1 successive nonces, k pending transactions leave one unused.
LEMMA NonceLeft ==
  ASSUME NEW mine, IsFiniteSet(mine), \A t \in mine : t.nonce \in Nat,
         NEW c \in Nat
  PROVE  \E n \in c .. c + Cardinality(mine) : \A t \in mine : t.nonce # n
<1> SUFFICES ASSUME \A n \in c .. c + Cardinality(mine) :
                      \E t \in mine : t.nonce = n
             PROVE  FALSE
  OBVIOUS
<1> DEFINE k == Cardinality(mine)
           S == c .. c + k
           f == [n \in S |-> CHOOSE t \in mine : t.nonce = n]
<1>1. k \in Nat
  BY FS_CardinalityType
<1>2. f \in [S -> mine] /\ \A n \in S : f[n].nonce = n
  OBVIOUS
<1>3. IsFiniteSet(S) /\ Cardinality(S) = k + 1
  <2> HIDE DEF k
  <2> QED
    BY <1>1, FS_Interval
<1>4. Cardinality(mine) < Cardinality(S)
  BY <1>1, <1>3
<1> HIDE DEF f, S, k
<1>5. PICK x, y \in S : x # y /\ f[x] = f[y]
  BY <1>2, <1>3, <1>4, FS_PigeonHole
<1> QED
  BY <1>2, <1>5

\* getNextNonce finds one that is not taken.
LEMMA NextNonceFree ==
  ASSUME NEW o, IsFiniteSet(o.pendingTransactions),
         \A t \in o.pendingTransactions : VerifyTransaction(t),
         NEW a, o.state.nonce[a] \in Nat
  PROVE  /\ GetNextNonce(o, a) \in
              o.state.nonce[a] .. o.state.nonce[a] + Cardinality(PendingOf(o, a))
         /\ \A t \in PendingOf(o, a) : t.nonce # GetNextNonce(o, a)
<1> DEFINE c    == o.state.nonce[a]
           mine == PendingOf(o, a)
           free == {n \in c .. c + Cardinality(mine) :
                      \A t \in mine : t.nonce # n}
<1>1. IsFiniteSet(mine) /\ \A t \in mine : t.nonce \in Nat
  BY FS_Subset DEF PendingOf, VerifyTransaction
<1>2. GetNextNonce(o, a) = Min(free)
  BY DEF GetNextNonce
<1> HIDE DEF mine
<1>3. Cardinality(mine) \in Nat
  BY <1>1, FS_CardinalityType
<1>4. free # {}
  BY <1>1, NonceLeft
<1>5. free \in SUBSET Nat
  BY <1>3
<1>6. Min(free) \in free
  <2> HIDE DEF free
  <2>1. PICK x \in free : \A y \in free : x <= y
    BY <1>4, <1>5, LeastMember
  <2> QED
    BY <2>1 DEF Min
<1> QED
  BY <1>2, <1>6 DEF mine

-----------------------------------------------------------------------------
(* Reloading                                                               *)

\* Nothing that is pending and payable is lost in a reload of what was saved:
\* each transaction verifies again, starts a fresh TTL, and can be paid.
LEMMA ReloadKeeps ==
  ASSUME NEW o, NEW t \in Nat, ObjectOK(o, t), Fits(o.state, o.pendingTransactions)
  PROVE  LET r == Restore(Snapshot(o), t)
         IN  /\ r.chain = o.chain
             /\ r.state = o.state
             /\ r.pendingTransactions = o.pendingTransactions
<1> DEFINE d == Snapshot(o)
           u == Reloaded(d, t)
           live == {x \in u.pendingTransactions : IsLive(u, x, t)}
<1>1. d # NoSnapshot
  <2>1. DOMAIN d = {"chain", "pendingTransactions"} /\ DOMAIN NoSnapshot = {}
    BY DEF Snapshot, NoSnapshot
  <2> QED
    BY <2>1
<1>2. d.chain = o.chain /\ d.pendingTransactions = o.pendingTransactions
  BY DEF Snapshot
<1>3. DiskOK(d, t)
  BY SnapshotOK
<1> HIDE DEF d
<1>4. UnprunedOK(u, t) /\ Restore(d, t) = PruneMempool(u, t)
  BY <1>1, <1>3, RestoreIsReload
<1>5. /\ u.chain = o.chain /\ u.state = o.state
      /\ u.pendingTransactions = o.pendingTransactions
      /\ u.receivedAt = [h \in HashesOf(o.pendingTransactions) |-> t]
  <2>1. ReplayChain(o.chain).state = o.state
    BY DEF ObjectOK, UnprunedOK, Applied
  <2>2. {x \in o.pendingTransactions : VerifyTransaction(x)}
          = o.pendingTransactions
    BY DEF ObjectOK, UnprunedOK
  <2> QED
    BY <1>2, <2>1, <2>2 DEF Reloaded, NewBlockchain
<1>6. PruneMempool(u, t).chain = u.chain /\ PruneMempool(u, t).state = u.state
  BY <1>4, PruneFacts DEF UnprunedOK
<1>7. PruneMempool(u, t).pendingTransactions = Affordable(u, live)
  BY <1>4, PruneResult DEF Prunable, UnprunedOK
<1> HIDE DEF u
<1>8. live = o.pendingTransactions
  <2>1. ASSUME NEW x \in o.pendingTransactions
        PROVE  IsLive(u, x, t)
    <3>1. x.nonce >= u.state.nonce[x.from]
      BY <1>5 DEF ObjectOK
    <3>2. u.receivedAt[x.hash] = t
      BY <1>5 DEF HashesOf
    <3> QED
      BY <3>1, <3>2, BlockchainAssumption DEF IsLive
  <2> QED
    BY <1>5, <2>1
<1> HIDE DEF live
<1>9. Affordable(u, live) = live
  BY <1>5, <1>8, AllKept DEF ObjectOK, UnprunedOK
<1> QED
  BY <1>4, <1>5, <1>6, <1>7, <1>8, <1>9 DEF d

=============================================================================
