------------------------------ MODULE Payments ------------------------------
(***************************************************************************)
(* What a node promises the holders of accounts, without blocks, slots,    *)
(* validators, signatures, files or restarts: a list of settled transfers, *)
(* accounts that follow from it, and transfers that wait.                  *)
(*                                                                         *)
(* The account state is given by its definition: money received minus      *)
(* money sent, and the number of transfers sent.                           *)
(***************************************************************************)
EXTENDS Naturals, SequencesExt, FiniteSetsExt

CONSTANTS
  Account,
  Opening    \* Account -> its balance before the first transfer

VARIABLES
  settled,   \* the transfers in force, in order
  accounts,  \* [balance, nonce], each by account
  waiting,   \* the set of accepted transfers that are not settled
  height     \* what the node compares when it is offered another list

payments == <<settled, accounts, waiting, height>>

-----------------------------------------------------------------------------
\* What the transfers at some positions of a list move together.
AmountOf(list, ks) == MapThenSumSet(LAMBDA k : list[k].amount, ks)

Received(list, a) == AmountOf(list, {k \in DOMAIN list : list[k].to = a})

Sent(list, a) == AmountOf(list, {k \in DOMAIN list : list[k].from = a})

AccountsAfter(list) ==
  [ balance |-> [a \in Account |-> Opening[a] + Received(list, a) - Sent(list, a)],
    nonce   |-> [a \in Account |->
                   Cardinality({k \in DOMAIN list : list[k].from = a})] ]

\* Each transfer was next for its sender, and covered, when it was made.
Sound(list) ==
  \A k \in DOMAIN list :
    LET t      == list[k]
        before == AccountsAfter(SubSeq(list, 1, k - 1))
    IN  /\ t.nonce = before.nonce[t.from]
        /\ t.amount <= before.balance[t.from]

\* Nothing waits that is settled, competes with another for its nonce, or
\* cannot be paid together with the sender's others.
Payable(txs, acc) ==
  /\ \A t \in txs : t.nonce >= acc.nonce[t.from]
  /\ \A t, u \in txs : (t.from = u.from /\ t.nonce = u.nonce) => t = u
  /\ \A a \in Account :
       MapThenSumSet(LAMBDA t : t.amount, {t \in txs : t.from = a})
         <= acc.balance[a]

Init ==
  /\ settled = <<>>
  /\ accounts = AccountsAfter(settled)
  /\ waiting = {}
  /\ height = 1

\* A transfer is accepted.
Accept ==
  /\ \E t \in waiting' \ waiting : waiting' = waiting \cup {t}
  /\ UNCHANGED <<settled, height>>

\* Transfers that wait are given up.
GiveUp ==
  /\ waiting' \subseteq waiting
  /\ UNCHANGED <<settled, height>>

\* Transfers, of those that wait or others, are settled.
Settle ==
  /\ IsPrefix(settled, settled')
  /\ height' = height + 1
  /\ waiting' \subseteq waiting

\* Another list takes the place of this one.
Reorganise ==
  /\ height' > height
  /\ waiting' \subseteq waiting

Next ==
  /\ Accept \/ GiveUp \/ Settle \/ Reorganise
  /\ Sound(settled')
  /\ accounts' = AccountsAfter(settled')
  /\ Payable(waiting', accounts')

Spec == Init /\ [][Next]_payments

=============================================================================
