------------------------------- MODULE Client -------------------------------
(***************************************************************************)
(* Wallets that pay through a node's API: NodeClient.send over the one-shot*)
(* requests of NodeClient, and the node they talk to (Node).               *)
(*                                                                         *)
(* A send makes two requests, getAccount and submitTransaction, each on a  *)
(* connection of its own.  The node serves a request whenever it arrives,  *)
(* also when the client has given up on it; connections may be lost with   *)
(* what they carry, and the node may crash.  Two sends of one wallet may   *)
(* overlap, and a send that repeats a payment is a user's retry.           *)
(***************************************************************************)
EXTENDS Node

CONSTANTS
  Sends,    \* calls of send
  Payment   \* send -> [from, to, amount]

VARIABLES
  phase,     \* send -> how far it is, and in the end its outcome
  paid,      \* send -> the transaction it signed
  request,   \* send -> the request on its way to the node
  response,  \* send -> the answer on its way back
  admitted   \* history: sends whose transaction the node took -> when

clientVars == <<phase, paid, request, response, admitted>>

allVars == <<vars, clientVars>>

\* No message in flight, no transaction yet: neither a request nor an answer.
Nothing == <<>>

GetAccount == [method |-> "getAccount"]
Submit(tx) == [method |-> "submitTransaction", transaction |-> tx]

\* The promise of the current request is pending.
IsWaiting(s) == phase[s] \in {"account", "submit"}

ClientInit ==
  /\ Init
  /\ phase = [s \in Sends |-> "idle"]
  /\ paid = [s \in Sends |-> Nothing]
  /\ request = [s \in Sends |-> Nothing]
  /\ response = [s \in Sends |-> Nothing]
  /\ admitted = <<>>

-----------------------------------------------------------------------------
(* The client                                                              *)

\* send begins: ask for the account.
Send(s) ==
  /\ phase[s] = "idle"
  /\ phase' = [phase EXCEPT ![s] = "account"]
  /\ request' = [request EXCEPT ![s] = GetAccount]
  /\ UNCHANGED <<vars, paid, response, admitted>>

\* Wallet.createTransaction, with the clock of this moment.
CreateTransaction(s, nonce) ==
  CreateSignedTransaction([ from      |-> Payment[s].from,
                            to        |-> Payment[s].to,
                            amount    |-> Payment[s].amount,
                            nonce     |-> nonce,
                            timestamp |-> now ],
                          AccountKey(Payment[s].from))

\* The account arrives: sign with its nextNonce and submit.
ReceiveAccount(s) ==
  /\ phase[s] = "account"
  /\ response[s] # Nothing
  /\ LET tx == CreateTransaction(s, response[s].nextNonce)
     IN  /\ paid' = [paid EXCEPT ![s] = tx]
         /\ request' = [request EXCEPT ![s] = Submit(tx)]
  /\ phase' = [phase EXCEPT ![s] = "submit"]
  /\ response' = [response EXCEPT ![s] = Nothing]
  /\ UNCHANGED <<vars, admitted>>

\* The answer to the submission settles the send.
ReceiveResult(s) ==
  /\ phase[s] = "submit"
  /\ response[s] # Nothing
  /\ phase' = [phase EXCEPT ![s] =
                 IF response[s].success THEN "accepted" ELSE "refused"]
  /\ response' = [response EXCEPT ![s] = Nothing]
  /\ UNCHANGED <<vars, paid, request, admitted>>

\* Mutant: the timer is cleared once the first answer has come.
TimeoutAccountOnly(s) ==
  /\ phase[s] = "account"
  /\ phase' = [phase EXCEPT ![s] = "failed"]
  /\ response' = [response EXCEPT ![s] = Nothing]
  /\ UNCHANGED <<vars, paid, request, admitted>>

\* The timer, or the socket's error or close: the send fails, with nothing
\* paid if it had not submitted yet, and with an open outcome if it had.  A
\* submission that is on its way may still arrive.
Timeout(s) ==
  /\ IsWaiting(s)
  /\ phase' = [phase EXCEPT ![s] = IF @ = "account" THEN "failed" ELSE "unknown"]
  /\ response' = [response EXCEPT ![s] = Nothing]
  /\ request' = [request EXCEPT ![s] = IF @ = GetAccount THEN Nothing ELSE @]
  /\ UNCHANGED <<vars, paid, admitted>>

\* The connection breaks and what it carries is lost.
LoseConnection(s) ==
  /\ request[s] # Nothing \/ response[s] # Nothing
  /\ request' = [request EXCEPT ![s] = Nothing]
  /\ response' = [response EXCEPT ![s] = Nothing]
  /\ UNCHANGED <<vars, phase, paid, admitted>>

-----------------------------------------------------------------------------
(* The node                                                                *)

\* An answer reaches only a client that still waits for it.
Answer(s, msg) ==
  /\ request' = [request EXCEPT ![s] = Nothing]
  /\ response' = [response EXCEPT ![s] = IF IsWaiting(s) THEN msg ELSE @]

ServeGetAccount(s) ==
  /\ request[s] = GetAccount
  /\ Answer(s, [nextNonce |-> GetNextNonce(bc, Payment[s].from)])
  /\ UNCHANGED <<vars, phase, paid, admitted>>

\* Mutant: success is reported before the mempool has had its say.
ServeSubmitOptimistic(s) ==
  /\ request[s] = Submit(paid[s])
  /\ Answer(s, [success |-> TRUE])
  /\ IF CanAddTransaction(bc, paid[s])
     THEN /\ SubmitTransaction(paid[s])
          /\ admitted' = Arrived(admitted, s, now)
     ELSE UNCHANGED <<vars, admitted>>
  /\ UNCHANGED <<phase, paid>>

\* submitTransaction: the mempool decides, and the answer says how.
ServeSubmit(s) ==
  /\ request[s] = Submit(paid[s])
  /\ \/ /\ SubmitTransaction(paid[s])
        /\ admitted' = Arrived(admitted, s, now)
        /\ Answer(s, [success |-> TRUE])
     \/ /\ ~CanAddTransaction(bc, paid[s])
        /\ Answer(s, [success |-> FALSE])
        /\ UNCHANGED <<vars, admitted>>
  /\ UNCHANGED <<phase, paid>>

\* The node goes on working.
NodeStep ==
  /\ Tick \/ Propose \/ SweepMempool
  /\ UNCHANGED clientVars

\* The node crashes and restarts: requests it had not read are lost.
NodeRestart ==
  /\ Restart
  /\ request' = [s \in Sends |-> Nothing]
  /\ UNCHANGED <<phase, paid, response, admitted>>

-----------------------------------------------------------------------------
ClientNext ==
  \/ \E s \in Sends : Send(s) \/ ReceiveAccount(s) \/ ReceiveResult(s)
  \/ \E s \in Sends : Timeout(s) \/ LoseConnection(s)
  \/ \E s \in Sends : ServeGetAccount(s) \/ ServeSubmit(s)
  \/ NodeStep
  \/ NodeRestart

\* Only the client's own timer is sure to fire.
ClientFairness == \A s \in Sends : WF_allVars(Timeout(s))

ClientSpec == ClientInit /\ [][ClientNext]_allVars /\ ClientFairness

-----------------------------------------------------------------------------
(* Properties                                                              *)

\* What a send reports is what happened, and stays so: after "accepted" the
\* node has taken its transfer; after "refused" or a failure before submitting
\* it has not, and no late request makes it pay after all.
ReportsTruthful ==
  \A s \in Sends :
    /\ phase[s] = "accepted" => s \in DOMAIN admitted
    /\ phase[s] \in {"refused", "failed"} => s \notin DOMAIN admitted

\* A transfer whose sender was told "accepted" is pending or confirmed until
\* its time to live is over, through blocks, other sends and restarts.
AcceptedKept ==
  \A s \in {t \in Sends : phase[t] = "accepted"} :
    \/ paid[s] \in bc.pendingTransactions
    \/ \E i \in DOMAIN bc.chain : paid[s] \in Range(bc.chain[i].transactions)
    \/ now > admitted[s] + TxTtl

\* Overlapping sends of one wallet never both succeed with the same nonce
\* while the first of them is alive.
NonceNotShared ==
  \A s, t \in Sends :
    (/\ s # t /\ phase[s] = "accepted" /\ phase[t] = "accepted"
     /\ paid[s].from = paid[t].from /\ paid[s].nonce = paid[t].nonce)
      => \/ admitted[t] > admitted[s] + TxTtl
         \/ admitted[s] > admitted[t] + TxTtl

\* No send hangs: whatever is lost, its promise is settled.
EverySendSettles ==
  \A s \in Sends : IsWaiting(s) ~> ~IsWaiting(s)

=============================================================================
