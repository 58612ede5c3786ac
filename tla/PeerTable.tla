----------------------------- MODULE PeerTable -----------------------------
(***************************************************************************)
(* The peer table of one node (class PeerTable) as an object               *)
(*   [entries : address -> [seen, failures], blocked : set of addresses]   *)
(* and its methods as operators on it.  Of an entry's lastSeen only        *)
(* "lastSeen > 0" is kept: the address answered our own dial once.         *)
(*                                                                         *)
(* Every method that changes an address or its seen flag ends in persist,  *)
(* and load ignores the failure counts, so while the disk works the file   *)
(* is Saved(t) at any time and needs no state of its own.                  *)
(***************************************************************************)
EXTENDS Naturals, FiniteSets, Functions

CONSTANTS
  MaxFailures,  \* failed dials in a row after which an address is dropped
  MaxSize,      \* most addresses the table takes in
  NoAddress     \* what an unusable address normalises to

ASSUME PeerTableAssumption ==
  /\ MaxFailures \in Nat \ {0}
  /\ MaxSize \in Nat

-----------------------------------------------------------------------------
(* Addresses: [scheme, host, port], a URL split into its parts             *)

Loopback == {"localhost", "127.0.0.1", "[::1]", "::1"}

\* normalizeAddress: every spelling of the loopback host becomes one.
NormalizeAddress(raw) ==
  IF raw.scheme \in {"ws", "wss"} /\ raw.port \in 1 .. 65535
  THEN [raw EXCEPT !.host = IF @ \in Loopback THEN "localhost" ELSE @]
  ELSE NoAddress

\* addressFromRemote: where an inbound peer claims to listen.
AddressFromRemote(remoteIp, port) ==
  NormalizeAddress([scheme |-> "ws", host |-> remoteIp, port |-> port])

\* The usable addresses of a list of bootnodes.
Normalized(raws) == {NormalizeAddress(r) : r \in raws} \ {NoAddress}

-----------------------------------------------------------------------------
(* Reads                                                                   *)

\* Mutant: an address is trusted as soon as it is learnt.
CandidateTrusted == [seen |-> TRUE, failures |-> 0]

\* An address that is learnt, but has not answered a dial of ours.
Candidate == [seen |-> FALSE, failures |-> 0]

\* verified: addresses that answered and are not failing now.
Verified(t) ==
  {a \in DOMAIN t.entries : t.entries[a].seen /\ t.entries[a].failures = 0}

\* What persist leaves in the file.
Saved(t) == [a \in DOMAIN t.entries |-> t.entries[a].seen]

-----------------------------------------------------------------------------
(* Writes                                                                  *)

\* Mutant: the table takes any number of addresses.
AddablesUncapped(t, as) ==
  {as \ (t.blocked \cup DOMAIN t.entries)}

\* add, for each address of a message in an unknown order: the sets of
\* addresses that get in, those that are new and not blocked while there is
\* room.
Addables(t, as) ==
  LET new  == as \ (t.blocked \cup DOMAIN t.entries)
      size == Cardinality(DOMAIN t.entries)
      room == IF size < MaxSize THEN MaxSize - size ELSE 0
  IN  IF Cardinality(new) <= room
      THEN {new}
      ELSE {s \in SUBSET new : Cardinality(s) = room}

Add(t, as) ==
  [t EXCEPT !.entries = [a \in DOMAIN @ \cup as |->
                           IF a \in DOMAIN @ THEN @[a] ELSE Candidate]]

\* Drop one address from the table.
Without(t, a) == [t EXCEPT !.entries = Restrict(@, DOMAIN @ \ {a})]

\* recordSuccess: the address answered; an unknown address is left alone.
RecordSuccess(t, a) ==
  IF a \in DOMAIN t.entries
  THEN [t EXCEPT !.entries[a] = [seen |-> TRUE, failures |-> 0]]
  ELSE t

\* Mutant: a bootnode is dropped like any other address.
RecordFailureDropsBootnode(t, a, bootnodes) ==
  IF a \notin DOMAIN t.entries THEN t
  ELSE IF t.entries[a].failures + 1 >= MaxFailures THEN Without(t, a)
  ELSE [t EXCEPT !.entries[a].failures = @ + 1]

\* Mutant: failures are only acted upon by dropping, not counted.
RecordFailureUncounted(t, a, bootnodes) ==
  IF a \in DOMAIN t.entries /\ MaxFailures = 1 /\ a \notin bootnodes
  THEN Without(t, a)
  ELSE t

\* recordFailure: one more failed dial; at the limit the address is dropped,
\* unless it is a bootnode.  A bootnode's count goes on rising in the code; it
\* stops at the limit here, past which nothing but the backoff delay reads it.
RecordFailure(t, a, bootnodes) ==
  IF a \notin DOMAIN t.entries
  THEN t
  ELSE LET failures == t.entries[a].failures + 1
       IN  IF failures >= MaxFailures /\ a \notin bootnodes
           THEN Without(t, a)
           ELSE [t EXCEPT !.entries[a].failures =
                   IF failures > MaxFailures THEN MaxFailures ELSE failures]

\* block: never again, bootnode or not.
Block(t, a) ==
  IF a = NoAddress
  THEN t
  ELSE [Without(t, a) EXCEPT !.blocked = @ \cup {a}]

-----------------------------------------------------------------------------
(* Construction                                                            *)

\* The constructor with load: the bootnodes, then the file's addresses while
\* there is room.  Failure counts start at zero and nothing is blocked.
NewTables(bootnodes, saved) ==
  LET boot == [entries |-> [a \in bootnodes |->
                 [seen |-> a \in DOMAIN saved /\ saved[a], failures |-> 0]],
               blocked |-> {}]
  IN  {[boot EXCEPT !.entries = [a \in DOMAIN @ \cup more |->
          IF a \in DOMAIN @ THEN @[a]
          ELSE [seen |-> saved[a], failures |-> 0]]] :
        more \in Addables(boot, DOMAIN saved)}

=============================================================================
