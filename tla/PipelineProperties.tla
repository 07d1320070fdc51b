------------------------- MODULE PipelineProperties -------------------------
(***************************************************************************)
(* What must be true of Pipeline.                                          *)
(***************************************************************************)
EXTENDS Pipeline

Sum(f) == SumFunction(f)

KeyOf(i) == Key(outbox[i])

Produced(p) == {log[p][o] : o \in DOMAIN log[p]}

(***************************************************************************)
(* The type invariant: what the group was given is in the outbox, the      *)
(* relay works on entries pending under its own name, and neither reader   *)
(* nor commit is ahead of the log.                                         *)
(***************************************************************************)
TypeOK ==
  /\ delivered \in 0..Len(outbox) \cup {None}
  /\ pending \subseteq {i \in DOMAIN outbox : delivered # None /\ i <= delivered}
  /\ relay \in [at : {"down", "claim", "recover", "read"},
               mine : SUBSET pending, batch : SUBSET relay.mine, unsent : SUBSET relay.batch]
  /\ relay.at # "down" => delivered # None
  /\ log \in [Topics -> Seq(DOMAIN outbox)]
  /\ committed \in [Topics -> Nat]
  /\ worker \in [at : {"down", "gather", "commit"},
                got : SUBSET (Topics \X Nat), pos : [Topics -> Nat]]
  /\ \A p \in Topics : committed[p] <= Len(log[p]) /\ worker.pos[p] <= Len(log[p])
  /\ \A m \in worker.got : m[2] \in 1..worker.pos[m[1]]
  /\ rows \in [EventKeys -> Nat]
  /\ faults \in 0..MaxFaults
  /\ dropped \subseteq DOMAIN outbox

-----------------------------------------------------------------------------
(***************************************************************************)
(* At least once, end to end: an entry of the outbox has a transaction of  *)
(* its key, or it is still to be read, pending in the group, or in Kafka   *)
(* behind no committed offset.  The one way out is a failed fetch.         *)
(***************************************************************************)
NothingLost ==
  \A i \in DOMAIN outbox :
    LET p == Topic(outbox[i])
    IN  \/ rows[KeyOf(i)] > 0
        \/ delivered = None \/ delivered < i
        \/ i \in pending
        \/ \E o \in DOMAIN log[p] : log[p][o] = i /\ o > committed[p]
        \/ i \in dropped

(***************************************************************************)
(* Each partition carries the room's entries of its topic in the order of  *)
(* the outbox: behind every message that is not a repetition stand all its *)
(* predecessors (kafka.go 76-79, "the real per-room ordering guarantee").  *)
(***************************************************************************)
PartitionOrder ==
  \A p \in Topics : \A o \in DOMAIN log[p] :
    \A i \in 1..log[p][o] :
      Topic(outbox[i]) = p => \E o2 \in 1..o : log[p][o2] = i

(***************************************************************************)
(* Redelivery by the stream, by Kafka or by both never shows in the        *)
(* ledger: it has one transaction per key and none for anything else.      *)
(***************************************************************************)
Promise == INSTANCE ExactlyOnce

ImplementsExactlyOnce == Promise!Spec

(***************************************************************************)
(* No client used the key of a wager again, a day later and in another     *)
(* round.  Redis has forgotten the key by then and debits a second wager;  *)
(* the ledger, whose key is unique for ever, takes its entry for the first *)
(* wager's and drops it.  (page.tsx 141 draws a random key per wager.)     *)
(***************************************************************************)
KeysFresh == \A i, j \in DOMAIN outbox : KeyOf(i) = KeyOf(j) => i = j

(***************************************************************************)
(* The identity reconcile_after_load_test.go checks: once the ledger has   *)
(* caught up, a wallet has moved by exactly what the ledger says, the pool *)
(* account holds the stakes of the rounds not yet ended, and the accounts  *)
(* balance.                                                                *)
(***************************************************************************)
Transactions == [i \in DOMAIN outbox |-> TransactionFor(outbox[i])]

Posted(amount) == Sum([i \in DOMAIN outbox |-> rows[KeyOf(i)] * amount[i]])

Reconciled ==
  KeysFresh /\ (\A i \in DOMAIN outbox : rows[KeyOf(i)] > 0) =>
    /\ \A u \in Users : wallets[u] # None =>
         wallets[u] - opening[u] = Posted([i \in DOMAIN outbox |-> Transactions[i].wallet[u]])
    /\ Posted([i \in DOMAIN outbox |-> Transactions[i].pool]) =
         Sum([r \in {s \in RoundIDs : status[s] \in Live} |-> TotalStaked(wagers[r])])
    /\ \A i \in DOMAIN outbox : Balanced(outbox[i])

(***************************************************************************)
(* Every entry reaches the ledger, whatever dies on the way, as long as    *)
(* processes are restarted and do not die for ever.                        *)
(***************************************************************************)
EveryEntryRecorded ==
  \A k \in EventKeys :
    (\E i \in DOMAIN outbox : KeyOf(i) = k)
      ~> (rows[k] > 0 \/ \E i \in dropped : KeyOf(i) = k)

-----------------------------------------------------------------------------
(***************************************************************************)
(* What worker.go 30-32 says: "offsets are never committed ahead of a      *)
(* durable PostgreSQL write".                                              *)
(***************************************************************************)
CommittedIsDurable ==
  \A p \in Topics : \A o \in 1..committed[p] : rows[KeyOf(log[p][o])] > 0
=============================================================================
