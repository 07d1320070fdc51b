------------------------------ MODULE Pipeline ------------------------------
(***************************************************************************)
(* From the outbox to the ledger: the relay forwards the room's outbox     *)
(* stream to Kafka, the ledger worker writes what it fetches from Kafka    *)
(* into PostgreSQL.  Either process may die between any two steps and is   *)
(* restarted.  The room itself is AtomicRounds, which Rounds implements.   *)
(*                                                                         *)
(* A message is named by the place of its entry in the outbox.  One room   *)
(* uses one partition of each topic; a room that shares it would only      *)
(* interleave entries of its own.                                          *)
(***************************************************************************)
EXTENDS Store, FiniteSets

CONSTANTS Host, RoundIDs, Keys, Amounts, Grants,
          ReadCount,   \* entries the relay reads at a time (100)
          MaxBatch,    \* messages the worker writes at a time (100)
          MaxFaults    \* bound: process deaths and failed fetches

ASSUME PipelineAssumption ==
  /\ ReadCount \in Nat \ {0}
  /\ MaxBatch \in Nat \ {0}
  /\ MaxFaults \in Nat
  /\ None \notin Nat \cup Users
  /\ IsFiniteSet(RoundIDs)
  /\ Amounts \subseteq Nat \ {0}
  /\ Grants \subseteq Nat \ {0}

VARIABLES
  status, wagers, wallets, opening,   \* the room, see AtomicRounds
  outbox,     \* the stream
  delivered,  \* last entry delivered to the consumer group, None before it exists
  pending,    \* entries delivered and not acknowledged, of all consumers
  relay,      \* the relay process
  log,        \* log[p]: the messages of the room's partition of topic p
  committed,  \* committed[p]: the worker group's offset
  worker,     \* the worker process
  rows,       \* rows[k]: ledger transactions with idempotency key k
  faults,
  dropped     \* history: entries a failed fetch made the worker forget

Room == INSTANCE AtomicRounds

roomVars == <<status, wagers, wallets, opening>>

group == <<delivered, pending>>

vars == <<roomVars, outbox, group, relay, log, committed, worker, rows, faults, dropped>>

-----------------------------------------------------------------------------
(***************************************************************************)
(* Events and what the ledger makes of them                                *)
(***************************************************************************)

Topics == {"wagers-placed", "rounds-settled"}

Topic(e) == IF IsWager(e) THEN "wagers-placed" ELSE "rounds-settled"

\* A wager carries its client's key, a settlement a fresh one per round.
Key(e) == IF IsWager(e) THEN <<"wager", e.key>> ELSE <<"settlement", e.round>>

EventKeys == ({"wager"} \X Keys) \cup ({"settlement"} \X RoundIDs)

\* Mutant: a wager's directions are swapped; it still balances.
TransactionSwapped(e) ==
  IF IsWager(e)
  THEN [wallet |-> [u \in Users |-> IF u = e.user THEN e.amount ELSE 0],
        pool |-> -e.amount, dust |-> 0]
  ELSE [wallet |-> e.credits, pool |-> -e.total, dust |-> e.dust]

\* What an event adds to the balance (credits less debits) of each account.
TransactionFor(e) ==
  IF IsWager(e)
  THEN [wallet |-> [u \in Users |-> IF u = e.user THEN -e.amount ELSE 0],
        pool |-> e.amount, dust |-> 0]
  ELSE [wallet |-> e.credits, pool |-> -e.total, dust |-> e.dust]

\* ErrUnbalanced otherwise, and the deferred trigger.
Balanced(e) ==
  LET t == TransactionFor(e) IN SumFunction(t.wallet) + t.pool + t.dust = 0

-----------------------------------------------------------------------------
Down == [at |-> "down", mine |-> {}, batch |-> {}, unsent |-> {}]

Stopped == [at |-> "down", got |-> {}, pos |-> [p \in Topics |-> 0]]

Init ==
  /\ Room!Init
  /\ delivered = None
  /\ pending = {}
  /\ relay = Down
  /\ log = [p \in Topics |-> << >>]
  /\ committed = [p \in Topics |-> 0]
  /\ worker = Stopped
  /\ rows = [k \in EventKeys |-> 0]
  /\ faults = 0
  /\ dropped = {}

RoomStep ==
  /\ Room!Next
  /\ UNCHANGED <<group, relay, log, committed, worker, rows, faults, dropped>>

-----------------------------------------------------------------------------
(***************************************************************************)
(* The relay.  A process has a consumer ID of its own: what an earlier one *)
(* left pending is not its own until it claims it.                         *)
(***************************************************************************)

\* Mutant: a new process only recovers what is pending under its own name.
RelayStartsRecovering ==
  /\ relay.at = "down"
  /\ relay' = [Down EXCEPT !.at = "recover"]
  /\ delivered' = IF delivered = None THEN 0 ELSE delivered
  /\ UNCHANGED <<roomVars, outbox, pending, log, committed, worker, rows, faults, dropped>>

\* EnsureGroup, from the stream's beginning.
RelayStarts ==
  /\ relay.at = "down"
  /\ relay' = [Down EXCEPT !.at = "claim"]
  /\ delivered' = IF delivered = None THEN 0 ELSE delivered
  /\ UNCHANGED <<roomVars, outbox, pending, log, committed, worker, rows, faults, dropped>>

\* Mutant: an idle time is required that a quick restart does not reach.
ClaimNothing ==
  /\ relay.at = "claim"
  /\ relay' = [relay EXCEPT !.at = "recover"]
  /\ UNCHANGED <<roomVars, outbox, group, log, committed, worker, rows, faults, dropped>>

\* XAUTOCLAIM, page by page; nobody else touches the group meanwhile.
ClaimOrphans ==
  /\ relay.at = "claim"
  /\ relay' = [relay EXCEPT !.at = "recover", !.mine = pending]
  /\ UNCHANGED <<roomVars, outbox, group, log, committed, worker, rows, faults, dropped>>

\* XREADGROUP from "0": this consumer's oldest pending entries, until there are none.
Recover ==
  /\ relay.at = "recover"
  /\ relay.batch = {}
  /\ LET oldest == {i \in relay.mine : Cardinality({j \in relay.mine : j < i}) < ReadCount}
     IN  relay' = IF relay.mine = {} THEN [relay EXCEPT !.at = "read"]
                  ELSE [relay EXCEPT !.batch = oldest, !.unsent = oldest]
  /\ UNCHANGED <<roomVars, outbox, group, log, committed, worker, rows, faults, dropped>>

\* XREADGROUP from ">": entries no consumer of the group was given yet.
ReadNew ==
  /\ relay.at = "read"
  /\ relay.batch = {}
  /\ delivered < Len(outbox)
  /\ LET last == IF delivered + ReadCount < Len(outbox) THEN delivered + ReadCount
                                                       ELSE Len(outbox)
         new  == (delivered + 1)..last
     IN  /\ delivered' = last
         /\ pending' = pending \cup new
         /\ relay' = [relay EXCEPT !.mine = @ \cup new, !.batch = new, !.unsent = new]
  /\ UNCHANGED <<roomVars, outbox, log, committed, worker, rows, faults, dropped>>

\* WriteMessages writes each partition's share of a batch in order, the partitions
\* side by side; a share may be split anywhere into record batches.
Produce(i) ==
  /\ i \in relay.unsent
  /\ \A j \in relay.unsent : Topic(outbox[j]) = Topic(outbox[i]) => i <= j
  /\ relay' = [relay EXCEPT !.unsent = @ \ {i}]
  /\ log' = [log EXCEPT ![Topic(outbox[i])] = Append(@, i)]
  /\ UNCHANGED <<roomVars, outbox, group, committed, worker, rows, faults, dropped>>

\* Mutant: acknowledges what was read without waiting for the producer.
AckUnproduced ==
  /\ relay.batch # {}
  /\ pending' = pending \ relay.batch
  /\ relay' = [relay EXCEPT !.mine = @ \ relay.batch, !.batch = {}, !.unsent = {}]
  /\ UNCHANGED <<roomVars, outbox, delivered, log, committed, worker, rows, faults, dropped>>

\* XACK, once Produce has returned nil.
Ack ==
  /\ relay.batch # {}
  /\ relay.unsent = {}
  /\ pending' = pending \ relay.batch
  /\ relay' = [relay EXCEPT !.mine = @ \ relay.batch, !.batch = {}]
  /\ UNCHANGED <<roomVars, outbox, delivered, log, committed, worker, rows, faults, dropped>>

\* A crash, or any error: Run returns it and the process exits.
RelayStops ==
  /\ relay.at # "down"
  /\ faults < MaxFaults
  /\ faults' = faults + 1
  /\ relay' = Down
  /\ UNCHANGED <<roomVars, outbox, group, log, committed, worker, rows, dropped>>

-----------------------------------------------------------------------------
(***************************************************************************)
(* The ledger worker                                                       *)
(***************************************************************************)

\* The reader joins its group and starts at the committed offsets.
WorkerStarts ==
  /\ worker.at = "down"
  /\ worker' = [at |-> "gather", got |-> {}, pos |-> committed]
  /\ UNCHANGED <<roomVars, outbox, group, relay, log, committed, rows, faults, dropped>>

\* The next message of either topic, until the batch is full.
Fetch(p) ==
  /\ worker.at = "gather"
  /\ Cardinality(worker.got) < MaxBatch
  /\ worker.pos[p] < Len(log[p])
  /\ worker' = [worker EXCEPT !.got = @ \cup {<<p, worker.pos[p] + 1>>}, !.pos[p] = @ + 1]
  /\ UNCHANGED <<roomVars, outbox, group, relay, log, committed, rows, faults, dropped>>

Entry(m) == log[m[1]][m[2]]

\* A fetch fails with neither a deadline nor a cancellation: Once returns, and what
\* it had fetched is forgotten while the reader's position stays behind it.
FetchFails ==
  /\ worker.at = "gather"
  /\ worker.got # {}
  /\ faults < MaxFaults
  /\ faults' = faults + 1
  /\ dropped' = dropped \cup {Entry(m) : m \in worker.got}
  /\ worker' = [worker EXCEPT !.got = {}]
  /\ UNCHANGED <<roomVars, outbox, group, relay, log, committed, rows>>

\* Mutant: no ON CONFLICT and no UNIQUE constraint.
InsertAll(batch) ==
  [k \in EventKeys |-> rows[k] + Cardinality({m \in batch : Key(outbox[Entry(m)]) = k})]

\* INSERT ... ON CONFLICT (idempotency_key) DO NOTHING, for the whole batch.
Insert(batch) ==
  [k \in EventKeys |->
     IF rows[k] = 0 /\ \E m \in batch : Key(outbox[Entry(m)]) = k THEN 1 ELSE rows[k]]

\* The batch window closes or the batch is full; one PostgreSQL transaction.
WriteBatch ==
  /\ worker.at = "gather"
  /\ worker.got # {}
  /\ \A m \in worker.got : Balanced(outbox[Entry(m)])
  /\ rows' = Insert(worker.got)
  /\ worker' = [worker EXCEPT !.at = "commit"]
  /\ UNCHANGED <<roomVars, outbox, group, relay, log, committed, faults, dropped>>

\* Mutant: the offset after the next message.
NextOffset(p) == worker.pos[p] + 1

\* CommitMessages: past the last message of the batch.
Offset(p) == worker.pos[p]

CommitOffsets ==
  /\ worker.at = "commit"
  /\ committed' = [p \in Topics |->
       IF \E m \in worker.got : m[1] = p THEN Offset(p) ELSE committed[p]]
  /\ worker' = [worker EXCEPT !.at = "gather", !.got = {}]
  /\ UNCHANGED <<roomVars, outbox, group, relay, log, rows, faults, dropped>>

\* A crash, or any error; a transaction not committed is rolled back.
WorkerStops ==
  /\ worker.at # "down"
  /\ faults < MaxFaults
  /\ faults' = faults + 1
  /\ worker' = Stopped
  /\ UNCHANGED <<roomVars, outbox, group, relay, log, committed, rows, dropped>>

-----------------------------------------------------------------------------
RelayStep ==
  \/ RelayStarts
  \/ ClaimOrphans
  \/ Recover
  \/ ReadNew
  \/ \E i \in relay.unsent : Produce(i)
  \/ Ack

WorkerStep ==
  \/ WorkerStarts
  \/ \E p \in Topics : Fetch(p)
  \/ WriteBatch
  \/ CommitOffsets

Next == RoomStep \/ RelayStep \/ WorkerStep \/ RelayStops \/ WorkerStops \/ FetchFails

Spec == Init /\ [][Next]_vars

(***************************************************************************)
(* Both processes are restarted (compose.prod.yml: unless-stopped) and run *)
(* when they can.  A batch window closes, so a worker that could fetch for *)
(* ever still writes: WriteBatch is fair by itself.                        *)
(***************************************************************************)
FairSpec == Spec /\ WF_vars(RelayStep) /\ WF_vars(WorkerStep) /\ WF_vars(WriteBatch)
=============================================================================
