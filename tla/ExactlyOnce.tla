---------------------------- MODULE ExactlyOnce ----------------------------
(***************************************************************************)
(* What the ledger promises: a transaction is written for an entry that is *)
(* in the outbox, once, and is never taken back.  There is no relay, no    *)
(* Kafka and no redelivery here.  Pipeline.tla implements this.            *)
(***************************************************************************)
EXTENDS Sequences, Naturals

CONSTANTS EventKeys,  \* idempotency keys of events
          Key(_)      \* the key of an event

VARIABLES outbox,     \* events, in order
          rows        \* rows[k]: transactions with key k

Init ==
  /\ outbox = << >>
  /\ rows = [k \in EventKeys |-> 0]

\* The room moves money.
Grow ==
  /\ Len(outbox') = Len(outbox) + 1
  /\ outbox = SubSeq(outbox', 1, Len(outbox))
  /\ UNCHANGED rows

\* Some of the entries that have no transaction get theirs.
Record ==
  /\ \E S \in SUBSET {i \in DOMAIN outbox : rows[Key(outbox[i])] = 0} :
       rows' = [k \in EventKeys |->
                  IF \E i \in S : Key(outbox[i]) = k THEN 1 ELSE rows[k]]
  /\ UNCHANGED outbox

Spec == Init /\ [][Grow \/ Record]_<<outbox, rows>>
=============================================================================
