--------------------------- MODULE PipelineProofs ---------------------------
(***************************************************************************)
(* Theorems about Pipeline, for every room, batch size and number of       *)
(* process deaths: nothing is lost and nothing recorded twice, partitions  *)
(* keep the order of the outbox, and the ledger agrees with the wallets.   *)
(***************************************************************************)
EXTENDS PipelineProperties, SumProofs

\* The outbox is a sequence; of what, only the room knows.
IsStream(s) == \E S : s \in Seq(S)

\* What a sequence is after Append.
LEMMA AppendToStream ==
  ASSUME NEW s, IsStream(s), NEW e
  PROVE  /\ IsStream(Append(s, e))
         /\ Len(s) \in Nat
         /\ DOMAIN s = 1..Len(s)
         /\ Len(Append(s, e)) = Len(s) + 1
         /\ DOMAIN Append(s, e) = 1..(Len(s) + 1)
         /\ \A i \in DOMAIN s : Append(s, e)[i] = s[i]
         /\ Append(s, e)[Len(s) + 1] = e
<1>1. PICK S : s \in Seq(S)
  BY DEF IsStream
<1>. DEFINE T == S \cup {e}
<1>2. s \in Seq(T) /\ e \in T
  BY <1>1
<1>3. Append(s, e) \in Seq(T)
  BY <1>2
<1>. QED
  BY <1>2, <1>3 DEF IsStream

-----------------------------------------------------------------------------
(***************************************************************************)
(* The strengthening.  Going along the pipeline: what the group no longer  *)
(* holds is in Kafka, what the relay is about to acknowledge is in Kafka,  *)
(* what the worker has passed is in its hands or accounted for, what it is *)
(* about to commit is recorded, what is committed is accounted for.        *)
(***************************************************************************)
StreamOK ==
  /\ IsStream(outbox)
  /\ \A i \in DOMAIN outbox : KeyOf(i) \in EventKeys

\* Entry i has reached its partition.
InKafka(i) == \E o \in DOMAIN log[Topic(outbox[i])] : log[Topic(outbox[i])][o] = i

\* Entry i has its row in the journal.
Recorded(i) == rows[KeyOf(i)] > 0

\* Entry i is recorded, or a failed fetch made the worker forget it.
Accounted(i) == Recorded(i) \/ i \in dropped

\* What the group no longer holds is in Kafka, and so is what the relay acknowledges next.
Forwarded ==
  /\ \A i \in DOMAIN outbox :
       delivered # None /\ i <= delivered /\ i \notin pending => InKafka(i)
  /\ \A i \in relay.batch \ relay.unsent : InKafka(i)

\* What lies behind the worker is in its hands or accounted for.
Consumed ==
  /\ \A p \in Topics : \A o \in 1..committed[p] : Accounted(log[p][o])
  /\ worker.at # "down" => \A p \in Topics : \A o \in 1..worker.pos[p] :
       <<p, o>> \in worker.got \/ Accounted(log[p][o])
  /\ worker.at = "commit" => \A m \in worker.got : Recorded(Entry(m))

\* The three places of an entry, with their types.
PipelineInv == StreamOK /\ TypeOK /\ Forwarded /\ Consumed

-----------------------------------------------------------------------------
(***************************************************************************)
(* What a step of the room does to the outbox.                             *)
(***************************************************************************)
LEMMA RoomAppends ==
  ASSUME StreamOK, Room!Next
  PROVE  \/ outbox' = outbox
         \/ \E e : outbox' = Append(outbox, e) /\ Key(e) \in EventKeys
<1>1. ASSUME NEW u \in Users, NEW r \in RoundIDs, NEW o \in Outcomes, NEW a \in Amounts,
             NEW k \in Keys, Room!Bet(u, r, o, a, k)
      PROVE  \E e : outbox' = Append(outbox, e) /\ Key(e) \in EventKeys
  <2>. DEFINE e == Room!WagerEvent(u, r, o, a, k)
  <2>1. outbox' = Append(outbox, e)
    BY <1>1 DEF Room!Bet
  <2>2. Key(e) = <<"wager", k>>
    BY DEF Key, IsWager, Room!WagerEvent
  <2>. QED
    BY <2>1, <2>2 DEF EventKeys
<1>2. ASSUME NEW type, type # "wager_placed", NEW r \in RoundIDs, NEW win, NEW t, NEW d, NEW c
      PROVE  Key(Room!SettlementEvent(type, r, win, t, d, c)) \in EventKeys
  BY <1>2 DEF Key, IsWager, Room!SettlementEvent, EventKeys
<1>3. ASSUME NEW r \in RoundIDs, NEW win \in Outcomes, Room!Settle(r, win)
      PROVE  \E e : outbox' = Append(outbox, e) /\ Key(e) \in EventKeys
  <2>. DEFINE w == wagers[r]
              refund == Room!IsRefund(w, win)
              type == IF refund THEN "round_refunded" ELSE "round_settled"
              e == Room!SettlementEvent(type, r, IF refund THEN None ELSE win,
                     Room!TotalStaked(w), Room!Dust(w, win), Room!Credits(w, win))
  <2>1. outbox' = Append(outbox, e)
    BY <1>3 DEF Room!Settle
  <2>2. type # "wager_placed"
    OBVIOUS
  <2>3. Key(e) \in EventKeys
    BY <1>2, <2>2
  <2>. QED
    BY <2>1, <2>3
<1>4. ASSUME NEW r \in RoundIDs, Room!Refund(r)
      PROVE  \E e : outbox' = Append(outbox, e) /\ Key(e) \in EventKeys
  <2>. DEFINE w == wagers[r]
              e == Room!SettlementEvent("round_refunded", r, None,
                     Room!TotalStaked(w), 0, Room!AggregateStakes(w))
  <2>1. outbox' = Append(outbox, e)
    BY <1>4 DEF Room!Refund
  <2>2. Key(e) \in EventKeys
    BY <1>2
  <2>. QED
    BY <2>1, <2>2
<1>. QED
  BY <1>1, <1>3, <1>4 DEF Room!Next, Room!Join, Room!Open, Room!Lock

\* The outbox only grows.
LEMMA OutboxKept ==
  ASSUME StreamOK, Room!Next
  PROVE  /\ StreamOK'
         /\ Len(outbox) \in Nat /\ Len(outbox)' \in Nat /\ Len(outbox) <= Len(outbox)'
         /\ DOMAIN outbox = 1..Len(outbox) /\ DOMAIN outbox' = 1..Len(outbox)'
         /\ \A i \in DOMAIN outbox : i \in DOMAIN outbox' /\ outbox'[i] = outbox[i]
<1>1. CASE outbox' = outbox
  <2>1. Len(outbox) \in Nat /\ DOMAIN outbox = 1..Len(outbox)
    BY AppendToStream DEF StreamOK
  <2>. QED
    BY <1>1, <2>1 DEF StreamOK, KeyOf
<1>2. ASSUME NEW e, outbox' = Append(outbox, e), Key(e) \in EventKeys
      PROVE  /\ StreamOK'
             /\ Len(outbox) \in Nat /\ Len(outbox)' \in Nat /\ Len(outbox) <= Len(outbox)'
             /\ DOMAIN outbox = 1..Len(outbox) /\ DOMAIN outbox' = 1..Len(outbox)'
             /\ \A i \in DOMAIN outbox : i \in DOMAIN outbox' /\ outbox'[i] = outbox[i]
  <2>. DEFINE n == Len(outbox)
  <2>1. /\ IsStream(outbox') /\ n \in Nat /\ DOMAIN outbox = 1..n
        /\ Len(outbox') = n + 1 /\ DOMAIN outbox' = 1..(n + 1)
        /\ \A i \in DOMAIN outbox : outbox'[i] = outbox[i]
        /\ outbox'[n + 1] = e
    BY <1>2, AppendToStream DEF StreamOK
  <2>2. ASSUME NEW i \in DOMAIN outbox'  PROVE  Key(outbox'[i]) \in EventKeys
    <3>1. CASE i \in DOMAIN outbox
      BY <3>1, <2>1 DEF StreamOK, KeyOf
    <3>2. CASE i = n + 1
      BY <3>2, <2>1, <1>2
    <3>. QED
      BY <3>1, <3>2, <2>1
  <2>. QED
    BY <2>1, <2>2 DEF StreamOK, KeyOf
<1>. QED
  BY <1>1, <1>2, RoomAppends

-----------------------------------------------------------------------------
\* Nothing was appended and nobody has started.
LEMMA InitInv == Init => PipelineInv
<1>. SUFFICES ASSUME Init  PROVE PipelineInv
  OBVIOUS
<1>1. outbox = << >>
  BY DEF Init, Room!Init
<1>2. StreamOK
  <2>1. outbox \in Seq({})
    BY <1>1
  <2>. QED
    BY <1>1, <2>1 DEF StreamOK, IsStream
<1>3. TypeOK
  BY <1>1, PipelineAssumption DEF TypeOK, Init, Down, Stopped, Topics
<1>4. Forwarded
  BY <1>1 DEF Forwarded, Init, Down
<1>5. Consumed
  BY DEF Consumed, Init, Stopped, Topics
<1>. QED
  BY <1>2, <1>3, <1>4, <1>5 DEF PipelineInv

-----------------------------------------------------------------------------
(***************************************************************************)
(* A step of the room only adds entries nobody has been given.             *)
(***************************************************************************)
LEMMA RoomStepInv ==
  ASSUME PipelineInv, RoomStep
  PROVE  PipelineInv'
<1>. USE DEF RoomStep
<1>. DEFINE n == Len(outbox)
<1>1. /\ StreamOK'
      /\ n \in Nat /\ n' \in Nat /\ n <= n' /\ DOMAIN outbox = 1..n /\ DOMAIN outbox' = 1..n'
      /\ \A i \in DOMAIN outbox : i \in DOMAIN outbox' /\ outbox'[i] = outbox[i]
  BY OutboxKept DEF PipelineInv
<1>2. UNCHANGED <<delivered, pending, relay, log, committed, worker, rows, faults, dropped>>
  BY DEF group
<1>3. TypeOK'
  <2>1. Seq(DOMAIN outbox) \subseteq Seq(DOMAIN outbox')
    BY <1>1
  <2>2. log' \in [Topics -> Seq(DOMAIN outbox')]
    BY <1>2, <2>1 DEF PipelineInv, TypeOK
  <2>3. delivered' \in 0..Len(outbox') \cup {None}
    BY <1>1, <1>2 DEF PipelineInv, TypeOK
  <2>. QED
    BY <1>1, <1>2, <2>2, <2>3 DEF PipelineInv, TypeOK
<1>4. \A i \in DOMAIN outbox : KeyOf(i)' = KeyOf(i) /\ Topic(outbox'[i]) = Topic(outbox[i])
  BY <1>1 DEF KeyOf
<1>5. Forwarded'
  <2>1. \A i \in DOMAIN outbox : InKafka(i) => InKafka(i)'
    BY <1>2, <1>4 DEF InKafka
  <2>2. ASSUME NEW i \in DOMAIN outbox', delivered # None, i <= delivered, i \notin pending
        PROVE  InKafka(i)'
    <3>1. i \in DOMAIN outbox
      BY <2>2, <1>1 DEF PipelineInv, TypeOK
    <3>. QED
      BY <3>1, <2>1, <2>2 DEF PipelineInv, Forwarded
  <2>3. \A i \in relay.batch \ relay.unsent : i \in DOMAIN outbox
    BY DEF PipelineInv, TypeOK
  <2>. QED
    BY <1>2, <2>1, <2>2, <2>3 DEF PipelineInv, Forwarded
<1>6. Consumed'
  <2>1. \A i \in DOMAIN outbox : (Accounted(i) => Accounted(i)') /\ (Recorded(i) => Recorded(i)')
    BY <1>2, <1>4 DEF Accounted, Recorded
  <2>2. ASSUME NEW p \in Topics  PROVE  log[p] \in Seq(DOMAIN outbox)
    BY DEF PipelineInv, TypeOK
  <2>3. ASSUME NEW p \in Topics, NEW o \in 1..Len(log[p])  PROVE  log[p][o] \in DOMAIN outbox
    BY <2>2
  <2>4. ASSUME NEW p \in Topics, NEW o \in 1..committed[p]  PROVE  Accounted(log[p][o])'
    <3>1. o \in 1..Len(log[p])
      BY <2>2 DEF PipelineInv, TypeOK
    <3>. QED
      BY <3>1, <2>1, <2>3, <1>2 DEF PipelineInv, Consumed
  <2>5. ASSUME NEW p \in Topics, NEW o \in 1..worker.pos[p], worker.at # "down"
        PROVE  <<p, o>> \in worker.got \/ Accounted(log[p][o])'
    <3>1. o \in 1..Len(log[p])
      BY <2>2 DEF PipelineInv, TypeOK
    <3>. QED
      BY <3>1, <2>1, <2>3, <2>5, <1>2 DEF PipelineInv, Consumed
  <2>6. ASSUME NEW m \in worker.got, worker.at = "commit"  PROVE  Recorded(Entry(m))'
    <3>1. m[1] \in Topics /\ m[2] \in 1..Len(log[m[1]])
      BY <2>2 DEF PipelineInv, TypeOK
    <3>2. Entry(m) \in DOMAIN outbox /\ Entry(m)' = Entry(m)
      BY <3>1, <2>3, <1>2 DEF Entry
    <3>. QED
      BY <3>2, <2>1, <2>6 DEF PipelineInv, Consumed, Recorded
  <2>. QED
    BY <1>2, <2>4, <2>5, <2>6 DEF Consumed, Accounted
<1>. QED
  BY <1>1, <1>3, <1>5, <1>6 DEF PipelineInv

-----------------------------------------------------------------------------
(***************************************************************************)
(* A step of the relay leaves what the worker has done alone.              *)
(***************************************************************************)
LEMMA StreamFacts ==
  ASSUME PipelineInv
  PROVE  /\ Len(outbox) \in Nat /\ DOMAIN outbox = 1..Len(outbox)
         /\ \A p \in Topics : log[p] \in Seq(DOMAIN outbox)
         /\ \A p \in Topics : Len(log[p]) \in Nat /\ DOMAIN log[p] = 1..Len(log[p])
         /\ \A p \in Topics : \A o \in 1..Len(log[p]) : log[p][o] \in DOMAIN outbox
<1>1. Len(outbox) \in Nat /\ DOMAIN outbox = 1..Len(outbox)
  BY AppendToStream DEF PipelineInv, StreamOK
<1>2. \A p \in Topics : log[p] \in Seq(DOMAIN outbox)
  BY DEF PipelineInv, TypeOK
<1>. QED
  BY <1>1, <1>2

LEMMA TopicIsTopic == \A e : Topic(e) \in Topics
BY DEF Topic, Topics

LEMMA ConsumedKept ==
  ASSUME PipelineInv, UNCHANGED <<outbox, log, committed, worker, rows, dropped>>
  PROVE  StreamOK' /\ Consumed'
BY DEF PipelineInv, StreamOK, KeyOf, Consumed, Accounted, Recorded, Entry

LEMMA RelayStepInv ==
  ASSUME PipelineInv, RelayStep \/ RelayStops
  PROVE  PipelineInv'
<1>1. CASE RelayStarts
  <2>1. UNCHANGED <<outbox, pending, log, committed, worker, rows, faults, dropped>>
    BY <1>1 DEF RelayStarts
  <2>2. TypeOK'
    <3>1. relay' = [at |-> "claim", mine |-> {}, batch |-> {}, unsent |-> {}]
      BY <1>1 DEF RelayStarts, Down
    <3>2. /\ delivered' \in 0..Len(outbox) \cup {None} /\ delivered' # None
          /\ delivered # None => delivered' = delivered
      BY <1>1, PipelineAssumption DEF RelayStarts, PipelineInv, TypeOK
    <3>3. pending' \subseteq {i \in DOMAIN outbox' : delivered' # None /\ i <= delivered'}
      BY <2>1, <3>2 DEF PipelineInv, TypeOK
    <3>. QED
      BY <2>1, <3>1, <3>2, <3>3 DEF PipelineInv, TypeOK
  <2>3. Forwarded'
    <3>1. \A i \in DOMAIN outbox : delivered # None /\ i <= delivered' => delivered' = delivered
      BY <1>1 DEF RelayStarts
    <3>2. delivered = None => \A i \in DOMAIN outbox : ~(i <= delivered')
      BY <1>1, StreamFacts DEF RelayStarts
    <3>. QED
      BY <1>1, <2>1, <3>1, <3>2 DEF RelayStarts, Down, PipelineInv, Forwarded, InKafka
  <2>. QED
    BY <2>1, <2>2, <2>3, ConsumedKept DEF PipelineInv
<1>2. CASE ClaimOrphans
  <2>1. UNCHANGED <<outbox, delivered, pending, log, committed, worker, rows, faults, dropped>>
    BY <1>2 DEF ClaimOrphans, group
  <2>2. TypeOK'
    BY <1>2, <2>1 DEF ClaimOrphans, PipelineInv, TypeOK
  <2>3. Forwarded'
    BY <1>2, <2>1 DEF ClaimOrphans, PipelineInv, TypeOK, Forwarded, InKafka
  <2>. QED
    BY <2>1, <2>2, <2>3, ConsumedKept DEF PipelineInv
<1>3. CASE Recover
  <2>1. UNCHANGED <<outbox, delivered, pending, log, committed, worker, rows, faults, dropped>>
    BY <1>3 DEF Recover, group
  <2>. DEFINE oldest == {i \in relay.mine : Cardinality({j \in relay.mine : j < i}) < ReadCount}
  <2>2. \/ relay' = [relay EXCEPT !.at = "read"]
        \/ relay' = [relay EXCEPT !.batch = oldest, !.unsent = oldest]
    BY <1>3 DEF Recover
  <2>3. oldest \subseteq relay.mine /\ relay.at = "recover"
    BY <1>3 DEF Recover
  <2>. HIDE DEF oldest
  <2>4. TypeOK'
    BY <2>1, <2>2, <2>3 DEF PipelineInv, TypeOK
  <2>5. Forwarded'
    <3>1. relay'.batch \ relay'.unsent \subseteq relay.batch \ relay.unsent
      BY <2>2 DEF PipelineInv, TypeOK
    <3>. QED
      BY <2>1, <3>1 DEF PipelineInv, Forwarded, InKafka
  <2>. QED
    BY <2>1, <2>4, <2>5, ConsumedKept DEF PipelineInv
<1>4. CASE ReadNew
  <2>1. UNCHANGED <<outbox, log, committed, worker, rows, faults, dropped>>
    BY <1>4 DEF ReadNew
  <2>. DEFINE last == IF delivered + ReadCount < Len(outbox) THEN delivered + ReadCount
                                                            ELSE Len(outbox)
              new == (delivered + 1)..last
  <2>2. /\ delivered' = last /\ pending' = pending \cup new
        /\ relay.at = "read" /\ relay.batch = {}
        /\ relay' = [relay EXCEPT !.mine = @ \cup new, !.batch = new, !.unsent = new]
    BY <1>4 DEF ReadNew
  <2>3. /\ delivered \in Nat /\ delivered # None /\ last \in Nat /\ last # None
        /\ delivered < last /\ last <= Len(outbox)
    BY <1>4, <2>2, PipelineAssumption DEF ReadNew, PipelineInv, TypeOK
  <2>. HIDE DEF last
  <2>4. TypeOK'
    <3>1. pending' \subseteq {i \in DOMAIN outbox : i <= last}
      BY <2>2, <2>3 DEF PipelineInv, TypeOK
    <3>2. relay' \in [at : {"down", "claim", "recover", "read"}, mine : SUBSET pending',
                      batch : SUBSET relay'.mine, unsent : SUBSET relay'.batch]
      BY <2>2 DEF PipelineInv, TypeOK
    <3>. QED
      BY <2>1, <2>2, <2>3, <3>1, <3>2 DEF PipelineInv, TypeOK
  <2>5. Forwarded'
    <3>1. ASSUME NEW i \in DOMAIN outbox, i <= last, i \notin pending'  PROVE  InKafka(i)
      <4>1. i <= delivered /\ i \notin pending
        BY <3>1, <2>2, <2>3
      <4>. QED
        BY <4>1, <2>3 DEF PipelineInv, Forwarded
    <3>2. relay'.batch = new /\ relay'.unsent = new
      BY <2>2 DEF PipelineInv, TypeOK
    <3>. QED
      BY <2>1, <2>2, <3>1, <3>2 DEF Forwarded, InKafka
  <2>. QED
    BY <2>1, <2>4, <2>5, ConsumedKept DEF PipelineInv
<1>5. ASSUME NEW i \in relay.unsent, Produce(i)  PROVE  PipelineInv'
  <2>. DEFINE t == Topic(outbox[i])
  <2>1. UNCHANGED <<outbox, delivered, pending, committed, worker, rows, faults, dropped>>
    BY <1>5 DEF Produce, group
  <2>2. /\ relay' = [relay EXCEPT !.unsent = @ \ {i}]
        /\ log' = [log EXCEPT ![t] = Append(log[t], i)]
    BY <1>5 DEF Produce
  <2>3. i \in DOMAIN outbox /\ t \in Topics
    BY TopicIsTopic DEF PipelineInv, TypeOK
  <2>4. /\ log \in [Topics -> Seq(DOMAIN outbox)]
        /\ log' \in [Topics -> Seq(DOMAIN outbox)]
        /\ log'[t] = Append(log[t], i)
        /\ \A p \in Topics \ {t} : log'[p] = log[p]
    BY <2>2, <2>3 DEF PipelineInv, TypeOK
  <2>. HIDE DEF t
  <2>5. \A p \in Topics : /\ Len(log'[p]) \in Nat /\ Len(log[p]) <= Len(log'[p])
                          /\ DOMAIN log'[p] = 1..Len(log'[p])
                          /\ \A o \in 1..Len(log[p]) : log'[p][o] = log[p][o]
    <3>1. IsStream(log[t])
      BY <2>3, StreamFacts DEF IsStream
    <3>2. /\ Len(log'[t]) = Len(log[t]) + 1 /\ DOMAIN log'[t] = 1..(Len(log[t]) + 1)
          /\ \A o \in 1..Len(log[t]) : log'[t][o] = log[t][o]
      BY <2>3, <2>4, <3>1, AppendToStream
    <3>3. ASSUME NEW p \in Topics, p # t  PROVE  log'[p] = log[p]
      BY <2>4, <3>3
    <3>4. \A p \in Topics : Len(log[p]) \in Nat /\ DOMAIN log[p] = 1..Len(log[p])
      BY StreamFacts
    <3>5. Len(log'[t]) \in Nat /\ Len(log[t]) <= Len(log'[t])
      BY <2>3, <3>2, <3>4
    <3>. QED
      BY <3>2, <3>3, <3>4, <3>5
  <2>6. TypeOK'
    <3>1. \A p \in Topics : /\ committed'[p] <= Len(log'[p])
                            /\ worker'.pos[p] <= Len(log'[p])
      BY <2>1, <2>5 DEF PipelineInv, TypeOK
    <3>. QED
      BY <2>1, <2>2, <2>4, <3>1 DEF PipelineInv, TypeOK
  <2>7. Forwarded'
    <3>1. ASSUME NEW j \in DOMAIN outbox, InKafka(j)  PROVE  InKafka(j)'
      <4>. DEFINE p == Topic(outbox[j])
      <4>1. PICK o \in DOMAIN log[p] : log[p][o] = j
        BY <3>1 DEF InKafka
      <4>2. p \in Topics
        BY TopicIsTopic
      <4>3. o \in 1..Len(log[p]) /\ Len(log[p]) \in Nat
        BY <4>1, <4>2, StreamFacts
      <4>. HIDE DEF p
      <4>4. o \in DOMAIN log'[p] /\ log'[p][o] = j
        BY <4>1, <4>2, <4>3, <2>5
      <4>. QED
        BY <4>4, <2>1 DEF InKafka, p
    <3>2. InKafka(i)'
      <4>1. Len(log[t]) + 1 \in DOMAIN log'[t] /\ log'[t][Len(log[t]) + 1] = i
        BY <2>3, <2>4
      <4>. QED
        BY <4>1, <2>1 DEF InKafka, t
    <3>3. relay'.batch \ relay'.unsent \subseteq (relay.batch \ relay.unsent) \cup {i}
      BY <2>2 DEF PipelineInv, TypeOK
    <3>4. relay.batch \subseteq DOMAIN outbox
      BY DEF PipelineInv, TypeOK
    <3>. QED
      BY <2>1, <3>1, <3>2, <3>3, <3>4 DEF PipelineInv, Forwarded
  <2>8. StreamOK' /\ Consumed'
    <3>1. \A p \in Topics : \A o \in 1..Len(log[p]) :
             Accounted(log[p][o]) => Accounted(log[p][o])'
      BY <2>1, <2>5 DEF Accounted, Recorded, KeyOf
    <3>2. ASSUME NEW p \in Topics, NEW o \in 1..committed[p]  PROVE  Accounted(log[p][o])'
      BY <3>1 DEF PipelineInv, TypeOK, Consumed
    <3>3. ASSUME NEW p \in Topics, NEW o \in 1..worker.pos[p], worker.at # "down"
          PROVE  <<p, o>> \in worker.got \/ Accounted(log[p][o])'
      BY <3>1, <3>3 DEF PipelineInv, TypeOK, Consumed
    <3>4. ASSUME NEW m \in worker.got, worker.at = "commit"  PROVE  Recorded(Entry(m))'
      <4>1. m[1] \in Topics /\ m[2] \in 1..Len(log[m[1]])
        BY DEF PipelineInv, TypeOK
      <4>2. Entry(m)' = Entry(m)
        BY <4>1, <2>5 DEF Entry
      <4>. QED
        BY <3>4, <4>2, <2>1 DEF PipelineInv, Consumed, Recorded, KeyOf
    <3>. QED
      BY <2>1, <3>2, <3>3, <3>4 DEF PipelineInv, StreamOK, KeyOf, Consumed
  <2>. QED
    BY <2>6, <2>7, <2>8 DEF PipelineInv
<1>6. CASE Ack
  <2>1. UNCHANGED <<outbox, delivered, log, committed, worker, rows, faults, dropped>>
    BY <1>6 DEF Ack
  <2>2. TypeOK'
    <3>1. relay' \in [at : {"down", "claim", "recover", "read"}, mine : SUBSET pending',
                      batch : SUBSET relay'.mine, unsent : SUBSET relay'.batch]
      <4>1. /\ relay'.mine \subseteq pending' /\ relay'.batch = {} /\ relay'.unsent = {}
            /\ relay'.at = relay.at
        BY <1>6 DEF Ack, PipelineInv, TypeOK
      <4>2. relay' = [at |-> relay'.at, mine |-> relay'.mine,
                      batch |-> relay'.batch, unsent |-> relay'.unsent]
        BY <1>6 DEF Ack, PipelineInv, TypeOK
      <4>. QED
        BY <4>1, <4>2 DEF PipelineInv, TypeOK
    <3>2. pending' \subseteq pending /\ relay'.at = relay.at
      BY <1>6 DEF Ack, PipelineInv, TypeOK
    <3>. QED
      BY <2>1, <3>1, <3>2 DEF PipelineInv, TypeOK
  <2>3. Forwarded'
    <3>1. \A i \in relay.batch : InKafka(i)
      BY <1>6 DEF Ack, PipelineInv, Forwarded
    <3>2. relay'.batch = {}
      BY <1>6 DEF Ack, PipelineInv, TypeOK
    <3>. QED
      BY <1>6, <2>1, <3>1, <3>2 DEF Ack, PipelineInv, Forwarded, InKafka
  <2>. QED
    BY <2>1, <2>2, <2>3, ConsumedKept DEF PipelineInv
<1>7. CASE RelayStops
  <2>1. UNCHANGED <<outbox, delivered, pending, log, committed, worker, rows, dropped>>
    BY <1>7 DEF RelayStops, group
  <2>2. TypeOK'
    BY <1>7, <2>1, PipelineAssumption DEF RelayStops, Down, PipelineInv, TypeOK
  <2>3. Forwarded'
    BY <1>7, <2>1 DEF RelayStops, Down, PipelineInv, Forwarded, InKafka
  <2>. QED
    BY <2>1, <2>2, <2>3, ConsumedKept DEF PipelineInv
<1>. QED
  BY <1>1, <1>2, <1>3, <1>4, <1>5, <1>6, <1>7 DEF RelayStep

-----------------------------------------------------------------------------
(***************************************************************************)
(* A step of the worker: entries only ever become accounted for, and those *)
(* of a batch are recorded before their offsets are committed.             *)
(***************************************************************************)
LEMMA ForwardedKept ==
  ASSUME PipelineInv, UNCHANGED <<outbox, delivered, pending, relay, log>>
  PROVE  StreamOK' /\ Forwarded'
BY DEF PipelineInv, StreamOK, KeyOf, Forwarded, InKafka

LEMMA BatchFacts ==
  ASSUME PipelineInv, NEW m \in worker.got
  PROVE  /\ m = <<m[1], m[2]>> /\ m[1] \in Topics /\ m[2] \in 1..worker.pos[m[1]]
         /\ m[2] \in 1..Len(log[m[1]])
         /\ Entry(m) \in DOMAIN outbox /\ KeyOf(Entry(m)) \in EventKeys
<1>1. m \in Topics \X Nat /\ m[2] \in 1..worker.pos[m[1]]
  BY DEF PipelineInv, TypeOK
<1>2. m[2] \in 1..Len(log[m[1]])
  BY <1>1, StreamFacts DEF PipelineInv, TypeOK
<1>3. Entry(m) \in DOMAIN outbox
  BY <1>1, <1>2, StreamFacts DEF Entry
<1>. QED
  BY <1>1, <1>2, <1>3 DEF PipelineInv, StreamOK

LEMMA WorkerStepInv ==
  ASSUME PipelineInv, WorkerStep \/ WorkerStops \/ FetchFails
  PROVE  PipelineInv'
<1>1. CASE WorkerStarts
  <2>1. UNCHANGED <<outbox, delivered, pending, relay, log, committed, rows, faults, dropped>>
    BY <1>1 DEF WorkerStarts, group
  <2>2. worker' = [at |-> "gather", got |-> {}, pos |-> committed]
    BY <1>1 DEF WorkerStarts
  <2>3. TypeOK'
    BY <2>1, <2>2 DEF PipelineInv, TypeOK
  <2>4. Consumed'
    BY <2>1, <2>2 DEF PipelineInv, Consumed, Accounted, Recorded, KeyOf
  <2>. QED
    BY <2>1, <2>3, <2>4, ForwardedKept DEF PipelineInv
<1>2. ASSUME NEW p \in Topics, Fetch(p)  PROVE  PipelineInv'
  <2>1. UNCHANGED <<outbox, delivered, pending, relay, log, committed, rows, faults, dropped>>
    BY <1>2 DEF Fetch, group
  <2>. DEFINE n == worker.pos[p] + 1
  <2>2. /\ worker.at = "gather" /\ worker.pos[p] < Len(log[p])
        /\ worker' = [worker EXCEPT !.got = @ \cup {<<p, n>>}, !.pos[p] = n]
    BY <1>2 DEF Fetch
  <2>3. /\ worker.pos[p] \in Nat /\ n \in Nat /\ n <= Len(log[p])
        /\ worker.pos \in [Topics -> Nat] /\ worker.got \subseteq Topics \X Nat
    <3>1. worker.pos \in [Topics -> Nat] /\ worker.got \subseteq Topics \X Nat
      BY DEF PipelineInv, TypeOK
    <3>2. worker.pos[p] \in Nat /\ Len(log[p]) \in Nat
      BY <3>1, StreamFacts
    <3>. QED
      BY <3>1, <3>2, <2>2
  <2>4. /\ worker'.at = "gather"
        /\ worker'.got = worker.got \cup {<<p, n>>}
        /\ worker'.pos = [worker.pos EXCEPT ![p] = n]
        /\ worker' = [at |-> worker'.at, got |-> worker'.got, pos |-> worker'.pos]
    BY <2>2 DEF PipelineInv, TypeOK
  <2>5. TypeOK'
    <3>1. worker' \in [at : {"down", "gather", "commit"},
                       got : SUBSET (Topics \X Nat), pos : [Topics -> Nat]]
      BY <2>3, <2>4
    <3>2. \A q \in Topics : worker'.pos[q] <= Len(log[q])
      BY <2>3, <2>4 DEF PipelineInv, TypeOK
    <3>3. \A m \in worker'.got : m[2] \in 1..worker'.pos[m[1]]
      BY <2>3, <2>4, BatchFacts
    <3>. QED
      BY <2>1, <3>1, <3>2, <3>3 DEF PipelineInv, TypeOK
  <2>6. Consumed'
    <3>1. \A q \in Topics : \A o \in 1..committed[q] : Accounted(log[q][o])'
      BY <2>1 DEF PipelineInv, Consumed, Accounted, Recorded, KeyOf
    <3>2. ASSUME NEW q \in Topics, NEW o \in 1..worker'.pos[q]
          PROVE  <<q, o>> \in worker'.got \/ Accounted(log[q][o])'
      <4>1. CASE q = p /\ o = n
        BY <4>1, <2>4
      <4>2. CASE ~(q = p /\ o = n)
        <5>1. o \in 1..worker.pos[q]
          BY <4>2, <2>3, <2>4
        <5>2. <<q, o>> \in worker.got \/ Accounted(log[q][o])
          BY <5>1, <2>2 DEF PipelineInv, Consumed
        <5>. QED
          BY <5>2, <2>1, <2>4 DEF Accounted, Recorded, KeyOf
      <4>. QED
        BY <4>1, <4>2
    <3>. QED
      BY <2>1, <2>4, <3>1, <3>2 DEF Consumed
  <2>. QED
    BY <2>1, <2>5, <2>6, ForwardedKept DEF PipelineInv
<1>3. CASE FetchFails
  <2>1. UNCHANGED <<outbox, delivered, pending, relay, log, committed, rows>>
    BY <1>3 DEF FetchFails, group
  <2>2. /\ faults < MaxFaults /\ faults' = faults + 1
        /\ dropped' = dropped \cup {Entry(m) : m \in worker.got}
        /\ worker.at = "gather" /\ worker' = [worker EXCEPT !.got = {}]
    BY <1>3 DEF FetchFails
  <2>3. worker' = [at |-> "gather", got |-> {}, pos |-> worker.pos]
    BY <2>2 DEF PipelineInv, TypeOK
  <2>4. TypeOK'
    <3>1. dropped' \subseteq DOMAIN outbox
      <4>1. dropped \subseteq DOMAIN outbox
        BY DEF PipelineInv, TypeOK
      <4>. QED
        BY <4>1, <2>2, BatchFacts
    <3>2. faults' \in 0..MaxFaults
      BY <2>2, PipelineAssumption DEF PipelineInv, TypeOK
    <3>. QED
      BY <2>1, <2>3, <3>1, <3>2 DEF PipelineInv, TypeOK
  <2>5. Consumed'
    <3>1. ASSUME NEW p \in Topics, NEW o, <<p, o>> \in worker.got  PROVE  Accounted(log[p][o])'
      BY <3>1, <2>1, <2>2 DEF Accounted, Entry
    <3>2. \A p \in Topics : \A o \in 1..worker.pos[p] : Accounted(log[p][o])'
      <4>1. \A p \in Topics : \A o \in 1..worker.pos[p] :
               <<p, o>> \in worker.got \/ Accounted(log[p][o])
        BY <2>2 DEF PipelineInv, Consumed
      <4>2. \A p \in Topics : \A o : Accounted(log[p][o]) => Accounted(log[p][o])'
        BY <2>1, <2>2 DEF Accounted, Recorded, KeyOf
      <4>. QED
        BY <4>1, <4>2, <3>1
    <3>3. \A p \in Topics : \A o \in 1..committed[p] : Accounted(log[p][o])'
      BY <2>1, <2>2 DEF PipelineInv, Consumed, Accounted, Recorded, KeyOf
    <3>. QED
      BY <2>1, <2>3, <3>2, <3>3 DEF Consumed, Accounted, Recorded, KeyOf
  <2>. QED
    BY <2>1, <2>4, <2>5, ForwardedKept DEF PipelineInv
<1>4. CASE WriteBatch
  <2>1. UNCHANGED <<outbox, delivered, pending, relay, log, committed, faults, dropped>>
    BY <1>4 DEF WriteBatch, group
  <2>2. /\ rows' = Insert(worker.got)
        /\ worker.at = "gather" /\ worker' = [worker EXCEPT !.at = "commit"]
    BY <1>4 DEF WriteBatch
  <2>3. /\ rows' \in [EventKeys -> Nat]
        /\ \A k \in EventKeys : rows[k] > 0 => rows'[k] > 0
        /\ \A m \in worker.got : rows'[KeyOf(Entry(m))] > 0
    <3>1. \A k \in EventKeys : rows[k] \in Nat
      BY DEF PipelineInv, TypeOK
    <3>2. \A m \in worker.got : Entry(m) \in DOMAIN outbox /\ KeyOf(Entry(m)) \in EventKeys
      BY BatchFacts
    <3>. QED
      BY <2>2, <3>1, <3>2 DEF Insert, KeyOf
  <2>4. worker' = [at |-> "commit", got |-> worker.got, pos |-> worker.pos]
    BY <2>2 DEF PipelineInv, TypeOK
  <2>5. TypeOK'
    BY <2>1, <2>3, <2>4 DEF PipelineInv, TypeOK
  <2>6. Consumed'
    <3>1. ASSUME NEW p \in Topics, NEW o \in 1..Len(log[p]), Accounted(log[p][o])
          PROVE  Accounted(log[p][o])'
      <4>1. log[p][o] \in DOMAIN outbox /\ KeyOf(log[p][o]) \in EventKeys
        BY StreamFacts DEF PipelineInv, StreamOK
      <4>. QED
        BY <3>1, <4>1, <2>1, <2>3 DEF Accounted, Recorded, KeyOf
    <3>2. ASSUME NEW p \in Topics, NEW o \in 1..committed[p]  PROVE  Accounted(log[p][o])'
      <4>1. o \in 1..Len(log[p])
        BY StreamFacts DEF PipelineInv, TypeOK
      <4>. QED
        BY <4>1, <3>1 DEF PipelineInv, Consumed
    <3>3. ASSUME NEW p \in Topics, NEW o \in 1..worker.pos[p]
          PROVE  <<p, o>> \in worker.got \/ Accounted(log[p][o])'
      <4>1. o \in 1..Len(log[p])
        BY StreamFacts DEF PipelineInv, TypeOK
      <4>. QED
        BY <4>1, <3>1, <2>2 DEF PipelineInv, Consumed
    <3>4. \A m \in worker.got : Recorded(Entry(m))'
      BY <2>1, <2>3 DEF Recorded, KeyOf, Entry
    <3>. QED
      BY <2>1, <2>4, <3>2, <3>3, <3>4 DEF Consumed, Accounted, Recorded, KeyOf, Entry
  <2>. QED
    BY <2>1, <2>5, <2>6, ForwardedKept DEF PipelineInv
<1>5. CASE CommitOffsets
  <2>1. UNCHANGED <<outbox, delivered, pending, relay, log, rows, faults, dropped>>
    BY <1>5 DEF CommitOffsets, group
  <2>2. /\ committed' \in [Topics -> Nat]
        /\ \A p \in Topics : committed'[p] = worker.pos[p] \/ committed'[p] = committed[p]
        /\ worker.at = "commit"
        /\ worker' = [at |-> "gather", got |-> {}, pos |-> worker.pos]
    BY <1>5 DEF CommitOffsets, Offset, PipelineInv, TypeOK
  <2>3. TypeOK'
    BY <2>1, <2>2 DEF PipelineInv, TypeOK
  <2>4. Consumed'
    <3>1. ASSUME NEW p \in Topics, NEW o \in 1..worker.pos[p]  PROVE  Accounted(log[p][o])
      <4>1. CASE <<p, o>> \in worker.got
        <5>1. Entry(<<p, o>>) = log[p][o]
          BY DEF Entry
        <5>. QED
          BY <4>1, <5>1, <2>2 DEF PipelineInv, Consumed, Accounted
      <4>. QED
        BY <4>1, <2>2 DEF PipelineInv, Consumed
    <3>2. \A p \in Topics : \A o \in 1..committed'[p] : Accounted(log[p][o])
      BY <3>1, <2>2 DEF PipelineInv, Consumed
    <3>. QED
      BY <2>1, <2>2, <3>1, <3>2 DEF Consumed, Accounted, Recorded, KeyOf
  <2>. QED
    BY <2>1, <2>3, <2>4, ForwardedKept DEF PipelineInv
<1>6. CASE WorkerStops
  <2>1. UNCHANGED <<outbox, delivered, pending, relay, log, committed, rows, dropped>>
    BY <1>6 DEF WorkerStops, group
  <2>2. /\ worker' = [at |-> "down", got |-> {}, pos |-> [p \in Topics |-> 0]]
        /\ faults < MaxFaults /\ faults' = faults + 1
    BY <1>6 DEF WorkerStops, Stopped
  <2>3. TypeOK'
    BY <2>1, <2>2, StreamFacts, PipelineAssumption DEF PipelineInv, TypeOK
  <2>4. Consumed'
    BY <2>1, <2>2 DEF PipelineInv, Consumed, Accounted, Recorded, KeyOf
  <2>. QED
    BY <2>1, <2>3, <2>4, ForwardedKept DEF PipelineInv
<1>. QED
  BY <1>1, <1>2, <1>3, <1>4, <1>5, <1>6 DEF WorkerStep

-----------------------------------------------------------------------------
\* Every step keeps the invariant.
LEMMA StepInv == PipelineInv /\ [Next]_vars => PipelineInv'
<1>. SUFFICES ASSUME PipelineInv, [Next]_vars  PROVE PipelineInv'
  OBVIOUS
<1>1. CASE UNCHANGED vars
  BY <1>1 DEF vars, roomVars, group, PipelineInv, StreamOK, KeyOf, TypeOK, Forwarded, InKafka,
              Consumed, Accounted, Recorded, Entry
<1>. QED
  BY <1>1, RoomStepInv, RelayStepInv, WorkerStepInv DEF Next

\* An entry of the outbox is in one of these places, whoever dies and whenever.
THEOREM PipelineInvariant == Spec => []PipelineInv
BY InitInv, StepInv, PTL DEF Spec

(***************************************************************************)
(* Type correctness: the relay only ever works on what is pending under    *)
(* its own name, and no offset runs ahead of the log.                      *)
(***************************************************************************)
THEOREM PipelineTypeCorrect == Spec => []TypeOK
<1>1. PipelineInv => TypeOK
  BY DEF PipelineInv
<1>. QED
  BY <1>1, PipelineInvariant, PTL

(***************************************************************************)
(* Nothing is lost between the outbox and the ledger, however often either *)
(* process dies: an entry that has left the stream is in Kafka, and one    *)
(* that the worker group has passed is recorded, or a failed fetch made    *)
(* the worker forget it.                                                   *)
(***************************************************************************)
THEOREM NothingLostCorrect == Spec => []NothingLost
<1>1. ASSUME PipelineInv  PROVE NothingLost
  <2>. SUFFICES ASSUME NEW i \in DOMAIN outbox,
                       rows[KeyOf(i)] > 0 \/ delivered = None \/ delivered < i
                         \/ i \in pending \/ i \in dropped \/ InKafka(i),
                       ~Accounted(i)
                PROVE  \/ delivered = None \/ delivered < i
                       \/ i \in pending
                       \/ \E o \in DOMAIN log[Topic(outbox[i])] :
                            log[Topic(outbox[i])][o] = i /\ o > committed[Topic(outbox[i])]
    <3>1. \A i \in DOMAIN outbox :
            delivered = None \/ delivered < i \/ i \in pending \/ InKafka(i)
      BY <1>1, StreamFacts DEF PipelineInv, TypeOK, Forwarded
    <3>. QED
      BY <3>1 DEF NothingLost, Accounted, Recorded
  <2>1. CASE InKafka(i)
    <3>. DEFINE p == Topic(outbox[i])
    <3>1. PICK o \in DOMAIN log[p] : log[p][o] = i
      BY <2>1 DEF InKafka
    <3>2. p \in Topics
      BY TopicIsTopic
    <3>3. o \in 1..Len(log[p]) /\ Len(log[p]) \in Nat /\ committed[p] \in Nat
      BY <1>1, <3>1, <3>2, StreamFacts DEF PipelineInv, TypeOK
    <3>4. ~(o \in 1..committed[p])
      BY <1>1, <3>1, <3>2 DEF PipelineInv, Consumed
    <3>5. o > committed[p]
      BY <3>3, <3>4
    <3>. QED
      BY <3>1, <3>5
  <2>. QED
    BY <2>1 DEF Accounted, Recorded
<1>. QED
  BY <1>1, PipelineInvariant, PTL

-----------------------------------------------------------------------------
(***************************************************************************)
(* The order of a partition.  A message is sent when everything of its     *)
(* topic before it is in Kafka or about to be sent before it.  A process   *)
(* that claimed what was pending owns all of it, so whatever it was not    *)
(* given is in Kafka; what it is given is always the oldest it owns.       *)
(***************************************************************************)
\* Whatever entry i must not overtake is in Kafka, or will be sent before it.
Behind(i) ==
  \A j \in 1..i : Topic(outbox[j]) = Topic(outbox[i]) => InKafka(j) \/ j \in relay.unsent

\* A relay that claimed the pending entries owns all of them, and sends nothing too early.
RelayOrdered ==
  /\ relay.at \in {"recover", "read"} => relay.mine = pending
  /\ relay.at = "read" => relay.mine = relay.batch
  /\ \A i \in relay.unsent : Behind(i)

\* The strengthening of PartitionOrder.
OrderInv == RelayOrdered /\ PartitionOrder

\* Nothing was claimed or sent yet.
LEMMA OrderInit == Init => OrderInv
BY DEF Init, Down, OrderInv, RelayOrdered, PartitionOrder

\* An entry the room appends stands behind everything the relay holds.
LEMMA OrderRoom ==
  ASSUME PipelineInv, OrderInv, RoomStep
  PROVE  OrderInv'
<1>1. /\ \A i \in DOMAIN outbox : i \in DOMAIN outbox' /\ outbox'[i] = outbox[i]
      /\ UNCHANGED <<pending, relay, log>>
  BY OutboxKept DEF RoomStep, PipelineInv, group
<1>2. ASSUME NEW i \in DOMAIN outbox, NEW j \in 1..i
      PROVE  j \in DOMAIN outbox /\ outbox'[j] = outbox[j] /\ InKafka(j)' = InKafka(j)
  BY <1>1, <1>2, StreamFacts DEF InKafka
<1>3. RelayOrdered'
  <2>1. relay.unsent \subseteq DOMAIN outbox
    BY DEF PipelineInv, TypeOK
  <2>. QED
    BY <1>1, <1>2, <2>1 DEF OrderInv, RelayOrdered, Behind
<1>4. PartitionOrder'
  <2>. SUFFICES ASSUME NEW p \in Topics, NEW o \in DOMAIN log[p], NEW i \in 1..log[p][o],
                       Topic(outbox'[i]) = p
                PROVE  \E o2 \in 1..o : log[p][o2] = i
    BY <1>1 DEF PartitionOrder
  <2>1. log[p][o] \in DOMAIN outbox
    BY StreamFacts
  <2>. QED
    BY <1>2, <2>1 DEF OrderInv, PartitionOrder
<1>. QED
  BY <1>3, <1>4 DEF OrderInv

\* The oldest entries a consumer owns: what it owns and is older than one of them is one.
LEMMA OldestFirst ==
  ASSUME NEW n \in Nat, NEW S \in SUBSET (1..n), NEW i \in S, NEW j \in S, j <= i,
         Cardinality({k \in S : k < i}) < ReadCount
  PROVE  Cardinality({k \in S : k < j}) < ReadCount
<1>. DEFINE A == {k \in S : k < i}
            B == {k \in S : k < j}
<1>1. IsFiniteSet(A) /\ B \subseteq A
  <2>1. IsFiniteSet(1..n)
    BY FS_Interval
  <2>2. A \subseteq 1..n
    OBVIOUS
  <2>3. ASSUME NEW k \in S, k < j  PROVE k < i
    BY <2>3
  <2>. QED
    BY <2>1, <2>2, <2>3, FS_Subset
<1>2. Cardinality(B) <= Cardinality(A) /\ Cardinality(A) \in Nat /\ Cardinality(B) \in Nat
  BY <1>1, FS_Subset, FS_CardinalityType
<1>. QED
  BY <1>2, PipelineAssumption

\* The next message of a topic is its oldest unsent one.
LEMMA OrderProduce ==
  ASSUME PipelineInv, OrderInv, NEW i \in relay.unsent, Produce(i)
  PROVE  OrderInv'
<1>. DEFINE p == Topic(outbox[i])
            n == Len(log[p])
<1>1. /\ UNCHANGED <<outbox, pending>>
      /\ relay' = [relay EXCEPT !.unsent = @ \ {i}]
      /\ log' = [log EXCEPT ![p] = Append(@, i)]
      /\ \A j \in relay.unsent : Topic(outbox[j]) = p => i <= j
  BY DEF Produce, group
<1>2. /\ p \in Topics /\ i \in DOMAIN outbox /\ i \in Nat /\ relay.unsent \subseteq Nat
      /\ log[p] \in Seq(DOMAIN outbox) /\ n \in Nat
      /\ DOMAIN log = Topics
  BY TopicIsTopic, StreamFacts DEF PipelineInv, TypeOK
<1>3. /\ log'[p] = Append(log[p], i)
      /\ \A q \in Topics : q # p => log'[q] = log[q]
      /\ DOMAIN log'[p] = 1..(n + 1) /\ DOMAIN log[p] = 1..n
      /\ \A o \in 1..n : log'[p][o] = log[p][o]
      /\ log'[p][n + 1] = i
  BY <1>1, <1>2
<1>4. \A j : (InKafka(j) => InKafka(j)')
  <2>. SUFFICES ASSUME NEW j, InKafka(j)  PROVE InKafka(j)'
    OBVIOUS
  <2>1. Topic(outbox[j]) \in Topics
    BY TopicIsTopic
  <2>2. PICK o \in DOMAIN log[Topic(outbox[j])] : log[Topic(outbox[j])][o] = j
    BY DEF InKafka
  <2>3. o \in DOMAIN log'[Topic(outbox[j])] /\ log'[Topic(outbox[j])][o] = j
    <3>1. CASE Topic(outbox[j]) = p
      BY <1>2, <1>3, <2>2, <3>1
    <3>2. CASE Topic(outbox[j]) # p
      BY <1>3, <2>1, <2>2, <3>2
    <3>. QED
      BY <3>1, <3>2
  <2>. QED
    BY <1>1, <2>3 DEF InKafka
<1>5. InKafka(i)'
  BY <1>1, <1>2, <1>3 DEF InKafka
<1>6. RelayOrdered'
  <2>1. /\ relay'.at = relay.at /\ relay'.mine = relay.mine /\ relay'.batch = relay.batch
        /\ relay'.unsent = relay.unsent \ {i}
    BY <1>1 DEF PipelineInv, TypeOK
  <2>2. ASSUME NEW k \in relay.unsent, NEW j \in 1..k, Topic(outbox[j]) = Topic(outbox[k])
        PROVE  InKafka(j)' \/ j \in relay.unsent \ {i}
    <3>1. InKafka(j) \/ j \in relay.unsent
      BY <2>2 DEF OrderInv, RelayOrdered, Behind
    <3>. QED
      BY <1>4, <1>5, <3>1
  <2>. QED
    BY <1>1, <2>1, <2>2 DEF OrderInv, RelayOrdered, Behind
<1>7. PartitionOrder'
  <2>. SUFFICES ASSUME NEW q \in Topics, NEW o \in DOMAIN log'[q], NEW k \in 1..log'[q][o],
                       Topic(outbox[k]) = q
                PROVE  \E o2 \in 1..o : log'[q][o2] = k
    BY <1>1 DEF PartitionOrder
  <2>1. CASE q # p
    BY <1>3, <2>1 DEF OrderInv, PartitionOrder
  <2>2. CASE q = p /\ o \in 1..n
    <3>1. PICK o2 \in 1..o : log[q][o2] = k
      BY <1>3, <2>2 DEF OrderInv, PartitionOrder
    <3>. QED
      BY <1>2, <1>3, <2>2, <3>1
  <2>3. CASE q = p /\ o = n + 1
    <3>1. k \in 1..i
      BY <1>3, <2>3
    <3>2. CASE InKafka(k)
      <4>1. PICK o2 \in DOMAIN log[p] : log[p][o2] = k
        BY <2>3, <3>2 DEF InKafka
      <4>. QED
        BY <1>2, <1>3, <2>3, <4>1
    <3>3. CASE k \in relay.unsent
      <4>1. k = i
        BY <1>1, <1>2, <2>3, <3>1, <3>3
      <4>. QED
        BY <1>2, <1>3, <2>3, <4>1
    <3>. QED
      BY <2>3, <3>1, <3>2, <3>3 DEF OrderInv, RelayOrdered, Behind
  <2>. QED
    BY <1>2, <1>3, <2>1, <2>2, <2>3
<1>. QED
  BY <1>6, <1>7 DEF OrderInv

\* Claiming and reading, recovering and acknowledging keep the order.
LEMMA OrderRelay ==
  ASSUME PipelineInv, OrderInv, RelayStep \/ RelayStops
  PROVE  OrderInv'
<1>1. ASSUME UNCHANGED <<outbox, log>>
      PROVE  PartitionOrder' /\ \A j : InKafka(j)' = InKafka(j)
  BY <1>1 DEF OrderInv, PartitionOrder, InKafka
<1>2. CASE RelayStarts \/ RelayStops
  <2>1. relay'.at \in {"claim", "down"} /\ relay'.unsent = {} /\ UNCHANGED <<outbox, log>>
    BY <1>2 DEF RelayStarts, RelayStops, Down
  <2>. QED
    BY <1>1, <2>1 DEF OrderInv, RelayOrdered
<1>3. CASE ClaimOrphans
  <2>1. /\ relay' = [relay EXCEPT !.at = "recover", !.mine = pending]
        /\ UNCHANGED <<outbox, pending, log>>
    BY <1>3 DEF ClaimOrphans, group
  <2>2. relay'.at = "recover" /\ relay'.mine = pending /\ relay'.unsent = relay.unsent
    BY <2>1 DEF PipelineInv, TypeOK
  <2>. QED
    BY <1>1, <2>1, <2>2 DEF OrderInv, RelayOrdered, Behind
<1>4. CASE Recover
  <2>. DEFINE oldest == {i \in relay.mine : Cardinality({j \in relay.mine : j < i}) < ReadCount}
  <2>1. /\ relay.at = "recover" /\ relay.batch = {} /\ UNCHANGED <<outbox, pending, log>>
        /\ relay' = IF relay.mine = {} THEN [relay EXCEPT !.at = "read"]
                    ELSE [relay EXCEPT !.batch = oldest, !.unsent = oldest]
    BY <1>4 DEF Recover, group
  <2>2. relay.mine = pending /\ relay.unsent = {}
    BY <2>1 DEF OrderInv, RelayOrdered, PipelineInv, TypeOK
  <2>3. CASE relay.mine = {}
    <3>1. /\ relay'.at = "read" /\ relay'.mine = {} /\ relay'.batch = {}
          /\ relay'.unsent = {}
      BY <2>1, <2>2, <2>3 DEF PipelineInv, TypeOK
    <3>. QED
      BY <1>1, <2>1, <2>2, <2>3, <3>1 DEF OrderInv, RelayOrdered
  <2>4. CASE relay.mine # {}
    <3>1. relay'.at = "recover" /\ relay'.mine = pending /\ relay'.unsent = oldest
      BY <2>1, <2>2, <2>4 DEF PipelineInv, TypeOK
    <3>2. ASSUME NEW i \in oldest, NEW j \in 1..i  PROVE InKafka(j) \/ j \in oldest
      <4>1. /\ relay.mine \subseteq 1..Len(outbox) /\ Len(outbox) \in Nat
            /\ i \in relay.mine /\ j \in 1..Len(outbox) /\ j <= i
            /\ delivered \in Nat /\ delivered # None /\ i <= delivered
        BY <2>2, StreamFacts, PipelineAssumption DEF PipelineInv, TypeOK
      <4>2. CASE j \in relay.mine
        BY <4>1, <4>2, OldestFirst
      <4>3. CASE j \notin relay.mine
        BY <2>2, <4>1, <4>3, StreamFacts DEF PipelineInv, Forwarded
      <4>. QED
        BY <4>2, <4>3
    <3>. QED
      BY <1>1, <2>1, <3>1, <3>2 DEF OrderInv, RelayOrdered, Behind
  <2>. QED
    BY <2>3, <2>4
<1>5. CASE ReadNew
  <2>. DEFINE last == IF delivered + ReadCount < Len(outbox) THEN delivered + ReadCount
                                                             ELSE Len(outbox)
              new == (delivered + 1)..last
  <2>1. /\ relay.at = "read" /\ relay.batch = {} /\ UNCHANGED <<outbox, log>>
        /\ pending' = pending \cup new
        /\ relay' = [relay EXCEPT !.mine = @ \cup new, !.batch = new, !.unsent = new]
    BY <1>5 DEF ReadNew
  <2>2. relay.mine = {} /\ pending = {}
    BY <2>1 DEF OrderInv, RelayOrdered
  <2>3. /\ relay'.at = "read" /\ relay'.mine = new /\ relay'.batch = new
        /\ relay'.unsent = new
    BY <2>1, <2>2 DEF PipelineInv, TypeOK
  <2>4. ASSUME NEW i \in new, NEW j \in 1..i  PROVE InKafka(j) \/ j \in new
    <3>1. /\ delivered \in Nat /\ delivered # None /\ Len(outbox) \in Nat
          /\ DOMAIN outbox = 1..Len(outbox) /\ ReadCount \in Nat
      BY <2>1, StreamFacts, PipelineAssumption DEF PipelineInv, TypeOK
    <3>2. last \in Nat /\ last <= Len(outbox)
      BY <3>1
    <3>3. CASE j <= delivered
      <4>1. j \in DOMAIN outbox
        BY <3>1, <3>2
      <4>. QED
        BY <2>2, <3>1, <3>3, <4>1 DEF PipelineInv, Forwarded
    <3>4. CASE ~(j <= delivered)
      BY <3>1, <3>2, <3>4
    <3>. QED
      BY <3>3, <3>4
  <2>. QED
    BY <1>1, <2>1, <2>2, <2>3, <2>4 DEF OrderInv, RelayOrdered, Behind
<1>6. CASE Ack
  <2>1. /\ relay.unsent = {} /\ UNCHANGED <<outbox, log>>
        /\ pending' = pending \ relay.batch
        /\ relay' = [relay EXCEPT !.mine = @ \ relay.batch, !.batch = {}]
    BY <1>6 DEF Ack
  <2>2. /\ relay'.at = relay.at /\ relay'.mine = relay.mine \ relay.batch
        /\ relay'.batch = {} /\ relay'.unsent = {}
    BY <2>1 DEF PipelineInv, TypeOK
  <2>. QED
    BY <1>1, <2>1, <2>2 DEF OrderInv, RelayOrdered
<1>. QED
  BY <1>2, <1>3, <1>4, <1>5, <1>6, OrderProduce DEF RelayStep

\* Every step keeps the order.
LEMMA OrderStep ==
  ASSUME PipelineInv, OrderInv, [Next]_vars
  PROVE  OrderInv'
<1>1. ASSUME UNCHANGED <<outbox, pending, relay, log>>  PROVE OrderInv'
  BY <1>1 DEF OrderInv, RelayOrdered, Behind, InKafka, PartitionOrder
<1>2. CASE WorkerStep \/ WorkerStops \/ FetchFails
  BY <1>1, <1>2 DEF WorkerStep, WorkerStarts, Fetch, WriteBatch, CommitOffsets, WorkerStops,
                    FetchFails, group
<1>3. CASE UNCHANGED vars
  BY <1>1, <1>3 DEF vars, group
<1>. QED
  BY <1>2, <1>3, OrderRoom, OrderRelay DEF Next

(***************************************************************************)
(* Each partition carries the room's entries in the order of the outbox,   *)
(* for every batch size and however often the relay dies in the middle of  *)
(* a batch and its successor sends the batch again: only repetitions stand *)
(* out of order.                                                           *)
(***************************************************************************)
THEOREM PartitionOrderCorrect == Spec => []PartitionOrder
<1>1. OrderInv => PartitionOrder
  BY DEF OrderInv
<1>2. PipelineInv /\ OrderInv /\ [Next]_vars => OrderInv'
  BY OrderStep
<1>. QED
  BY <1>1, <1>2, OrderInit, PipelineInvariant, PTL DEF Spec

-----------------------------------------------------------------------------
(***************************************************************************)
(* Redelivery never shows: whatever the relay and the worker repeat, the   *)
(* ledger behaves as if every entry were recorded at most once, and only   *)
(* after it was in the outbox.                                             *)
(***************************************************************************)
LEMMA PromiseInit == Init => Promise!Init
BY DEF Init, Room!Init, Promise!Init

\* A step of the room grows the outbox.
LEMMA PromiseGrows ==
  ASSUME PipelineInv, RoomStep
  PROVE  Promise!Grow \/ UNCHANGED <<outbox, rows>>
<1>1. CASE outbox' = outbox
  BY <1>1 DEF RoomStep
<1>2. ASSUME NEW e, outbox' = Append(outbox, e)  PROVE Promise!Grow
  <2>1. PICK S : outbox \in Seq(S)
    BY DEF PipelineInv, StreamOK, IsStream
  <2>. DEFINE T == S \cup {e}
  <2>2. outbox \in Seq(T) /\ e \in T
    BY <2>1
  <2>3. Len(outbox') = Len(outbox) + 1 /\ outbox = SubSeq(outbox', 1, Len(outbox))
    BY <1>2, <2>2
  <2>. QED
    BY <2>3 DEF RoomStep, Promise!Grow
<1>. QED
  BY <1>1, <1>2, RoomAppends DEF PipelineInv, RoomStep

\* A batch records those of its entries that have no row.
LEMMA PromiseRecords ==
  ASSUME PipelineInv, WriteBatch
  PROVE  Promise!Record
<1>. DEFINE S == {i \in {Entry(m) : m \in worker.got} : rows[Key(outbox[i])] = 0}
<1>1. S \in SUBSET {i \in DOMAIN outbox : rows[Key(outbox[i])] = 0}
  BY BatchFacts
<1>2. ASSUME NEW k \in EventKeys
      PROVE  (rows[k] = 0 /\ \E m \in worker.got : Key(outbox[Entry(m)]) = k)
               <=> \E i \in S : Key(outbox[i]) = k
  OBVIOUS
<1>. HIDE DEF S
<1>3. rows' = [k \in EventKeys |-> IF \E i \in S : Key(outbox[i]) = k THEN 1 ELSE rows[k]]
  <2>1. rows' = Insert(worker.got)
    BY DEF WriteBatch
  <2>. QED
    BY <2>1, <1>2 DEF Insert
<1>. QED
  BY <1>1, <1>3 DEF WriteBatch, Promise!Record

\* Pipeline implements ExactlyOnce.
THEOREM ExactlyOnceCorrect == Spec => ImplementsExactlyOnce
<1>1. PipelineInv /\ [Next]_vars
        => [Promise!Grow \/ Promise!Record]_<<outbox, rows>>
  <2>. SUFFICES ASSUME PipelineInv, [Next]_vars
                PROVE  Promise!Grow \/ Promise!Record \/ UNCHANGED <<outbox, rows>>
    OBVIOUS
  <2>1. CASE RoomStep
    BY <2>1, PromiseGrows
  <2>2. CASE WriteBatch
    BY <2>2, PromiseRecords
  <2>3. CASE RelayStep \/ RelayStops
    BY <2>3 DEF RelayStep, RelayStarts, ClaimOrphans, Recover, ReadNew, Produce, Ack, RelayStops
  <2>4. CASE WorkerStarts \/ (\E p \in Topics : Fetch(p)) \/ CommitOffsets \/ WorkerStops
               \/ FetchFails
    BY <2>4 DEF WorkerStarts, Fetch, CommitOffsets, WorkerStops, FetchFails
  <2>5. CASE UNCHANGED vars
    BY <2>5 DEF vars
  <2>. QED
    BY <2>1, <2>2, <2>3, <2>4, <2>5 DEF Next, WorkerStep
<1>. QED
  BY <1>1, PromiseInit, PipelineInvariant, PTL DEF Spec, ImplementsExactlyOnce, Promise!Spec

\* What the ledger holds.
RowsHaveEntries == \A k \in EventKeys : rows[k] > 0 => \E i \in DOMAIN outbox : KeyOf(i) = k

(***************************************************************************)
(* The ledger invents nothing: whatever is redelivered, a transaction      *)
(* stands for an event that is in the outbox under its key.                *)
(***************************************************************************)
THEOREM NothingInvented == Spec => []RowsHaveEntries
<1>1. Init => RowsHaveEntries
  BY DEF Init, RowsHaveEntries
<1>2. PipelineInv /\ RowsHaveEntries /\ [Next]_vars => RowsHaveEntries'
  <2>. SUFFICES ASSUME PipelineInv, RowsHaveEntries, [Next]_vars,
                       NEW k \in EventKeys, rows'[k] > 0
                PROVE  \E i \in DOMAIN outbox' : Key(outbox'[i]) = k
    BY DEF RowsHaveEntries, KeyOf
  <2>1. CASE UNCHANGED <<outbox, rows>>
    BY <2>1 DEF RowsHaveEntries, KeyOf
  <2>2. CASE RoomStep
    <3>1. PICK i \in DOMAIN outbox : Key(outbox[i]) = k
      BY <2>2 DEF RoomStep, RowsHaveEntries, KeyOf
    <3>2. i \in DOMAIN outbox' /\ outbox'[i] = outbox[i]
      BY <2>2, OutboxKept DEF RoomStep, PipelineInv
    <3>. QED
      BY <3>1, <3>2
  <2>3. CASE WriteBatch
    <3>1. CASE rows[k] > 0
      BY <2>3, <3>1 DEF WriteBatch, RowsHaveEntries, KeyOf
    <3>2. CASE \E m \in worker.got : Key(outbox[Entry(m)]) = k
      BY <2>3, <3>2, BatchFacts DEF WriteBatch
    <3>. QED
      BY <2>3, <3>1, <3>2 DEF WriteBatch, Insert
  <2>4. CASE RelayStep \/ RelayStops
    BY <2>1, <2>4 DEF RelayStep, RelayStarts, ClaimOrphans, Recover, ReadNew, Produce, Ack,
                      RelayStops
  <2>5. CASE WorkerStarts \/ (\E p \in Topics : Fetch(p)) \/ CommitOffsets \/ WorkerStops
               \/ FetchFails
    BY <2>1, <2>5 DEF WorkerStarts, Fetch, CommitOffsets, WorkerStops, FetchFails
  <2>. QED
    BY <2>1, <2>2, <2>3, <2>4, <2>5 DEF Next, WorkerStep, vars
<1>. QED
  BY <1>1, <1>2, PipelineInvariant, PTL DEF Spec

-----------------------------------------------------------------------------
(***************************************************************************)
(* The reconciliation.  Its identities need no hypothesis once they are    *)
(* stated of the outbox: every entry moves the wallets, the pool and the   *)
(* dust of its transaction, so the outbox is the history of the room's     *)
(* money, step by step.  The ledger posts each entry at most once.         *)
(***************************************************************************)
\* The types of the room, who has joined, and what an unopened round holds.
RoomOK ==
  /\ status \in [RoundIDs -> Statuses]
  /\ wagers \in [RoundIDs -> Wagers]
  /\ wallets \in [Users -> Nat \cup {None}]
  /\ opening \in [Users -> Nat \cup {None}]
  /\ \A u \in Users : wallets[u] = None <=> opening[u] = None
  /\ \A r \in RoundIDs : \A u \in Bettors(wagers[r]) : wallets[u] # None
  /\ \A r \in RoundIDs : status[r] = "none" => wagers[r] = NoWagers

\* The transaction of an event is one the ledger accepts.
Sound(e) ==
  /\ TransactionFor(e).wallet \in [Users -> Int]
  /\ TransactionFor(e).pool \in Int
  /\ Balanced(e)

\* Every entry of the outbox is such an event.
EntriesSound == \A i \in DOMAIN outbox : Sound(outbox[i])

\* What the entries of the outbox move in the wallet of u,
Moved(u) ==
  SumFunctionOnSet([i \in DOMAIN outbox |-> TransactionFor(outbox[i]).wallet[u]], DOMAIN outbox)

\* and in the pools.
PoolMoved ==
  SumFunctionOnSet([i \in DOMAIN outbox |-> TransactionFor(outbox[i]).pool], DOMAIN outbox)

\* The rounds that hold stakes,
Held == {r \in RoundIDs : status[r] \in Live}

\* and what they hold.
InPools == SumFunctionOnSet([r \in RoundIDs |-> TotalStaked(wagers[r])], Held)

\* What the outbox says of a wallet is what happened to it since its player joined.
WalletsAddUp ==
  \A u \in Users : Moved(u) = IF wallets[u] = None THEN 0 ELSE wallets[u] - opening[u]

\* The outbox is the history of the room's money.
RoomInv == RoomOK /\ EntriesSound /\ WalletsAddUp /\ PoolMoved = InPools

\* A key has at most one row.
RowsOnce == \A k \in EventKeys : rows[k] \in {0, 1}

\* The room's own copies of the settlement arithmetic are the settlement arithmetic.
LEMMA SameSum ==
  /\ \A f, S : Room!SumFunctionOnSet(f, S) = SumFunctionOnSet(f, S)
  /\ \A f : Room!SumFunction(f) = SumFunction(f)
BY Zenon DEF SumFunction, Room!SumFunction, SumFunctionOnSet, Room!SumFunctionOnSet,
   FoldFunctionOnSet, Room!FoldFunctionOnSet, MapThenFoldSet, Room!MapThenFoldSet

\* Nor does it matter whose copy picks the stakes,
LEMMA SameStakes ==
  /\ Room!Fields = Fields
  /\ \A w : Room!Stakes(w) = Stakes(w)
  /\ \A w, u : Room!StakesOf(w, u) = StakesOf(w, u)
BY DEF Fields, Room!Fields, Stakes, Room!Stakes, StakesOf, Room!StakesOf

\* works out the payouts,
LEMMA SameSettlement ==
  /\ \A w : Room!TotalStaked(w) = TotalStaked(w)
  /\ \A w, win : Room!IsRefund(w, win) = IsRefund(w, win)
  /\ \A w, win : Room!Dust(w, win) = Dust(w, win)
  /\ \A w, win : Room!Credits(w, win) = Credits(w, win)
  /\ \A w : Room!AggregateStakes(w) = AggregateStakes(w)
<1>1. ASSUME NEW w PROVE Room!TotalStaked(w) = TotalStaked(w)
  BY SameSum, SameStakes DEF TotalStaked, Room!TotalStaked
<1>2. ASSUME NEW w, NEW win PROVE Room!WinningPool(w, win) = WinningPool(w, win)
  BY SameSum, SameStakes DEF WinningPool, Room!WinningPool
<1>3. ASSUME NEW w, NEW win PROVE Room!IsRefund(w, win) = IsRefund(w, win)
  BY <1>2 DEF IsRefund, Room!IsRefund
<1>4. ASSUME NEW w, NEW win PROVE Room!Payouts(w, win) = Payouts(w, win)
  BY <1>1, <1>2, <1>3, SameStakes
     DEF Payouts, Room!Payouts, WinnerPayout, Room!WinnerPayout
<1>5. ASSUME NEW w, NEW win PROVE Room!Dust(w, win) = Dust(w, win)
  BY <1>1, <1>4, SameSum DEF Dust, Room!Dust, Paid, Room!Paid
<1>6. ASSUME NEW w, NEW win PROVE Room!Credits(w, win) = Credits(w, win)
  BY <1>4, SameSum DEF Credits, Room!Credits
<1>7. ASSUME NEW w PROVE Room!AggregateStakes(w) = AggregateStakes(w)
  BY SameSum, SameStakes DEF AggregateStakes, Room!AggregateStakes
<1>. QED
  BY <1>1, <1>3, <1>5, <1>6, <1>7

\* or writes them.
LEMMA SameCredit ==
  /\ \A hash, credits : Room!HIncrBy(hash, credits) = HIncrBy(hash, credits)
  /\ \A u, r, o, a, k : Room!WagerEvent(u, r, o, a, k) = WagerEvent(u, r, o, a, k)
  /\ \A t, r, win, n, d, c : Room!SettlementEvent(t, r, win, n, d, c)
                               = SettlementEvent(t, r, win, n, d, c)
  /\ \A e : Room!IsWager(e) = IsWager(e)
BY DEF HIncrBy, Room!HIncrBy, WagerEvent, Room!WagerEvent, SettlementEvent,
       Room!SettlementEvent, IsWager, Room!IsWager

-----------------------------------------------------------------------------
\* What a step of the room does, with the credits and the dust of a round it ends.
RoomJoins ==
  \E u \in Users, b \in Grants :
    /\ wallets' = [wallets EXCEPT ![u] = IF @ = None THEN b ELSE @]
    /\ opening' = [opening EXCEPT ![u] = IF @ = None THEN b ELSE @]
    /\ UNCHANGED <<status, wagers, outbox>>

\* A round opens or locks.
RoomMoves ==
  \E r \in RoundIDs :
    /\ \/ status[r] = "none" /\ status' = [status EXCEPT ![r] = "open"]
       \/ status[r] = "open" /\ status' = [status EXCEPT ![r] = "locked"]
    /\ UNCHANGED <<wagers, wallets, opening, outbox>>

\* A stake moves from a wallet into an open round.
RoomTakes(u, r, o, a, k) ==
  /\ status[r] = "open"
  /\ wallets[u] # None
  /\ wallets[u] >= a
  /\ wallets' = [wallets EXCEPT ![u] = @ - a]
  /\ wagers' = [wagers EXCEPT ![r][<<u, o>>] = @ + a]
  /\ outbox' = Append(outbox, WagerEvent(u, r, o, a, k))
  /\ UNCHANGED <<status, opening>>

\* A locked round is shared out.
RoomEnds(r, t, type, win, credits, dust) ==
  /\ status[r] = "locked"
  /\ t \in Terminal
  /\ type # "wager_placed"
  /\ SharesOut(wagers[r], credits, dust)
  /\ status' = [status EXCEPT ![r] = t]
  /\ wallets' = HIncrBy(wallets, credits)
  /\ outbox' = Append(outbox,
                      SettlementEvent(type, r, win, TotalStaked(wagers[r]), dust, credits))
  /\ UNCHANGED <<wagers, opening>>

\* Every step of the room is one of these.
LEMMA RoomDoes ==
  ASSUME RoomOK, Room!Next
  PROVE  \/ RoomJoins
         \/ RoomMoves
         \/ \E u \in Users, r \in RoundIDs, o \in Outcomes, a \in Amounts, k \in Keys :
              RoomTakes(u, r, o, a, k)
         \/ \E r \in RoundIDs : \E t, type, win, credits, dust :
              RoomEnds(r, t, type, win, credits, dust)
<1>1. ASSUME NEW u \in Users, NEW b \in Grants, Room!Join(u, b)  PROVE RoomJoins
  BY <1>1 DEF Room!Join, RoomJoins
<1>2. ASSUME NEW r \in RoundIDs, Room!Open(r) \/ Room!Lock(r)  PROVE RoomMoves
  BY <1>2 DEF Room!Open, Room!Lock, RoomMoves
<1>3. ASSUME NEW u \in Users, NEW r \in RoundIDs, NEW o \in Outcomes, NEW a \in Amounts,
             NEW k \in Keys, Room!Bet(u, r, o, a, k)
      PROVE  RoomTakes(u, r, o, a, k)
  BY <1>3, SameCredit DEF Room!Bet, RoomTakes
<1>4. ASSUME NEW r \in RoundIDs, NEW win \in Outcomes, Room!Settle(r, win)
      PROVE  \E t, type, win2, credits, dust : RoomEnds(r, t, type, win2, credits, dust)
  <2>. DEFINE w == wagers[r]
              refund == IsRefund(w, win)
              t == IF refund THEN "refunded" ELSE "resolved"
              type == IF refund THEN "round_refunded" ELSE "round_settled"
              win2 == IF refund THEN None ELSE win
  <2>1. /\ status[r] = "locked"
        /\ status' = [status EXCEPT ![r] = t]
        /\ wallets' = HIncrBy(wallets, Credits(w, win))
        /\ outbox' = Append(outbox, SettlementEvent(type, r, win2, TotalStaked(w),
                                                    Dust(w, win), Credits(w, win)))
        /\ UNCHANGED <<wagers, opening>>
    BY <1>4, SameCredit, SameSettlement DEF Room!Settle
  <2>2. SharesOut(w, Credits(w, win), Dust(w, win))
    BY SettleSharesOut DEF RoomOK
  <2>3. t \in Terminal /\ type # "wager_placed"
    BY DEF Terminal
  <2>. HIDE DEF t, type, win2
  <2>4. RoomEnds(r, t, type, win2, Credits(w, win), Dust(w, win))
    BY <2>1, <2>2, <2>3 DEF RoomEnds
  <2>. QED
    BY <2>4
<1>5. ASSUME NEW r \in RoundIDs, Room!Refund(r)
      PROVE  \E t, type, win, credits, dust : RoomEnds(r, t, type, win, credits, dust)
  <2>. DEFINE w == wagers[r]
  <2>1. /\ status[r] = "locked"
        /\ status' = [status EXCEPT ![r] = "refunded"]
        /\ wallets' = HIncrBy(wallets, AggregateStakes(w))
        /\ outbox' = Append(outbox, SettlementEvent("round_refunded", r, None, TotalStaked(w),
                                                    0, AggregateStakes(w)))
        /\ UNCHANGED <<wagers, opening>>
    BY <1>5, SameCredit, SameSettlement DEF Room!Refund
  <2>2. SharesOut(w, AggregateStakes(w), 0)
    BY RefundSharesOut DEF RoomOK
  <2>3. RoomEnds(r, "refunded", "round_refunded", None, AggregateStakes(w), 0)
    BY <2>1, <2>2 DEF RoomEnds, Terminal
  <2>. QED
    BY <2>3
<1>. QED
  BY <1>1, <1>2, <1>3, <1>4, <1>5 DEF Room!Next

\* A sum with one term.
LEMMA SumOneUser ==
  ASSUME NEW u \in Users, NEW c \in Int
  PROVE  SumFunction([v \in Users |-> IF v = u THEN c ELSE 0]) = c
<1>. DEFINE f == [v \in Users |-> IF v = u THEN c ELSE 0]
            z == [v \in Users |-> 0]
<1>1. SumFunctionOnSet(z, Users) = 0
  BY FiniteBoard, SumZeros
<1>2. SumFunctionOnSet(f, Users) = SumFunctionOnSet(z, Users) + (f[u] - z[u])
  <2>1. \A v \in Users : z[v] \in Int /\ f[v] \in Int
    OBVIOUS
  <2>2. \A v \in Users \ {u} : f[v] = z[v]
    OBVIOUS
  <2>. HIDE DEF f, z
  <2>. QED
    BY <2>1, <2>2, FiniteBoard, SumChange
<1>3. f[u] = c /\ z[u] = 0 /\ DOMAIN f = Users
  OBVIOUS
<1>. HIDE DEF f, z
<1>. QED
  BY <1>1, <1>2, <1>3, SumDomain DEF f

\* A wager debits the wallet what it credits the pool.
LEMMA WagerSound ==
  ASSUME NEW u \in Users, NEW r, NEW o, NEW a \in Nat, NEW k,
         NEW e, e = WagerEvent(u, r, o, a, k)
  PROVE  /\ Sound(e)
         /\ \A v \in Users : TransactionFor(e).wallet[v] = IF v = u THEN -a ELSE 0
         /\ TransactionFor(e).pool = a
<1>. DEFINE f == [v \in Users |-> IF v = u THEN -a ELSE 0]
<1>1. TransactionFor(e) = [wallet |-> f, pool |-> a, dust |-> 0]
  BY DEF TransactionFor, WagerEvent, IsWager
<1>2. SumFunction(f) = -a
  BY SumOneUser
<1>3. f \in [Users -> Int] /\ \A v \in Users : f[v] = IF v = u THEN -a ELSE 0
  OBVIOUS
<1>. HIDE DEF f
<1>4. Balanced(e)
  BY <1>1, <1>2 DEF Balanced
<1>. QED
  BY <1>1, <1>3, <1>4 DEF Sound

\* A settlement debits the pool what it credits the wallets and the dust.
LEMMA EndingSound ==
  ASSUME NEW w \in Wagers, NEW type, type # "wager_placed", NEW r, NEW win,
         NEW credits, NEW dust, SharesOut(w, credits, dust),
         NEW e, e = SettlementEvent(type, r, win, TotalStaked(w), dust, credits)
  PROVE  /\ Sound(e)
         /\ TransactionFor(e).wallet = credits
         /\ TransactionFor(e).pool = -TotalStaked(w)
<1>1. TransactionFor(e) = [wallet |-> credits, pool |-> -TotalStaked(w), dust |-> dust]
  BY DEF TransactionFor, SettlementEvent, IsWager
<1>2. /\ credits \in [Users -> Int] /\ dust \in Nat /\ TotalStaked(w) \in Nat
      /\ SumFunction(credits) + dust = TotalStaked(w)
  BY TotalStakedNat DEF SharesOut
<1>3. SumFunction(credits) \in Int
  <2>1. DOMAIN credits = Users /\ \A v \in Users : credits[v] \in Int
    BY <1>2
  <2>. QED
    BY <2>1, SumDomain, SumInt, FiniteBoard
<1>4. Balanced(e)
  BY <1>1, <1>2, <1>3 DEF Balanced
<1>. QED
  BY <1>1, <1>2, <1>4 DEF Sound

\* A sum along a sequence that gets one more element.
LEMMA SumAppended ==
  ASSUME NEW n \in Nat, NEW f, NEW g,
         \A i \in 1..n : f[i] \in Int /\ g[i] = f[i],
         g[n + 1] \in Int
  PROVE  /\ SumFunctionOnSet(f, 1..n) \in Int
         /\ SumFunctionOnSet(g, 1..(n + 1)) = SumFunctionOnSet(f, 1..n) + g[n + 1]
<1>. DEFINE S == 1..n
            e == n + 1
<1>1. e \notin S /\ IsFiniteSet(S) /\ S \cup {e} = 1..(n + 1)
  <2>1. IsFiniteSet(S)
    BY FS_Interval
  <2>2. e \notin S
    OBVIOUS
  <2>3. S \cup {e} = 1..(n + 1)
    OBVIOUS
  <2>. QED
    BY <2>1, <2>2, <2>3
<1>2. g[e] \in Int /\ \A i \in S : f[i] \in Int /\ g[i] = f[i]
  OBVIOUS
<1>. HIDE DEF S, e
<1>3. SumFunctionOnSet(g, S \cup {e}) = SumFunctionOnSet(f, S) + g[e]
  BY <1>1, <1>2, SumAdd
<1>4. SumFunctionOnSet(f, S) \in Int
  BY <1>1, <1>2, SumInt
<1>. QED
  BY <1>1, <1>3, <1>4 DEF S, e

\* An entry adds its transaction to what the outbox has moved.
LEMMA EntryMoves ==
  ASSUME StreamOK, EntriesSound, NEW e, Sound(e), outbox' = Append(outbox, e)
  PROVE  /\ EntriesSound'
         /\ \A u \in Users : Moved(u) \in Int /\ Moved(u)' = Moved(u) + TransactionFor(e).wallet[u]
         /\ PoolMoved \in Int /\ PoolMoved' = PoolMoved + TransactionFor(e).pool
<1>. DEFINE n == Len(outbox)
<1>1. /\ n \in Nat /\ DOMAIN outbox = 1..n /\ DOMAIN outbox' = 1..(n + 1)
      /\ \A i \in 1..n : outbox'[i] = outbox[i]
      /\ outbox'[n + 1] = e
  BY AppendToStream DEF StreamOK
<1>2. EntriesSound'
  <2>. SUFFICES ASSUME NEW i \in 1..(n + 1)  PROVE Sound(outbox'[i])
    BY <1>1 DEF EntriesSound, Sound, Balanced, TransactionFor, IsWager
  <2>. QED
    BY <1>1 DEF EntriesSound
<1>3. ASSUME NEW u \in Users
      PROVE  Moved(u) \in Int /\ Moved(u)' = Moved(u) + TransactionFor(e).wallet[u]
  <2>. DEFINE f == [i \in DOMAIN outbox |-> TransactionFor(outbox[i]).wallet[u]]
              g == [i \in DOMAIN outbox' |-> TransactionFor(outbox'[i]).wallet[u]]
  <2>1. \A i \in 1..n : f[i] \in Int /\ g[i] = f[i]
    BY <1>1 DEF EntriesSound, Sound
  <2>2. g[n + 1] = TransactionFor(e).wallet[u] /\ g[n + 1] \in Int
    BY <1>1 DEF Sound
  <2>3. Moved(u) = SumFunctionOnSet(f, 1..n) /\ Moved(u)' = SumFunctionOnSet(g, 1..(n + 1))
    BY <1>1 DEF Moved
  <2>. HIDE DEF f, g
  <2>4. n \in Nat
    BY <1>1
  <2>. HIDE DEF n
  <2>. QED
    BY <2>1, <2>2, <2>3, <2>4, SumAppended
<1>4. PoolMoved \in Int /\ PoolMoved' = PoolMoved + TransactionFor(e).pool
  <2>. DEFINE f == [i \in DOMAIN outbox |-> TransactionFor(outbox[i]).pool]
              g == [i \in DOMAIN outbox' |-> TransactionFor(outbox'[i]).pool]
  <2>1. \A i \in 1..n : f[i] \in Int /\ g[i] = f[i]
    BY <1>1 DEF EntriesSound, Sound
  <2>2. g[n + 1] = TransactionFor(e).pool /\ g[n + 1] \in Int
    BY <1>1 DEF Sound
  <2>3. PoolMoved = SumFunctionOnSet(f, 1..n) /\ PoolMoved' = SumFunctionOnSet(g, 1..(n + 1))
    BY <1>1 DEF PoolMoved
  <2>. HIDE DEF f, g
  <2>. QED
    BY <1>1, <2>1, <2>2, <2>3, SumAppended
<1>. QED
  BY <1>2, <1>3, <1>4

\* Without an entry the outbox has moved what it had.
LEMMA NothingMoves ==
  ASSUME outbox' = outbox, EntriesSound
  PROVE  EntriesSound' /\ (\A u \in Users : Moved(u)' = Moved(u)) /\ PoolMoved' = PoolMoved
BY DEF EntriesSound, Moved, PoolMoved

\* What the rounds still running hold is a sum of naturals over finitely many rounds.
LEMMA HeldFacts ==
  ASSUME RoomOK
  PROVE  /\ IsFiniteSet(Held)
         /\ \A r \in RoundIDs : TotalStaked(wagers[r]) \in Nat
         /\ InPools \in Int
<1>1. IsFiniteSet(Held)
  BY PipelineAssumption, FS_Subset DEF Held
<1>2. \A r \in RoundIDs : TotalStaked(wagers[r]) \in Nat
  BY TotalStakedNat DEF RoomOK
<1>. DEFINE f == [r \in RoundIDs |-> TotalStaked(wagers[r])]
<1>3. \A r \in Held : f[r] \in Int
  BY <1>2 DEF Held
<1>. HIDE DEF f
<1>4. SumFunctionOnSet(f, Held) \in Int
  BY <1>1, <1>3, SumInt
<1>. QED
  BY <1>1, <1>2, <1>4 DEF InPools, f

\* A join opens a wallet that no entry mentions yet.
LEMMA RoomJoinsInv ==
  ASSUME RoomInv, RoomJoins
  PROVE  RoomInv'
<1>1. PICK u \in Users, b \in Grants :
        /\ wallets' = [wallets EXCEPT ![u] = IF @ = None THEN b ELSE @]
        /\ opening' = [opening EXCEPT ![u] = IF @ = None THEN b ELSE @]
        /\ UNCHANGED <<status, wagers, outbox>>
  BY DEF RoomJoins
<1>2. b \in Nat /\ b # None
  BY PipelineAssumption
<1>3. /\ wallets' \in [Users -> Nat \cup {None}] /\ opening' \in [Users -> Nat \cup {None}]
      /\ \A v \in Users : /\ wallets[v] # None => wallets'[v] = wallets[v] /\ opening'[v] = opening[v]
                          /\ wallets'[v] = None <=> opening'[v] = None
                          /\ wallets[v] = None =>
                               wallets'[v] = None \/ (wallets'[v] \in Nat /\ wallets'[v] = opening'[v])
  BY <1>1, <1>2 DEF RoomInv, RoomOK
<1>4. \A r \in RoundIDs : Bettors(wagers[r]) \subseteq Users
  BY OnlyBettorsCount DEF RoomInv, RoomOK
<1>5. RoomOK'
  BY <1>1, <1>3, <1>4 DEF RoomInv, RoomOK
<1>6. EntriesSound' /\ (\A v \in Users : Moved(v)' = Moved(v)) /\ PoolMoved' = PoolMoved
  BY <1>1, NothingMoves DEF RoomInv
<1>7. WalletsAddUp'
  <2>. SUFFICES ASSUME NEW v \in Users
                PROVE  Moved(v)' = IF wallets'[v] = None THEN 0 ELSE wallets'[v] - opening'[v]
    BY DEF WalletsAddUp
  <2>1. Moved(v)' = IF wallets[v] = None THEN 0 ELSE wallets[v] - opening[v]
    BY <1>6 DEF RoomInv, WalletsAddUp
  <2>2. CASE wallets[v] = None
    BY <1>3, <2>1, <2>2
  <2>3. CASE wallets[v] # None
    BY <1>3, <2>1, <2>3
  <2>. QED
    BY <2>2, <2>3
<1>8. InPools' = InPools
  BY <1>1 DEF InPools, Held
<1>. QED
  BY <1>5, <1>6, <1>7, <1>8 DEF RoomInv

\* A round that opens holds nothing, and one that locks keeps what it holds.
LEMMA RoomMovesInv ==
  ASSUME RoomInv, RoomMoves
  PROVE  RoomInv'
<1>1. PICK r \in RoundIDs :
        /\ \/ status[r] = "none" /\ status' = [status EXCEPT ![r] = "open"]
           \/ status[r] = "open" /\ status' = [status EXCEPT ![r] = "locked"]
        /\ UNCHANGED <<wagers, wallets, opening, outbox>>
  BY DEF RoomMoves
<1>2. RoomOK'
  BY <1>1 DEF RoomInv, RoomOK, Statuses
<1>3. EntriesSound' /\ (\A v \in Users : Moved(v)' = Moved(v)) /\ PoolMoved' = PoolMoved
  BY <1>1, NothingMoves DEF RoomInv
<1>4. WalletsAddUp'
  BY <1>1, <1>3 DEF RoomInv, WalletsAddUp
<1>5. InPools' = InPools
  <2>. DEFINE f == [s \in RoundIDs |-> TotalStaked(wagers[s])]
  <2>1. InPools = SumFunctionOnSet(f, Held) /\ InPools' = SumFunctionOnSet(f, Held')
    BY <1>1 DEF InPools
  <2>2. CASE status[r] = "open"
    <3>1. Held' = Held
      BY <1>1, <2>2 DEF Held, Live, RoomInv, RoomOK
    <3>. QED
      BY <2>1, <3>1
  <2>3. CASE status[r] = "none"
    <3>1. Held' = Held \cup {r} /\ r \notin Held
      BY <1>1, <2>3 DEF Held, Live, RoomInv, RoomOK
    <3>2. f[r] = 0
      BY <2>3, TotalOfNone DEF RoomInv, RoomOK
    <3>3. IsFiniteSet(Held) /\ \A s \in Held : f[s] \in Int
      BY HeldFacts DEF Held, RoomInv
    <3>. HIDE DEF f
    <3>4. SumFunctionOnSet(f, Held \cup {r}) = SumFunctionOnSet(f, Held) + f[r]
      BY <3>1, <3>2, <3>3, SumAdd
    <3>5. SumFunctionOnSet(f, Held) \in Int
      BY <3>3, SumInt
    <3>. QED
      BY <2>1, <3>1, <3>2, <3>4, <3>5
  <2>. QED
    BY <1>1, <2>2, <2>3
<1>. QED
  BY <1>2, <1>3, <1>4, <1>5 DEF RoomInv

\* A wager's entry says what left the wallet and went into the pool.
LEMMA RoomTakesInv ==
  ASSUME StreamOK, RoomInv, NEW u \in Users, NEW r \in RoundIDs, NEW o \in Outcomes,
         NEW a \in Amounts, NEW k \in Keys, RoomTakes(u, r, o, a, k)
  PROVE  RoomInv'
<1>. DEFINE w == wagers[r]
            v == [w EXCEPT ![<<u, o>>] = w[<<u, o>>] + a]
            e == WagerEvent(u, r, o, a, k)
<1>1. /\ status[r] = "open" /\ wallets[u] # None /\ wallets[u] >= a
      /\ wallets' = [wallets EXCEPT ![u] = @ - a]
      /\ outbox' = Append(outbox, e)
      /\ UNCHANGED <<status, opening>>
      /\ a \in Nat \ {0} /\ None \notin Nat
  BY PipelineAssumption DEF RoomTakes
<1>2. /\ w \in Wagers /\ wagers \in [RoundIDs -> Wagers]
      /\ wagers' = [wagers EXCEPT ![r] = v]
  BY DEF RoomTakes, RoomInv, RoomOK
<1>3. v \in Wagers /\ Bettors(v) = Bettors(w) \cup {u} /\ TotalStaked(v) = TotalStaked(w) + a
  <2>1. v \in Wagers /\ Bettors(v) = Bettors(w) \cup {u}
    <3>. HIDE DEF w
    <3>. QED
      BY <1>1, <1>2, BettorsOfMore
  <2>2. TotalStaked(v) = TotalStaked(w) + a
    <3>1. a \in Nat
      BY <1>1
    <3>. HIDE DEF w
    <3>. QED
      BY <1>2, <3>1, TotalOfMore
  <2>. QED
    BY <2>1, <2>2
<1>. HIDE DEF v
<1>4. wagers' \in [RoundIDs -> Wagers] /\ wagers'[r] = v
      /\ \A s \in RoundIDs \ {r} : wagers'[s] = wagers[s]
  BY <1>2, <1>3
<1>5. /\ wallets' \in [Users -> Nat \cup {None}] /\ wallets'[u] = wallets[u] - a
      /\ \A x \in Users : wallets'[x] = None <=> wallets[x] = None
      /\ \A x \in Users \ {u} : wallets'[x] = wallets[x]
      /\ wallets[u] \in Nat /\ opening[u] \in Nat
  BY <1>1 DEF RoomInv, RoomOK
<1>6. RoomOK'
  <2>1. \A s \in RoundIDs : Bettors(wagers[s]) \subseteq Users
    BY OnlyBettorsCount DEF RoomInv, RoomOK
  <2>2. status' \in [RoundIDs -> Statuses] /\ opening' \in [Users -> Nat \cup {None}]
    BY <1>1 DEF RoomInv, RoomOK
  <2>3. \A x \in Users : wallets'[x] = None <=> opening'[x] = None
    BY <1>1, <1>5 DEF RoomInv, RoomOK
  <2>4. ASSUME NEW s \in RoundIDs, NEW x \in Bettors(wagers'[s])  PROVE wallets'[x] # None
    <3>1. x \in Users /\ wallets[x] # None
      <4>1. s # r => x \in Bettors(wagers[s])
        BY <1>4, <2>4
      <4>2. s = r => x \in Bettors(wagers[s]) \cup {u}
        BY <1>3, <1>4, <2>4
      <4>. QED
        BY <1>1, <2>1, <4>1, <4>2 DEF RoomInv, RoomOK
    <3>. QED
      BY <1>5, <3>1
  <2>5. ASSUME NEW s \in RoundIDs, status'[s] = "none"  PROVE wagers'[s] = NoWagers
    BY <1>1, <1>4, <2>5 DEF RoomInv, RoomOK
  <2>6. wagers' \in [RoundIDs -> Wagers] /\ wallets' \in [Users -> Nat \cup {None}]
    BY <1>4, <1>5
  <2>7. \A s \in RoundIDs : \A x \in Bettors(wagers'[s]) : wallets'[x] # None
    BY <2>4
  <2>8. \A s \in RoundIDs : status'[s] = "none" => wagers'[s] = NoWagers
    BY <2>5
  <2>. QED
    BY <2>2, <2>3, <2>6, <2>7, <2>8 DEF RoomOK
<1>7. /\ Sound(e)
      /\ \A x \in Users : TransactionFor(e).wallet[x] = IF x = u THEN -a ELSE 0
      /\ TransactionFor(e).pool = a
  <2>1. a \in Nat
    BY <1>1
  <2>. QED
    BY <2>1, WagerSound
<1>. HIDE DEF e
<1>8. /\ EntriesSound'
      /\ \A x \in Users : Moved(x) \in Int /\ Moved(x)' = Moved(x) + TransactionFor(e).wallet[x]
      /\ PoolMoved \in Int /\ PoolMoved' = PoolMoved + a
  BY <1>1, <1>7, EntryMoves DEF RoomInv
<1>9. WalletsAddUp'
  <2>. SUFFICES ASSUME NEW x \in Users
                PROVE  Moved(x)' = IF wallets'[x] = None THEN 0 ELSE wallets'[x] - opening'[x]
    BY DEF WalletsAddUp
  <2>1. Moved(x) = (IF wallets[x] = None THEN 0 ELSE wallets[x] - opening[x]) /\ Moved(x) \in Int
    BY <1>8 DEF RoomInv, WalletsAddUp
  <2>2. CASE x = u
    <3>1. Moved(x)' = Moved(x) - a
      BY <1>1, <1>7, <1>8, <2>2
    <3>. QED
      BY <1>1, <1>5, <2>1, <2>2, <3>1
  <2>3. CASE x # u
    <3>1. Moved(x)' = Moved(x)
      BY <1>7, <1>8, <2>3
    <3>. QED
      BY <1>1, <1>5, <2>1, <2>3, <3>1
  <2>. QED
    BY <2>2, <2>3
<1>10. InPools' = InPools + a
  <2>. DEFINE f == [s \in RoundIDs |-> TotalStaked(wagers[s])]
              g == [s \in RoundIDs |-> TotalStaked(wagers'[s])]
  <2>1. /\ \A s \in Held : f[s] \in Int /\ g[s] \in Int
        /\ \A s \in Held \ {r} : g[s] = f[s]
        /\ g[r] = f[r] + a /\ f[r] \in Int
        /\ r \in Held /\ IsFiniteSet(Held)
    BY <1>1, <1>3, <1>4, TotalStakedNat, HeldFacts DEF Held, Live, RoomInv
  <2>2. InPools = SumFunctionOnSet(f, Held) /\ InPools' = SumFunctionOnSet(g, Held)
    BY <1>1 DEF InPools, Held
  <2>. HIDE DEF f, g
  <2>3. SumFunctionOnSet(g, Held) = SumFunctionOnSet(f, Held) + (g[r] - f[r])
    BY <2>1, SumChange
  <2>. QED
    BY <1>1, <2>1, <2>2, <2>3
<1>. QED
  BY <1>6, <1>8, <1>9, <1>10 DEF RoomInv

\* A settlement's entry says what left the pool and went to the wallets and to dust.
LEMMA RoomEndsInv ==
  ASSUME StreamOK, RoomInv, NEW r \in RoundIDs, NEW t, NEW type, NEW win, NEW credits, NEW dust,
         RoomEnds(r, t, type, win, credits, dust)
  PROVE  RoomInv'
<1>. DEFINE w == wagers[r]
            e == SettlementEvent(type, r, win, TotalStaked(w), dust, credits)
<1>1. /\ status[r] = "locked" /\ t \in Terminal /\ type # "wager_placed"
      /\ SharesOut(w, credits, dust)
      /\ status' = [status EXCEPT ![r] = t]
      /\ wallets' = HIncrBy(wallets, credits)
      /\ outbox' = Append(outbox, e)
      /\ UNCHANGED <<wagers, opening>>
  BY DEF RoomEnds
<1>2. /\ w \in Wagers /\ Bettors(w) \subseteq Users /\ \A u \in Bettors(w) : wallets[u] # None
      /\ None \notin Nat /\ credits \in [Users -> Nat] /\ TotalStaked(w) \in Nat
  <2>1. w \in Wagers
    BY DEF RoomInv, RoomOK
  <2>. QED
    BY <1>1, <2>1, OnlyBettorsCount, TotalStakedNat, PipelineAssumption
       DEF RoomInv, RoomOK, SharesOut
<1>3. /\ wallets' \in [Users -> Nat \cup {None}]
      /\ \A u \in Users : wallets'[u] = None <=> wallets[u] = None
      /\ \A u \in Users : wallets[u] # None => wallets'[u] = wallets[u] + credits[u]
      /\ \A u \in Users : wallets[u] = None => credits[u] = 0
  <2>1. wallets \in [Users -> Nat \cup {None}]
    BY DEF RoomInv, RoomOK
  <2>. DEFINE h == HIncrBy(wallets, credits)
  <2>2. /\ h \in [Users -> Nat \cup {None}]
        /\ \A u \in Users : h[u] = None <=> wallets[u] = None
        /\ \A u \in Users : wallets[u] # None => h[u] = wallets[u] + credits[u]
        /\ \A u \in Users : wallets[u] = None => credits[u] = 0
    <3>. HIDE DEF w
    <3>1. Bettors(w) \subseteq Users /\ SharesOut(w, credits, dust)
      BY <1>1, <1>2
    <3>2. None \notin Nat /\ \A u \in Bettors(w) : wallets[u] # None
      BY <1>2
    <3>3. /\ HIncrBy(wallets, credits) \in [Users -> Nat \cup {None}]
          /\ \A u \in Users : HIncrBy(wallets, credits)[u] = None <=> wallets[u] = None
          /\ \A u \in Users : wallets[u] # None =>
               HIncrBy(wallets, credits)[u] = wallets[u] + credits[u]
          /\ \A u \in Users : wallets[u] = None => credits[u] = 0
      BY <2>1, <3>1, <3>2, CreditsAdd
    <3>. QED
      BY <3>3
  <2>. HIDE DEF h
  <2>3. wallets' = h
    BY <1>1 DEF h
  <2>. QED
    BY <2>2, <2>3
<1>4. RoomOK'
  <2>1. \A s \in RoundIDs : Bettors(wagers[s]) \subseteq Users
    BY OnlyBettorsCount DEF RoomInv, RoomOK
  <2>2. status' \in [RoundIDs -> Statuses] /\ \A s \in RoundIDs : status'[s] = "none" => status[s] = "none"
    BY <1>1 DEF Terminal, Statuses, RoomInv, RoomOK
  <2>. QED
    BY <1>1, <1>3, <2>1, <2>2 DEF RoomInv, RoomOK
<1>5. /\ Sound(e)
      /\ TransactionFor(e).wallet = credits
      /\ TransactionFor(e).pool = -TotalStaked(w)
  BY <1>1, <1>2, EndingSound
<1>. HIDE DEF e
<1>6. /\ EntriesSound'
      /\ \A u \in Users : Moved(u) \in Int /\ Moved(u)' = Moved(u) + credits[u]
      /\ PoolMoved \in Int /\ PoolMoved' = PoolMoved - TotalStaked(w)
  BY <1>1, <1>2, <1>5, EntryMoves DEF RoomInv
<1>7. WalletsAddUp'
  <2>. SUFFICES ASSUME NEW u \in Users
                PROVE  Moved(u)' = IF wallets'[u] = None THEN 0 ELSE wallets'[u] - opening'[u]
    BY DEF WalletsAddUp
  <2>1. /\ Moved(u) = IF wallets[u] = None THEN 0 ELSE wallets[u] - opening[u]
        /\ Moved(u)' = Moved(u) + credits[u]
    BY <1>6 DEF RoomInv, WalletsAddUp
  <2>2. CASE wallets[u] = None
    BY <1>3, <2>1, <2>2
  <2>3. CASE wallets[u] # None
    <3>1. wallets[u] \in Nat /\ opening[u] \in Nat /\ credits[u] \in Nat
      BY <1>2, <2>3 DEF RoomInv, RoomOK
    <3>2. wallets'[u] # None /\ wallets'[u] = wallets[u] + credits[u] /\ opening'[u] = opening[u]
      BY <1>1, <1>3, <2>3
    <3>. QED
      BY <2>1, <2>3, <3>1, <3>2
  <2>. QED
    BY <2>2, <2>3
<1>8. InPools' = InPools - TotalStaked(w)
  <2>. DEFINE f == [s \in RoundIDs |-> TotalStaked(wagers[s])]
  <2>1. InPools = SumFunctionOnSet(f, Held) /\ InPools' = SumFunctionOnSet(f, Held')
    BY <1>1 DEF InPools
  <2>2. Held' = Held \ {r} /\ r \in Held
    BY <1>1 DEF Held, Live, Terminal, RoomInv, RoomOK
  <2>3. IsFiniteSet(Held) /\ (\A s \in Held : f[s] \in Int) /\ f[r] = TotalStaked(w)
    BY HeldFacts DEF Held, RoomInv
  <2>. HIDE DEF f
  <2>4. SumFunctionOnSet(f, Held) = f[r] + SumFunctionOnSet(f, Held \ {r})
    BY <2>2, <2>3, SumRemove
  <2>5. SumFunctionOnSet(f, Held \ {r}) \in Int
    BY <2>2, <2>3, SumInt, FS_RemoveElement
  <2>. QED
    BY <1>2, <2>1, <2>2, <2>3, <2>4, <2>5
<1>. QED
  BY <1>4, <1>6, <1>7, <1>8 DEF RoomInv

-----------------------------------------------------------------------------
\* Nothing has moved and nothing is recorded.
LEMMA ReconciledInit == Init => RoomInv /\ RowsOnce
<1>. SUFFICES ASSUME Init  PROVE RoomInv /\ RowsOnce
  OBVIOUS
<1>1. /\ status = [r \in RoundIDs |-> "none"] /\ wagers = [r \in RoundIDs |-> NoWagers]
      /\ wallets = [u \in Users |-> None] /\ opening = [u \in Users |-> None]
      /\ outbox = << >> /\ DOMAIN outbox = {}
  BY DEF Init, Room!Init, Room!NoWagers, NoWagers, Room!Fields, Fields
<1>2. RoomOK
  BY <1>1, TotalOfNone, BettorsOfNone DEF RoomOK, Statuses
<1>3. EntriesSound
  BY <1>1 DEF EntriesSound
<1>4. WalletsAddUp
  BY <1>1, SumEmpty DEF WalletsAddUp, Moved
<1>5. PoolMoved = InPools
  <2>1. Held = {}
    BY <1>1 DEF Held, Live
  <2>. QED
    BY <1>1, <2>1, SumEmpty DEF PoolMoved, InPools
<1>6. RowsOnce
  BY DEF Init, RowsOnce
<1>. QED
  BY <1>2, <1>3, <1>4, <1>5, <1>6 DEF RoomInv

\* The room keeps its history; a batch gives a key its first row.
LEMMA ReconciledStep ==
  ASSUME PipelineInv, RoomInv, RowsOnce, [Next]_vars
  PROVE  RoomInv' /\ RowsOnce'
<1>1. ASSUME UNCHANGED <<roomVars, outbox>>  PROVE RoomInv'
  BY <1>1 DEF roomVars, RoomInv, RoomOK, EntriesSound, WalletsAddUp, Moved, PoolMoved, InPools, Held
<1>2. ASSUME UNCHANGED rows  PROVE RowsOnce'
  BY <1>2 DEF RowsOnce
<1>3. CASE RoomStep
  <2>1. RoomInv'
    BY <1>3, RoomDoes, RoomJoinsInv, RoomMovesInv, RoomTakesInv, RoomEndsInv
       DEF RoomStep, RoomInv, PipelineInv
  <2>. QED
    BY <1>2, <1>3, <2>1 DEF RoomStep
<1>4. CASE WriteBatch
  <2>1. RowsOnce'
    BY <1>4 DEF WriteBatch, Insert, RowsOnce
  <2>. QED
    BY <1>1, <1>4, <2>1 DEF WriteBatch
<1>5. CASE RelayStep \/ RelayStops
  BY <1>1, <1>2, <1>5 DEF RelayStep, RelayStarts, ClaimOrphans, Recover, ReadNew, Produce, Ack,
                          RelayStops
<1>6. CASE WorkerStarts \/ (\E p \in Topics : Fetch(p)) \/ CommitOffsets \/ WorkerStops
             \/ FetchFails
  BY <1>1, <1>2, <1>6 DEF WorkerStarts, Fetch, CommitOffsets, WorkerStops, FetchFails
<1>7. CASE UNCHANGED vars
  BY <1>1, <1>2, <1>7 DEF vars
<1>. QED
  BY <1>3, <1>4, <1>5, <1>6, <1>7 DEF Next, WorkerStep

\* The outbox stays the history of the room's money, and a key keeps its one row.
LEMMA RoomHistory == Spec => [](RoomInv /\ RowsOnce)
<1>1. PipelineInv /\ RoomInv /\ RowsOnce /\ [Next]_vars => RoomInv' /\ RowsOnce'
  BY ReconciledStep
<1>. QED
  BY <1>1, ReconciledInit, PipelineInvariant, PTL DEF Spec

\* What the worker checks of each event, of all of them.
EntriesBalance == \A i \in DOMAIN outbox : Balanced(outbox[i])

(***************************************************************************)
(* The worker never meets an event that does not balance: its check, which *)
(* would stop it with ErrUnbalanced at the same message after every        *)
(* restart (mapping.go 90), passes for every entry of the outbox.          *)
(***************************************************************************)
THEOREM EntriesBalanceAlways == Spec => []EntriesBalance
<1>1. RoomInv => EntriesBalance
  BY DEF RoomInv, EntriesSound, Sound, EntriesBalance
<1>. QED
  BY <1>1, RoomHistory, PTL

\* The entries the ledger has yet to record, and what they will post.
Unposted(amount) == Sum([i \in {j \in DOMAIN outbox : rows[KeyOf(j)] = 0} |-> amount[i]])

\* What is posted and what is not make up everything the outbox says.
LEMMA PostedAndUnposted ==
  ASSUME PipelineInv, RowsOnce, NEW f, DOMAIN f = DOMAIN outbox,
         \A i \in DOMAIN outbox : f[i] \in Int
  PROVE  /\ Posted(f) \in Int /\ Unposted(f) \in Int
         /\ Posted(f) + Unposted(f) = SumFunctionOnSet(f, DOMAIN outbox)
<1>. DEFINE D == DOMAIN outbox
            A == {i \in D : rows[KeyOf(i)] = 1}
            B == {i \in D : rows[KeyOf(i)] = 0}
            g == [i \in D |-> rows[KeyOf(i)] * f[i]]
            h == [i \in B |-> f[i]]
<1>1. IsFiniteSet(D)
  BY StreamFacts, FS_Interval
<1>2. \A i \in D : rows[KeyOf(i)] \in {0, 1}
  BY DEF PipelineInv, StreamOK, RowsOnce
<1>3. D = A \cup B /\ A \cap B = {} /\ A \subseteq D /\ B \subseteq D
  BY <1>2
<1>4. IsFiniteSet(A) /\ IsFiniteSet(B)
  BY <1>1, <1>3, FS_Subset
<1>5. /\ \A i \in A : f[i] \in Int /\ f[i] = g[i]
      /\ \A i \in D : g[i] \in Int
      /\ \A i \in D \ A : g[i] = 0
  BY <1>2
<1>6. \A i \in B : f[i] \in Int /\ f[i] = h[i]
  OBVIOUS
<1>7. Posted(f) = SumFunctionOnSet(g, D)
  <2>1. Posted(f) = SumFunction(g) /\ DOMAIN g = D
    BY DEF Posted, Sum
  <2>. HIDE DEF g, D
  <2>. QED
    BY <2>1, SumDomain
<1>8. Unposted(f) = SumFunctionOnSet(h, B)
  <2>1. Unposted(f) = SumFunction(h) /\ DOMAIN h = B
    BY DEF Unposted, Sum
  <2>. HIDE DEF h, B
  <2>. QED
    BY <2>1, SumDomain
<1>9. \A i \in A \cup B : f[i] \in Int
  BY <1>3
<1>. HIDE DEF A, B, D, g, h
<1>10. SumFunctionOnSet(g, D) = SumFunctionOnSet(g, A)
  BY <1>1, <1>3, <1>5, SumSubset
<1>11. SumFunctionOnSet(f, A) = SumFunctionOnSet(g, A) /\ SumFunctionOnSet(f, A) \in Int
  BY <1>4, <1>5, SumEq, SumInt
<1>12. SumFunctionOnSet(f, B) = SumFunctionOnSet(h, B) /\ SumFunctionOnSet(f, B) \in Int
  BY <1>4, <1>6, SumEq, SumInt
<1>13. SumFunctionOnSet(f, D) = SumFunctionOnSet(f, A) + SumFunctionOnSet(f, B)
  BY <1>3, <1>4, <1>9, SumUnion
<1>14. Posted(f) \in Int /\ Unposted(f) \in Int
  BY <1>7, <1>8, <1>10, <1>11, <1>12
<1>15. Posted(f) + Unposted(f) = SumFunctionOnSet(f, D)
  BY <1>7, <1>8, <1>10, <1>11, <1>12, <1>13
<1>. QED
  BY <1>14, <1>15 DEF D

(***************************************************************************)
(* The identity of the load test in every state, not only once the ledger  *)
(* has caught up: as long as no key is used twice, a wallet differs from   *)
(* what the ledger says of it, and the pools from theirs, by exactly the   *)
(* entries still on their way.                                             *)
(***************************************************************************)
StakesHeld == Sum([r \in {s \in RoundIDs : status[s] \in Live} |-> TotalStaked(wagers[r])])

WalletMoves(u) == [i \in DOMAIN outbox |-> Transactions[i].wallet[u]]

PoolMoves == [i \in DOMAIN outbox |-> Transactions[i].pool]

LedgerLags ==
  KeysFresh =>
    /\ \A u \in Users : wallets[u] # None =>
         wallets[u] - opening[u] = Posted(WalletMoves(u)) + Unposted(WalletMoves(u))
    /\ StakesHeld = Posted(PoolMoves) + Unposted(PoolMoves)

LEMMA LagsByTheRest ==
  ASSUME PipelineInv, RoomInv, RowsOnce
  PROVE  LedgerLags
<1>1. ASSUME NEW u \in Users, wallets[u] # None
      PROVE  wallets[u] - opening[u] = Posted(WalletMoves(u)) + Unposted(WalletMoves(u))
  <2>. DEFINE f == [i \in DOMAIN outbox |-> TransactionFor(outbox[i]).wallet[u]]
  <2>1. f = WalletMoves(u)
    BY DEF WalletMoves, Transactions
  <2>2. DOMAIN f = DOMAIN outbox /\ \A i \in DOMAIN outbox : f[i] \in Int
    BY <1>1 DEF RoomInv, EntriesSound, Sound
  <2>3. SumFunctionOnSet(f, DOMAIN outbox) = wallets[u] - opening[u]
    BY <1>1 DEF RoomInv, WalletsAddUp, Moved
  <2>. HIDE DEF f
  <2>. QED
    BY <2>1, <2>2, <2>3, PostedAndUnposted
<1>2. StakesHeld = Posted(PoolMoves) + Unposted(PoolMoves)
  <2>. DEFINE f == [i \in DOMAIN outbox |-> TransactionFor(outbox[i]).pool]
              g == [r \in Held |-> TotalStaked(wagers[r])]
              h == [r \in RoundIDs |-> TotalStaked(wagers[r])]
  <2>1. f = PoolMoves
    BY DEF PoolMoves, Transactions
  <2>2. DOMAIN f = DOMAIN outbox /\ \A i \in DOMAIN outbox : f[i] \in Int
    BY DEF RoomInv, EntriesSound, Sound
  <2>3. SumFunctionOnSet(f, DOMAIN outbox) = SumFunctionOnSet(h, Held)
    BY DEF RoomInv, PoolMoved, InPools
  <2>4. IsFiniteSet(Held) /\ DOMAIN g = Held /\ \A r \in Held : h[r] \in Int /\ h[r] = g[r]
    BY HeldFacts DEF Held, RoomInv
  <2>5. StakesHeld = SumFunction(g)
    BY DEF StakesHeld, Sum, Held
  <2>. HIDE DEF f, g, h
  <2>6. SumFunction(g) = SumFunctionOnSet(h, Held)
    BY <2>4, SumDomain, SumEq
  <2>. QED
    BY <2>1, <2>2, <2>3, <2>5, <2>6, PostedAndUnposted
<1>. QED
  BY <1>1, <1>2 DEF LedgerLags

\* At any moment, whatever has died, the ledger lags by what is on its way and no more.
THEOREM LedgerLagsCorrect == Spec => []LedgerLags
<1>1. PipelineInv /\ RoomInv /\ RowsOnce => LedgerLags
  BY LagsByTheRest
<1>. QED
  BY <1>1, RoomHistory, PipelineInvariant, PTL

(***************************************************************************)
(* The identity the load test reconciles, for every set of players, rounds *)
(* and stakes: whenever the ledger has caught up with the outbox, wallets  *)
(* and pools agree with its accounts and every transaction balances.       *)
(***************************************************************************)
THEOREM ReconciledCorrect == Spec => []Reconciled
<1>1. ASSUME PipelineInv, RoomInv, RowsOnce  PROVE Reconciled
  <2>. SUFFICES ASSUME KeysFresh, \A i \in DOMAIN outbox : rows[KeyOf(i)] > 0
                PROVE  /\ \A u \in Users : wallets[u] # None =>
                            wallets[u] - opening[u] = Posted(WalletMoves(u))
                       /\ Posted(PoolMoves) = StakesHeld
                       /\ \A i \in DOMAIN outbox : Balanced(outbox[i])
    BY DEF Reconciled, WalletMoves, PoolMoves, StakesHeld
  <2>1. {j \in DOMAIN outbox : rows[KeyOf(j)] = 0} = {}
    OBVIOUS
  <2>2. ASSUME NEW f, DOMAIN f = DOMAIN outbox, \A i \in DOMAIN outbox : f[i] \in Int
        PROVE  Unposted(f) = 0 /\ Posted(f) \in Int
    <3>. DEFINE h == [i \in {} |-> f[i]]
    <3>1. Unposted(f) = SumFunction(h) /\ DOMAIN h = {}
      BY <2>1 DEF Unposted, Sum
    <3>. HIDE DEF h
    <3>2. Unposted(f) = 0
      BY <3>1, SumDomain, SumEmpty
    <3>. QED
      BY <1>1, <2>2, <3>2, PostedAndUnposted
  <2>3. \A u \in Users : \A i \in DOMAIN outbox : WalletMoves(u)[i] \in Int
    BY <1>1 DEF RoomInv, EntriesSound, Sound, WalletMoves, Transactions
  <2>4. \A i \in DOMAIN outbox : PoolMoves[i] \in Int
    BY <1>1 DEF RoomInv, EntriesSound, Sound, PoolMoves, Transactions
  <2>5. \A u \in Users : Unposted(WalletMoves(u)) = 0 /\ Posted(WalletMoves(u)) \in Int
    <3>1. \A u \in Users : DOMAIN WalletMoves(u) = DOMAIN outbox
      BY DEF WalletMoves
    <3>. QED
      BY <2>2, <2>3, <3>1
  <2>6. Unposted(PoolMoves) = 0 /\ Posted(PoolMoves) \in Int
    <3>1. DOMAIN PoolMoves = DOMAIN outbox
      BY DEF PoolMoves
    <3>. QED
      BY <2>2, <2>4, <3>1
  <2>7. \A i \in DOMAIN outbox : Balanced(outbox[i])
    BY <1>1 DEF RoomInv, EntriesSound, Sound
  <2>8. LedgerLags
    BY <1>1, LagsByTheRest
  <2>. QED
    BY <2>5, <2>6, <2>7, <2>8 DEF LedgerLags
<1>. QED
  BY <1>1, RoomHistory, PipelineInvariant, PTL

-----------------------------------------------------------------------------
(***************************************************************************)
(* When an offset committed to Kafka means a row in PostgreSQL.  A fetch   *)
(* that fails makes Once forget messages the reader has passed, and then   *)
(* CommittedIsDurable fails; this section shows that nothing else makes it *)
(* fail, whoever dies and whatever is redelivered.                         *)
(***************************************************************************)
CommittedIsAccounted == \A p \in Topics : \A o \in 1..committed[p] : Accounted(log[p][o])

\* Every message behind a committed offset has its row, or a failed fetch dropped it.
THEOREM CommittedAccounted == Spec => []CommittedIsAccounted
<1>1. PipelineInv => CommittedIsAccounted
  BY DEF PipelineInv, Consumed, CommittedIsAccounted
<1>. QED
  BY <1>1, PipelineInvariant, PTL

NoFetchFails == ~FetchFails

NothingDropped == dropped = {}

(***************************************************************************)
(* worker.go 30-32 is true of every run in which no fetch fails outside    *)
(* its deadline: deaths and redelivery alone never break it.               *)
(***************************************************************************)
THEOREM DurableUnlessFetchFails == Spec /\ [][NoFetchFails]_vars => []CommittedIsDurable
<1>1. Init => NothingDropped
  BY DEF Init, NothingDropped
<1>2. NothingDropped /\ [Next]_vars /\ [NoFetchFails]_vars => NothingDropped'
  <2>. SUFFICES ASSUME [Next]_vars, [NoFetchFails]_vars PROVE UNCHANGED dropped
    BY DEF NothingDropped
  <2>1. CASE RelayStep \/ RelayStops
    BY <2>1 DEF RelayStep, RelayStarts, ClaimOrphans, Recover, ReadNew, Produce, Ack, RelayStops
  <2>2. CASE WorkerStep \/ WorkerStops
    BY <2>2 DEF WorkerStep, WorkerStarts, Fetch, WriteBatch, CommitOffsets, WorkerStops
  <2>3. CASE RoomStep
    BY <2>3 DEF RoomStep
  <2>. QED
    BY <2>1, <2>2, <2>3 DEF Next, vars, NoFetchFails
<1>3. NothingDropped /\ CommittedIsAccounted => CommittedIsDurable
  BY DEF NothingDropped, CommittedIsAccounted, Accounted, Recorded, CommittedIsDurable
<1>. QED
  BY <1>1, <1>2, <1>3, CommittedAccounted, PTL DEF Spec
=============================================================================
