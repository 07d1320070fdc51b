------------------------------ MODULE EndToEnd ------------------------------
(***************************************************************************)
(* The whole path of a token: the room as Rounds models it, handler by     *)
(* handler and timer by timer, beside the relay and the ledger worker as   *)
(* Pipeline models them.  The API shares nothing with those two but the    *)
(* outbox stream, which it writes and the relay reads: the networks of     *)
(* compose.prod.yml give it no way to Kafka or PostgreSQL, and the worker  *)
(* none to Redis.  So a step of the system is a step of one side.          *)
(*                                                                         *)
(* Pipeline has AtomicRounds for its room.  The theorems here show that    *)
(* nothing is lost by that: the room of the code does for it.              *)
(***************************************************************************)
EXTENDS RoundsProofs

CONSTANTS ReadCount, MaxBatch,   \* see Pipeline
          MaxDeaths              \* bound: deaths and failed fetches outside the API

VARIABLES delivered, pending, relay, log, committed, worker, rows, dropped,   \* see Pipeline
          deaths                 \* deaths and failed fetches so far

Ledger == INSTANCE PipelineProofs WITH MaxFaults <- MaxDeaths, faults <- deaths

pipeline == <<delivered, pending, relay, log, committed, worker, rows, deaths, dropped>>

SystemInit == Init /\ Ledger!Init

\* A goroutine of the API moves, a player acts, or the API dies.
ApiMoves == Next /\ UNCHANGED pipeline

\* The relay or the worker moves, or dies.
PipelineMoves ==
  /\ \/ Ledger!RelayStep
     \/ Ledger!WorkerStep
     \/ Ledger!RelayStops
     \/ Ledger!WorkerStops
     \/ Ledger!FetchFails
  /\ UNCHANGED vars

SystemSpec == SystemInit /\ [][ApiMoves \/ PipelineMoves]_<<vars, pipeline>>

(***************************************************************************)
(* PostgreSQL never runs ahead of Redis: a round the ledger shows settled  *)
(* has ended, and a wager the ledger shows was accepted: its round holds   *)
(* the stake, long after Redis has forgotten the key.                      *)
(***************************************************************************)
LedgerFollowsRoom ==
  /\ \A r \in RoundIDs : rows[<<"settlement", r>>] > 0 => status[r] \in Terminal
  /\ \A k \in Keys : rows[<<"wager", k>>] > 0 =>
       \E i \in DOMAIN outbox :
         /\ IsWager(outbox[i]) /\ outbox[i].key = k
         /\ wagers[outbox[i].round][<<outbox[i].user, outbox[i].outcome>>] >= outbox[i].amount

-----------------------------------------------------------------------------
(***************************************************************************)
(* The room of the pipeline has its own copy of the settlement arithmetic, *)
(* as the room Rounds implements has.  They are the same arithmetic.       *)
(***************************************************************************)
LEMMA SameSums ==
  /\ \A f, S : Ledger!Room!SumFunctionOnSet(f, S) = Atomic!SumFunctionOnSet(f, S)
  /\ \A f : Ledger!Room!SumFunction(f) = Atomic!SumFunction(f)
BY Zenon DEF Ledger!Room!SumFunction, Atomic!SumFunction,
             Ledger!Room!SumFunctionOnSet, Atomic!SumFunctionOnSet,
             Ledger!Room!FoldFunctionOnSet, Atomic!FoldFunctionOnSet,
             Ledger!Room!MapThenFoldSet, Atomic!MapThenFoldSet

\* They pick the same stakes,
LEMMA SamePicks ==
  /\ Ledger!Room!Fields = Atomic!Fields
  /\ \A w : Ledger!Room!Stakes(w) = Atomic!Stakes(w)
  /\ \A w, u : Ledger!Room!StakesOf(w, u) = Atomic!StakesOf(w, u)
BY DEF Ledger!Room!Fields, Atomic!Fields, Ledger!Room!Stakes, Atomic!Stakes,
       Ledger!Room!StakesOf, Atomic!StakesOf

\* share them out alike,
LEMMA SameShares ==
  /\ \A w : Ledger!Room!TotalStaked(w) = Atomic!TotalStaked(w)
  /\ \A w, win : Ledger!Room!IsRefund(w, win) = Atomic!IsRefund(w, win)
  /\ \A w, win : Ledger!Room!Dust(w, win) = Atomic!Dust(w, win)
  /\ \A w, win : Ledger!Room!Credits(w, win) = Atomic!Credits(w, win)
  /\ \A w : Ledger!Room!AggregateStakes(w) = Atomic!AggregateStakes(w)
<1>1. ASSUME NEW w PROVE Ledger!Room!TotalStaked(w) = Atomic!TotalStaked(w)
  BY SameSums, SamePicks DEF Ledger!Room!TotalStaked, Atomic!TotalStaked
<1>2. ASSUME NEW w, NEW win PROVE Ledger!Room!WinningPool(w, win) = Atomic!WinningPool(w, win)
  BY SameSums, SamePicks DEF Ledger!Room!WinningPool, Atomic!WinningPool
<1>3. ASSUME NEW w, NEW win PROVE Ledger!Room!IsRefund(w, win) = Atomic!IsRefund(w, win)
  BY <1>2 DEF Ledger!Room!IsRefund, Atomic!IsRefund
<1>4. ASSUME NEW w, NEW win PROVE Ledger!Room!Payouts(w, win) = Atomic!Payouts(w, win)
  BY <1>1, <1>2, <1>3, SamePicks
     DEF Ledger!Room!Payouts, Atomic!Payouts, Ledger!Room!WinnerPayout, Atomic!WinnerPayout
<1>5. ASSUME NEW w, NEW win PROVE Ledger!Room!Dust(w, win) = Atomic!Dust(w, win)
  BY <1>1, <1>4, SameSums DEF Ledger!Room!Dust, Atomic!Dust, Ledger!Room!Paid, Atomic!Paid
<1>6. ASSUME NEW w, NEW win PROVE Ledger!Room!Credits(w, win) = Atomic!Credits(w, win)
  BY <1>4, SameSums DEF Ledger!Room!Credits, Atomic!Credits
<1>7. ASSUME NEW w PROVE Ledger!Room!AggregateStakes(w) = Atomic!AggregateStakes(w)
  BY SameSums, SamePicks DEF Ledger!Room!AggregateStakes, Atomic!AggregateStakes
<1>. QED
  BY <1>1, <1>3, <1>5, <1>6, <1>7

\* and write the same credits and events.
LEMMA SameWrites ==
  /\ \A hash, credits : Ledger!Room!HIncrBy(hash, credits) = Atomic!HIncrBy(hash, credits)
  /\ \A u, r, o, a, k : Ledger!Room!WagerEvent(u, r, o, a, k)
                             = Atomic!WagerEvent(u, r, o, a, k)
  /\ \A t, r, win, n, d, c : Ledger!Room!SettlementEvent(t, r, win, n, d, c)
                               = Atomic!SettlementEvent(t, r, win, n, d, c)
  /\ \A e : Ledger!Room!IsWager(e) = Atomic!IsWager(e)
BY DEF Ledger!Room!HIncrBy, Atomic!HIncrBy, Ledger!Room!WagerEvent, Atomic!WagerEvent,
       Ledger!Room!SettlementEvent, Atomic!SettlementEvent, Ledger!Room!IsWager, Atomic!IsWager

\* So a step of the room Rounds implements is a step of the room the pipeline has.
LEMMA SameRoom == Atomic!Next => Ledger!Room!Next
<1>. SUFFICES ASSUME Atomic!Next PROVE Ledger!Room!Next
  OBVIOUS
<1>. USE DEF Ledger!Room!Next
<1>1. ASSUME NEW u \in Users, NEW b \in Grants, Atomic!Join(u, b) PROVE Ledger!Room!Next
  <2>1. Ledger!Room!Join(u, b)
    BY <1>1 DEF Atomic!Join, Ledger!Room!Join
  <2>. QED
    BY <2>1
<1>2. ASSUME NEW r \in RoundIDs, Atomic!Open(r) \/ Atomic!Lock(r) PROVE Ledger!Room!Next
  <2>1. Ledger!Room!Open(r) \/ Ledger!Room!Lock(r)
    BY <1>2 DEF Atomic!Open, Ledger!Room!Open, Atomic!Lock, Ledger!Room!Lock
  <2>. QED
    BY <2>1
<1>3. ASSUME NEW r \in RoundIDs, Atomic!Refund(r) PROVE Ledger!Room!Next
  <2>1. Ledger!Room!Refund(r)
    BY <1>3, SameShares, SameWrites DEF Atomic!Refund, Ledger!Room!Refund
  <2>. QED
    BY <2>1
<1>4. ASSUME NEW r \in RoundIDs, NEW win \in Outcomes, Atomic!Settle(r, win)
      PROVE  Ledger!Room!Next
  <2>1. Ledger!Room!Settle(r, win)
    BY <1>4, SameShares, SameWrites DEF Atomic!Settle, Ledger!Room!Settle
  <2>. QED
    BY <2>1
<1>5. ASSUME NEW u \in Users, NEW r \in RoundIDs, NEW o \in Outcomes, NEW a \in Amounts,
             NEW k \in Keys, Atomic!Bet(u, r, o, a, k)
      PROVE  Ledger!Room!Next
  <2>1. Ledger!Room!Bet(u, r, o, a, k)
    BY <1>5, SameWrites DEF Atomic!Bet, Ledger!Room!Bet
  <2>. QED
    BY <2>1
<1>. HIDE DEF Ledger!Room!Next
<1>. QED
  BY <1>1, <1>2, <1>3, <1>4, <1>5 DEF Atomic!Next

-----------------------------------------------------------------------------
(***************************************************************************)
(* The refinement.                                                         *)
(***************************************************************************)
\* Whatever a goroutine of the API does is a step of the pipeline's room, or no step of it.
LEMMA RoomSimulated ==
  ASSUME RoundsInv, ApiMoves
  PROVE  Ledger!Next \/ UNCHANGED Ledger!vars
<1>1. CASE Atomic!Next
  <2>1. Ledger!Room!Next
    BY <1>1, SameRoom
  <2>2. Ledger!RoomStep
    BY <2>1 DEF Ledger!RoomStep, ApiMoves, pipeline, Ledger!group
  <2>. QED
    BY <2>2 DEF Ledger!Next
<1>2. CASE UNCHANGED Atomic!vars
  BY <1>2 DEF Atomic!vars, Ledger!vars, Ledger!roomVars, Ledger!group, ApiMoves, pipeline
<1>. QED
  BY <1>1, <1>2, StepRefines DEF ApiMoves

(***************************************************************************)
(* The relay and the worker do not disturb the room: what RoundsProofs     *)
(* shows of Rounds holds of the system.                                    *)
(***************************************************************************)
THEOREM SystemRunsTheRoom == SystemSpec => Spec
<1>1. SystemInit => Init
  BY DEF SystemInit
<1>2. [ApiMoves \/ PipelineMoves]_<<vars, pipeline>> => [Next]_vars
  BY DEF ApiMoves, PipelineMoves
<1>. QED
  BY <1>1, <1>2, PTL DEF SystemSpec, Spec

(***************************************************************************)
(* The room of the code, with its handlers, timers, snapshots and crashes, *)
(* does for the room of Pipeline: what PipelineProofs shows holds of the   *)
(* system.                                                                 *)
(***************************************************************************)
THEOREM SystemRunsThePipeline == SystemSpec => Ledger!Spec
<1>1. SystemInit => Ledger!Init
  BY DEF SystemInit
<1>2. RoundsInv /\ [ApiMoves \/ PipelineMoves]_<<vars, pipeline>> => [Ledger!Next]_(Ledger!vars)
  <2>. SUFFICES ASSUME RoundsInv, [ApiMoves \/ PipelineMoves]_<<vars, pipeline>>
                PROVE  Ledger!Next \/ UNCHANGED Ledger!vars
    OBVIOUS
  <2>1. CASE ApiMoves
    BY <2>1, RoomSimulated
  <2>2. CASE PipelineMoves
    BY <2>2 DEF PipelineMoves, Ledger!Next
  <2>3. CASE UNCHANGED <<vars, pipeline>>
    BY <2>3 DEF vars, store, pipeline, Ledger!vars, Ledger!roomVars, Ledger!group
  <2>. QED
    BY <2>1, <2>2, <2>3
<1>. QED
  BY <1>1, <1>2, SystemRunsTheRoom, RoundsInvariant, PTL DEF SystemSpec, Ledger!Spec

\* The board is finite, whoever asks.
LEMMA SameBoard == Ledger!FiniteBoard
BY FiniteBoard, Zenon DEF FiniteBoard, Ledger!FiniteBoard, IsFiniteSet, Ledger!IsFiniteSet

-----------------------------------------------------------------------------
\* What follows of the system.

(***************************************************************************)
(* From the goroutines of the API to the journal, whatever dies: nothing   *)
(* the room did is lost on the way, the wallets and pools differ from the  *)
(* accounts by what is still on its way, and once it has arrived the load  *)
(* test's identity holds.                                                  *)
(***************************************************************************)
THEOREM SystemReconciles ==
  Ledger!PipelineAssumption =>
    (SystemSpec => [](Ledger!NothingLost /\ Ledger!LedgerLags /\ Ledger!Reconciled))
<1>. SUFFICES ASSUME Ledger!PipelineAssumption
              PROVE  SystemSpec => [](Ledger!NothingLost /\ Ledger!LedgerLags /\ Ledger!Reconciled)
  OBVIOUS
<1>1. Ledger!Spec => []Ledger!NothingLost
  BY SameBoard, Ledger!NothingLostCorrect
<1>2. Ledger!Spec => []Ledger!LedgerLags
  BY SameBoard, Ledger!LedgerLagsCorrect
<1>3. Ledger!Spec => []Ledger!Reconciled
  BY SameBoard, Ledger!ReconciledCorrect
<1>. QED
  BY <1>1, <1>2, <1>3, SystemRunsThePipeline, PTL

(***************************************************************************)
(* PostgreSQL follows Redis and never the other way round, although every  *)
(* message may be delivered any number of times.                           *)
(***************************************************************************)
THEOREM LedgerFollowsCorrect ==
  Ledger!PipelineAssumption => (SystemSpec => []LedgerFollowsRoom)
<1>. SUFFICES ASSUME Ledger!PipelineAssumption
              PROVE  SystemSpec => []LedgerFollowsRoom
  OBVIOUS
<1>1. Ledger!Spec => []Ledger!RowsHaveEntries
  BY SameBoard, Ledger!NothingInvented
<1>2. ASSUME RoundsInv, MoneyInv, EntriesAreHeld, Ledger!RowsHaveEntries
      PROVE  LedgerFollowsRoom
  <2>1. ASSUME NEW k \in Ledger!EventKeys, rows[k] > 0
        PROVE  \E i \in DOMAIN outbox :
                 \/ IsWager(outbox[i]) /\ k = <<"wager", outbox[i].key>>
                 \/ IsSettlement(outbox[i]) /\ k = <<"settlement", outbox[i].round>>
    <3>1. PICK i \in DOMAIN outbox : Ledger!Key(outbox[i]) = k
      BY <1>2, <2>1 DEF Ledger!RowsHaveEntries, Ledger!KeyOf
    <3>2. outbox[i] \in WagerEvents \cup SettlementEvents
      BY <1>2 DEF MoneyInv, StreamTypeOK
    <3>3. IsWager(outbox[i]) \/ IsSettlement(outbox[i])
      BY <3>2 DEF WagerEvents, SettlementEvents, IsWager, IsSettlement
    <3>4. IsSettlement(outbox[i]) => ~IsWager(outbox[i])
      BY DEF IsWager, IsSettlement
    <3>. QED
      BY <3>1, <3>3, <3>4 DEF Ledger!Key, Ledger!IsWager, IsWager
  <2>2. ASSUME NEW r \in RoundIDs, rows[<<"settlement", r>>] > 0
        PROVE  status[r] \in Terminal
    <3>1. <<"settlement", r>> \in Ledger!EventKeys
      BY DEF Ledger!EventKeys
    <3>2. PICK i \in DOMAIN outbox : IsSettlement(outbox[i]) /\ outbox[i].round = r
      BY <2>1, <2>2, <3>1
    <3>. QED
      BY <1>2, <3>2 DEF RoundsInv, StreamInv, SettlementsAreOfEnded
  <2>3. ASSUME NEW k \in Keys, rows[<<"wager", k>>] > 0
        PROVE  \E i \in DOMAIN outbox :
                 /\ IsWager(outbox[i]) /\ outbox[i].key = k
                 /\ wagers[outbox[i].round][<<outbox[i].user, outbox[i].outcome>>]
                      >= outbox[i].amount
    <3>1. <<"wager", k>> \in Ledger!EventKeys
      BY DEF Ledger!EventKeys
    <3>2. PICK i \in DOMAIN outbox : IsWager(outbox[i]) /\ outbox[i].key = k
      BY <2>1, <2>3, <3>1
    <3>. QED
      BY <1>2, <3>2 DEF EntriesAreHeld
  <2>. QED
    BY <2>2, <2>3 DEF LedgerFollowsRoom
<1>. QED
  BY <1>1, <1>2, SystemRunsTheRoom, SystemRunsThePipeline, MoneyInvariant,
     EntriesHeldCorrect, PTL
=============================================================================
