-------------------------- MODULE RoundsProperties --------------------------
(***************************************************************************)
(* What must be true of Rounds: its type, what its state relates, what a   *)
(* step may never do, what must eventually happen, and the atomic          *)
(* specification it implements.                                            *)
(***************************************************************************)
EXTENDS Rounds

Sum(f) == SumFunction(f)

SettleSteps == {"checkLocked", "readStakes", "apply", "clear"}

\* The steps a goroutine of each kind can be at, and the locals it then has.
HandlerJobs ==
  {Idle, Job("openCreate", None, None, NoWagers)}
  \cup [at: {"openCheck", "openAnnounce"}, round: RoundIDs, win: {None}, stakes: {NoWagers}]
  \cup [at: SettleSteps, round: RoundIDs, win: Outcomes, stakes: Wagers]

WatchJobs(r) ==
  {Idle}
  \cup [at: {"armed", "grace"} \cup SettleSteps, round: {r}, win: {None}, stakes: Wagers]

WagerEvents ==
  [type: {"wager_placed"}, round: RoundIDs, user: Users, outcome: Outcomes,
   amount: Amounts, key: Keys]

SettlementEvents ==
  [type: {"round_settled", "round_refunded"}, round: RoundIDs,
   winning: Outcomes \cup {None}, total: Nat, dust: Nat, credits: [Users -> Nat]]

JobsTypeOK ==
  /\ DOMAIN job = Goroutines
  /\ \A h \in HostConns : job[h] \in HandlerJobs
  /\ \A r \in RoundIDs : job[r] \in WatchJobs(r)

\* Everything but the amounts settlement arithmetic produces.
ControlTypeOK ==
  /\ status \in [RoundIDs -> Statuses]
  /\ resolved \in [RoundIDs -> Outcomes \cup {None}]
  /\ expired \in [RoundIDs -> BOOLEAN]
  /\ pools \in [RoundIDs -> [Outcomes -> Nat]]
  /\ total \in [RoundIDs -> Nat]
  /\ wagers \in [RoundIDs -> Wagers]
  /\ bettors \in [RoundIDs -> SUBSET Users]
  /\ index \in RoundIDs \cup {None}
  /\ opening \in [Users -> Nat \cup {None}]
  /\ idem \subseteq Keys
  /\ JobsTypeOK
  /\ bet \in [Users -> RoundIDs \cup {None}]
  /\ faults \in 0..MaxFaults

(***************************************************************************)
(* The type invariant.  Wallets in Nat is the interesting part: no         *)
(* interleaving overdraws one.                                             *)
(***************************************************************************)
TypeOK ==
  /\ ControlTypeOK
  /\ wallets \in [Users -> Nat \cup {None}]
  /\ outbox \in Seq(WagerEvents \cup SettlementEvents)

-----------------------------------------------------------------------------
(***************************************************************************)
(* A settlement in flight holds the stakes the round still holds: reading  *)
(* them after seeing "locked" is enough, because a locked round takes no   *)
(* wager (settle.go 199-207 says no test can guard this ordering).         *)
(***************************************************************************)
SnapshotIsCurrent ==
  \A x \in Goroutines :
    /\ job[x].at = "readStakes" => status[job[x].round] \notin {"none", "open"}
    /\ job[x].at = "apply" =>
         /\ status[job[x].round] \notin {"none", "open"}
         /\ job[x].stakes = wagers[job[x].round]

(***************************************************************************)
(* A round is paid out at most once, and only a terminal round is: however *)
(* a host's resolves and the refund timer race, the stream carries one     *)
(* settlement per terminal round and none for another.                     *)
(***************************************************************************)
SettledExactlyOnce ==
  \A r \in RoundIDs :
    Cardinality({i \in DOMAIN outbox : IsSettlement(outbox[i]) /\ outbox[i].round = r})
      = IF status[r] \in Terminal THEN 1 ELSE 0

(***************************************************************************)
(* The total a settlement event carries, which Go summed from the wagers   *)
(* it read, is the pool Redis itself counted up wager by wager, and the    *)
(* credits and the dust share out all of it.                               *)
(***************************************************************************)
SettlementCoversPool ==
  \A i \in DOMAIN outbox : IsSettlement(outbox[i]) =>
    LET e == outbox[i]
    IN  /\ e.total = total[e.round]
        /\ Sum(e.credits) + e.dust = total[e.round]

(***************************************************************************)
(* The stream never carries a wager behind the settlement of its round,    *)
(* the order relay.go 171-175 relies on.                                   *)
(***************************************************************************)
NoWagerAfterSettlement ==
  \A i, j \in DOMAIN outbox :
    /\ IsSettlement(outbox[i])
    /\ IsWager(outbox[j])
    /\ outbox[i].round = outbox[j].round
    => j < i

(***************************************************************************)
(* Tokens are neither minted nor burned: what players brought in is in     *)
(* their wallets, in the pools of rounds not yet ended, or dust.           *)
(***************************************************************************)
TokensConserved ==
  LET joined == {u \in Users : wallets[u] # None}
      held   == {r \in RoundIDs : status[r] \in Live}
      ended  == {i \in DOMAIN outbox : IsSettlement(outbox[i])}
  IN  SumFunctionOnSet(opening, joined) =
        SumFunctionOnSet(wallets, joined) + SumFunctionOnSet(total, held)
        + Sum([i \in ended |-> outbox[i].dust])

(***************************************************************************)
(* A key debits a round at most once, however often and by whomever it is  *)
(* retried.  The cached reply expires, but not while the round it belongs  *)
(* to can still take the wager.  (It says nothing of two rounds: a key     *)
(* used again a day later, in another round, debits again.)                *)
(***************************************************************************)
OneDebitPerKey ==
  /\ \A i, j \in DOMAIN outbox :
       /\ IsWager(outbox[i])
       /\ IsWager(outbox[j])
       /\ outbox[i].key = outbox[j].key
       /\ outbox[i].round = outbox[j].round
       => i = j
  /\ \A i \in DOMAIN outbox :
       IsWager(outbox[i]) /\ TakesWagers(outbox[i].round) => outbox[i].key \in idem

(***************************************************************************)
(* The three hashes a wager writes agree: the pools every client sees are  *)
(* the stakes settlement will read, and the progress counter counts the    *)
(* players behind them.                                                    *)
(***************************************************************************)
PoolsMirrorWagers ==
  \A r \in RoundIDs :
    /\ \A o \in Outcomes :
         pools[r][o] = SumFunctionOnSet(wagers[r], {f \in Fields : f[2] = o})
    /\ total[r] = Sum(pools[r])
    /\ bettors[r] = Bettors(wagers[r])

(***************************************************************************)
(* Every change of a status is one domain.validTransitions allows: no      *)
(* relocking, no second settlement, no way back from a terminal status.    *)
(***************************************************************************)
StatusFollowsLifecycle ==
  [][\A r \in RoundIDs :
       status'[r] # status[r] => <<status[r], status'[r]>> \in ValidTransitions]_status

(***************************************************************************)
(* The room's money behaves as if rounds were settled in one indivisible   *)
(* step: hiding the index, the handlers, the timers and the snapshots      *)
(* leaves the atomic specification.                                        *)
(***************************************************************************)
Atomic == INSTANCE AtomicRounds

ImplementsAtomicRounds == Atomic!Spec

-----------------------------------------------------------------------------
(***************************************************************************)
(* Spec section 4: a round is locked at its lock instant and, left         *)
(* unresolved, refunded: every round that opens ends.                      *)
(***************************************************************************)
EveryRoundEnds ==
  \A r \in RoundIDs : status[r] = "open" ~> status[r] \in Terminal

(***************************************************************************)
(* The index lets go of a round that has ended, so that the next preflight *)
(* and the next resolve do not land on it.                                 *)
(***************************************************************************)
IndexLetsGo ==
  \A r \in RoundIDs : (index = r /\ status[r] \in Terminal) ~> index # r

(***************************************************************************)
(* What round.go 76-77 promises of CurrentRound: the room's non-terminal   *)
(* round, or ErrNotFound when the room has none.                           *)
(***************************************************************************)
LiveRoundIsCurrent == \A r \in RoundIDs : status[r] \in Live => index = r
=============================================================================
