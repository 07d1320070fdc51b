---------------------------- MODULE RoundsProofs ----------------------------
(***************************************************************************)
(* Theorems about Rounds, for every set of users, rounds, sockets, keys    *)
(* and amounts, and any number of faults: the control of handlers and      *)
(* timers, the outbox stream, the current-round index; then the room's     *)
(* money, that is the pools, the settlements and the tokens; and at last   *)
(* that Rounds implements AtomicRounds.                                    *)
(***************************************************************************)
EXTENDS RoundsProperties, SumProofs

-----------------------------------------------------------------------------
(***************************************************************************)
(* Goroutines.  A step of the code moves one goroutine (StartWatch moves   *)
(* two), so the type of job is preserved as soon as the record it moves to *)
(* is one of its kind.                                                     *)
(***************************************************************************)
LEMMA NoWagersType == NoWagers \in Wagers
BY DEF NoWagers, Wagers

LEMMA HandlerMoves ==
  ASSUME JobsTypeOK, NEW h \in HostConns, NEW v \in HandlerJobs,
         job' = [job EXCEPT ![h] = v]
  PROVE  JobsTypeOK'
BY RoundsAssumption DEF JobsTypeOK, Goroutines

LEMMA WatchMoves ==
  ASSUME JobsTypeOK, NEW r \in RoundIDs, NEW v \in WatchJobs(r),
         job' = [job EXCEPT ![r] = v]
  PROVE  JobsTypeOK'
<1>1. DOMAIN job' = Goroutines
  BY DEF JobsTypeOK
<1>2. ASSUME NEW h \in HostConns
      PROVE  job'[h] \in HandlerJobs
  BY <1>2, RoundsAssumption DEF JobsTypeOK, Goroutines
<1>3. ASSUME NEW s \in RoundIDs
      PROVE  job'[s] \in WatchJobs(s)
  BY <1>3 DEF JobsTypeOK, Goroutines
<1>. QED
  BY <1>1, <1>2, <1>3 DEF JobsTypeOK

LEMMA IdleIsAJob == Idle \in HandlerJobs /\ \A r \in RoundIDs : Idle \in WatchJobs(r)
BY DEF HandlerJobs, WatchJobs

\* Whatever a goroutine was doing, it may return.
LEMMA ReturnType ==
  ASSUME JobsTypeOK, NEW x \in Goroutines, Return(x)
  PROVE  JobsTypeOK'
<1>1. CASE x \in HostConns
  BY <1>1, IdleIsAJob, HandlerMoves DEF Return
<1>2. CASE x \in RoundIDs
  BY <1>2, IdleIsAJob, WatchMoves DEF Return
<1>. QED
  BY <1>1, <1>2 DEF Goroutines

\* A goroutine that is settling or refunding may move on to any later step.
LEMMA SettlingMoves ==
  ASSUME JobsTypeOK, NEW x \in Goroutines, job[x].at \in SettleSteps,
         NEW at \in SettleSteps, NEW w \in Wagers,
         job' = [job EXCEPT ![x] = Job(at, job[x].round, job[x].win, w)]
  PROVE  JobsTypeOK'
<1>. DEFINE v == Job(at, job[x].round, job[x].win, w)
<1>1. CASE x \in HostConns
  <2>1. job[x] \in HandlerJobs
    BY <1>1 DEF JobsTypeOK
  <2>2. job[x].round \in RoundIDs /\ job[x].win \in Outcomes
    BY <2>1 DEF HandlerJobs, SettleSteps, Idle, Job
  <2>3. v \in HandlerJobs
    BY <2>2 DEF HandlerJobs, Job
  <2>. QED
    BY <1>1, <2>3, HandlerMoves
<1>2. CASE x \in RoundIDs
  <2>1. job[x] \in WatchJobs(x)
    BY <1>2 DEF JobsTypeOK
  <2>2. job[x].round = x /\ job[x].win = None
    BY <2>1 DEF WatchJobs, SettleSteps, Idle, Job
  <2>3. v \in WatchJobs(x)
    BY <2>2 DEF WatchJobs, Job
  <2>. QED
    BY <1>2, <2>3, WatchMoves
<1>. QED
  BY <1>1, <1>2 DEF Goroutines

-----------------------------------------------------------------------------
\* Nothing has begun.
LEMMA InitControlType == Init => ControlTypeOK
<1>. SUFFICES ASSUME Init PROVE ControlTypeOK
  OBVIOUS
<1>1. JobsTypeOK
  BY IdleIsAJob DEF Init, JobsTypeOK, Goroutines
<1>. QED
  BY <1>1, NoWagersType, RoundsAssumption DEF Init, ControlTypeOK, Statuses

\* An accepted wager only adds naturals to naturals.
LEMMA AcceptWagerType ==
  ASSUME ControlTypeOK, NEW u \in Users, NEW r \in RoundIDs, NEW o \in Outcomes,
         NEW a \in Amounts, NEW k \in Keys, AcceptWager(u, r, o, a, k)
  PROVE  /\ pools' \in [RoundIDs -> [Outcomes -> Nat]]
         /\ total' \in [RoundIDs -> Nat]
         /\ wagers' \in [RoundIDs -> Wagers]
         /\ bettors' \in [RoundIDs -> SUBSET Users]
         /\ idem' \subseteq Keys
         /\ UNCHANGED <<status, resolved, expired, index, opening>>
<1>. a \in Nat
  BY RoundsAssumption
<1>1. pools' \in [RoundIDs -> [Outcomes -> Nat]]
  <2>1. pools[r][o] + a \in Nat
    BY DEF ControlTypeOK
  <2>2. [pools[r] EXCEPT ![o] = pools[r][o] + a] \in [Outcomes -> Nat]
    BY <2>1 DEF ControlTypeOK
  <2>3. pools' = [pools EXCEPT ![r] = [pools[r] EXCEPT ![o] = pools[r][o] + a]]
    BY DEF ControlTypeOK, AcceptWager, RecordWager
  <2>. QED
    BY <2>2, <2>3 DEF ControlTypeOK
<1>2. total' \in [RoundIDs -> Nat]
  BY DEF ControlTypeOK, AcceptWager, RecordWager
<1>3. wagers' \in [RoundIDs -> Wagers]
  <2>. DEFINE w == [wagers[r] EXCEPT ![<<u, o>>] = wagers[r][<<u, o>>] + a]
  <2>1. wagers[r] \in Wagers /\ <<u, o>> \in Fields
    BY DEF ControlTypeOK, Fields
  <2>2. w \in Wagers
    BY <2>1 DEF Wagers
  <2>3. wagers' = [wagers EXCEPT ![r] = w]
    BY DEF ControlTypeOK, AcceptWager, RecordWager
  <2>. QED
    BY <2>2, <2>3 DEF ControlTypeOK
<1>. QED
  BY <1>1, <1>2, <1>3 DEF ControlTypeOK, AcceptWager, RecordWager

\* A host's Open, step by step.
LEMMA OpenType ==
  ASSUME ControlTypeOK, NEW h \in HostConns,
         \/ OpenReadIndex(h)
         \/ OpenCheckCurrent(h)
         \/ \E r \in RoundIDs : CreateRound(h, r)
         \/ StartWatch(h)
  PROVE  ControlTypeOK'
<1>1. CASE OpenReadIndex(h)
  <2>. DEFINE v == IF index = None THEN Job("openCreate", None, None, NoWagers)
                                   ELSE Job("openCheck", index, None, NoWagers)
  <2>1. v \in HandlerJobs
    BY DEF ControlTypeOK, HandlerJobs, Job
  <2>2. JobsTypeOK'
    BY <1>1, <2>1, HandlerMoves DEF OpenReadIndex, ControlTypeOK
  <2>. QED
    BY <1>1, <2>2 DEF OpenReadIndex, ControlTypeOK, store
<1>2. CASE OpenCheckCurrent(h)
  <2>. DEFINE v == IF status[job[h].round] \in Terminal
                   THEN Job("openCreate", None, None, NoWagers) ELSE Idle
  <2>1. v \in HandlerJobs
    BY DEF HandlerJobs
  <2>2. JobsTypeOK'
    BY <1>2, <2>1, HandlerMoves DEF OpenCheckCurrent, ControlTypeOK
  <2>. QED
    BY <1>2, <2>2 DEF OpenCheckCurrent, ControlTypeOK, store
<1>3. ASSUME NEW r \in RoundIDs, CreateRound(h, r)
      PROVE  ControlTypeOK'
  <2>1. Job("openAnnounce", r, None, NoWagers) \in HandlerJobs
    BY DEF HandlerJobs, Job
  <2>2. JobsTypeOK'
    BY <1>3, <2>1, HandlerMoves DEF CreateRound, ControlTypeOK
  <2>3. status' \in [RoundIDs -> Statuses]
    BY <1>3 DEF CreateRound, ControlTypeOK, Statuses
  <2>4. pools' \in [RoundIDs -> [Outcomes -> Nat]] /\ total' \in [RoundIDs -> Nat]
    BY <1>3 DEF CreateRound, ControlTypeOK
  <2>. QED
    BY <1>3, <2>2, <2>3, <2>4 DEF CreateRound, ControlTypeOK
<1>4. CASE StartWatch(h)
  <2>. DEFINE r == job[h].round
              v == Job("armed", r, None, NoWagers)
  <2>1. job[h] \in HandlerJobs /\ job[h].at = "openAnnounce"
    BY <1>4 DEF StartWatch, ControlTypeOK, JobsTypeOK
  <2>2. r \in RoundIDs
    BY <2>1 DEF HandlerJobs, Job, Idle, SettleSteps
  <2>3. v \in WatchJobs(r)
    BY <2>2, NoWagersType DEF WatchJobs, Job
  <2>4. /\ DOMAIN job' = Goroutines
        /\ \A x \in Goroutines : job'[x] = IF x = r THEN v ELSE IF x = h THEN Idle ELSE job[x]
    BY <1>4, <2>2 DEF StartWatch, ControlTypeOK, JobsTypeOK, Goroutines
  <2>5. ASSUME NEW g \in HostConns PROVE job'[g] \in HandlerJobs
    <3>1. g # r /\ g \in Goroutines
      BY <2>2, RoundsAssumption DEF Goroutines
    <3>2. job'[g] = IF g = h THEN Idle ELSE job[g]
      BY <2>4, <3>1
    <3>. QED
      BY <3>2, IdleIsAJob DEF ControlTypeOK, JobsTypeOK
  <2>6. ASSUME NEW s \in RoundIDs PROVE job'[s] \in WatchJobs(s)
    <3>1. s # h /\ s \in Goroutines
      BY RoundsAssumption DEF Goroutines
    <3>2. job'[s] = IF s = r THEN v ELSE job[s]
      BY <2>4, <3>1
    <3>. QED
      BY <2>3, <3>2 DEF ControlTypeOK, JobsTypeOK
  <2>7. JobsTypeOK'
    BY <2>4, <2>5, <2>6 DEF JobsTypeOK
  <2>. QED
    BY <1>4, <2>7 DEF StartWatch, ControlTypeOK, store
<1>. QED
  BY <1>1, <1>2, <1>3, <1>4

\* A goroutine at one of the settling steps knows a real round.
LEMMA SettlingRound ==
  ASSUME JobsTypeOK, NEW x \in Goroutines, job[x].at \in SettleSteps
  PROVE  job[x].round \in RoundIDs /\ job[x].stakes \in Wagers
<1>1. CASE x \in HostConns
  <2>1. job[x] \in HandlerJobs
    BY <1>1 DEF JobsTypeOK
  <2>. QED
    BY <2>1 DEF HandlerJobs, SettleSteps, Idle, Job
<1>2. CASE x \in RoundIDs
  <2>1. job[x] \in WatchJobs(x)
    BY <1>2 DEF JobsTypeOK
  <2>. QED
    BY <2>1, <1>2, NoWagersType DEF WatchJobs, SettleSteps, Idle, Job
<1>. QED
  BY <1>1, <1>2 DEF Goroutines

\* The steps a resolve and a refund share.
LEMMA SettlingType ==
  ASSUME ControlTypeOK, NEW x \in Goroutines,
         CheckLocked(x) \/ ReadStakes(x) \/ ClearCurrentRound(x)
  PROVE  ControlTypeOK'
<1>. USE DEF ControlTypeOK
<1>1. CASE CheckLocked(x)
  <2>1. CASE Return(x)
    BY <1>1, <2>1, ReturnType DEF CheckLocked, store
  <2>2. CASE Goto(x, "readStakes")
    <3>1. job[x].at \in SettleSteps /\ job[x].stakes \in Wagers
      BY <1>1, SettlingRound DEF CheckLocked, SettleSteps
    <3>3. JobsTypeOK'
      BY <2>2, <3>1, SettlingMoves DEF Goto, SettleSteps
    <3>. QED
      BY <1>1, <3>3 DEF CheckLocked, store
  <2>. QED
    BY <1>1, <2>1, <2>2 DEF CheckLocked
<1>2. CASE ReadStakes(x)
  <2>1. job[x].at \in SettleSteps /\ "apply" \in SettleSteps
    BY <1>2 DEF ReadStakes, SettleSteps
  <2>2. wagers[job[x].round] \in Wagers
    BY <2>1, SettlingRound
  <2>3. JobsTypeOK'
    BY <1>2, <2>1, <2>2, SettlingMoves DEF ReadStakes
  <2>. QED
    BY <1>2, <2>3 DEF ReadStakes, store
<1>3. CASE ClearCurrentRound(x)
  BY <1>3, ReturnType DEF ClearCurrentRound
<1>. QED
  BY <1>1, <1>2, <1>3

\* Moving on to the last step.
LEMMA ClearNextType ==
  ASSUME JobsTypeOK, NEW x \in Goroutines, job[x].at = "apply", Goto(x, "clear")
  PROVE  JobsTypeOK'
<1>1. job[x].at \in SettleSteps /\ "clear" \in SettleSteps
  BY DEF SettleSteps
<1>2. job[x].stakes \in Wagers
  BY <1>1, SettlingRound
<1>. QED
  BY <1>1, <1>2, SettlingMoves DEF Goto

\* A host's settlement and a timer's refund only touch the round they end.
LEMMA ApplyType ==
  ASSUME ControlTypeOK,
         \/ \E h \in HostConns : SettleApply(h)
         \/ \E r \in RoundIDs : RefundApply(r)
  PROVE  ControlTypeOK'
<1>. USE DEF ControlTypeOK
<1>1. ASSUME NEW h \in HostConns, SettleApply(h)
      PROVE  ControlTypeOK'
  <2>. DEFINE r == job[h].round
              win == job[h].win
  <2>0. h \in Goroutines /\ job[h].at = "apply"
    BY <1>1 DEF SettleApply, Goroutines
  <2>1. r \in RoundIDs /\ win \in Outcomes
    <3>1. job[h] \in HandlerJobs
      BY DEF JobsTypeOK
    <3>. QED
      BY <2>0, <3>1 DEF HandlerJobs, SettleSteps, Idle, Job
  <2>2. CASE SettleRoundScript(r, job[h].stakes, win) /\ Goto(h, "clear")
    <3>1. JobsTypeOK'
      BY <2>0, <2>2, ClearNextType
    <3>2. status' \in [RoundIDs -> Statuses]
      BY <2>1, <2>2 DEF SettleRoundScript, Pay, Statuses
    <3>3. resolved' \in [RoundIDs -> Outcomes \cup {None}]
      BY <2>1, <2>2 DEF SettleRoundScript, Pay
    <3>. QED
      BY <1>1, <2>2, <3>1, <3>2, <3>3 DEF SettleApply, SettleRoundScript, Pay
  <2>3. CASE Return(h) /\ UNCHANGED store
    BY <1>1, <2>0, <2>3, ReturnType DEF SettleApply, store
  <2>. QED
    BY <1>1, <2>2, <2>3 DEF SettleApply
<1>2. ASSUME NEW r \in RoundIDs, RefundApply(r)
      PROVE  ControlTypeOK'
  <2>0. r \in Goroutines /\ job[r].at = "apply"
    BY <1>2 DEF RefundApply, Goroutines
  <2>1. job[r].round \in RoundIDs
    BY <2>0, SettlingRound DEF SettleSteps
  <2>2. CASE RefundRoundScript(r, job[r].stakes) /\ Goto(r, "clear")
    <3>1. JobsTypeOK'
      BY <2>0, <2>2, ClearNextType
    <3>2. status' \in [RoundIDs -> Statuses]
      BY <2>2 DEF RefundRoundScript, GiveBack, Statuses
    <3>. QED
      BY <1>2, <2>2, <3>1, <3>2 DEF RefundApply, RefundRoundScript, GiveBack
  <2>3. CASE Return(r) /\ UNCHANGED store
    BY <1>2, <2>0, <2>3, ReturnType DEF RefundApply, store
  <2>. QED
    BY <1>2, <2>2, <2>3 DEF RefundApply
<1>. QED
  BY <1>1, <1>2

\* The round's clock.
LEMMA WatchType ==
  ASSUME ControlTypeOK, NEW r \in RoundIDs, WatchLock(r) \/ WatchReread(r)
  PROVE  ControlTypeOK'
<1>. USE DEF ControlTypeOK
<1>0. r \in Goroutines
  BY DEF Goroutines
<1>1. ASSUME NEW at \in {"grace"} \cup SettleSteps, Goto(r, at),
             job[r].at \in {"armed", "grace"}
      PROVE  JobsTypeOK'
  <2>1. job[r] \in WatchJobs(r)
    BY DEF JobsTypeOK
  <2>2. job[r] \in [at: {"armed", "grace"} \cup SettleSteps, round: {r}, win: {None}, stakes: Wagers]
    BY <1>1, <2>1 DEF WatchJobs, Idle, Job
  <2>3. Job(at, job[r].round, job[r].win, job[r].stakes) \in WatchJobs(r)
    BY <1>1, <2>2 DEF WatchJobs, Job
  <2>. QED
    BY <1>1, <2>3, WatchMoves DEF Goto
<1>2. CASE WatchLock(r)
  <2>1. status' \in [RoundIDs -> Statuses]
    BY <1>2 DEF WatchLock, Statuses
  <2>2. JobsTypeOK'
    BY <1>0, <1>1, <1>2, ReturnType DEF WatchLock
  <2>. QED
    BY <1>2, <2>1, <2>2 DEF WatchLock
<1>3. CASE WatchReread(r)
  <2>2. JobsTypeOK'
    BY <1>0, <1>1, <1>3, ReturnType DEF WatchReread, SettleSteps
  <2>. QED
    BY <1>3, <2>2 DEF WatchReread, store
<1>. QED
  BY <1>2, <1>3

(***************************************************************************)
(* Type correctness of the control state.                                  *)
(***************************************************************************)
LEMMA NextControlType == ControlTypeOK /\ [Next]_vars => ControlTypeOK'
<1>. SUFFICES ASSUME ControlTypeOK, [Next]_vars PROVE ControlTypeOK'
  OBVIOUS
<1>1. ASSUME NEW u \in Users, Player(u)
      PROVE  ControlTypeOK'
  <2>1. ASSUME NEW b \in Grants, JoinRoom(u, b)
        PROVE  ControlTypeOK'
    <3>1. b \in Nat
      BY RoundsAssumption
    <3>. QED
      BY <2>1, <3>1 DEF JoinRoom, ControlTypeOK, JobsTypeOK
  <2>2. CASE WagerPreflight(u) \/ RefuseWager(u)
    BY <2>2 DEF WagerPreflight, RefuseWager, ControlTypeOK, JobsTypeOK, store
  <2>3. ASSUME NEW o \in Outcomes, NEW a \in Amounts, NEW k \in Keys, PlaceWager(u, o, a, k)
        PROVE  ControlTypeOK'
    <3>1. bet[u] \in RoundIDs
      BY <2>3 DEF PlaceWager, ControlTypeOK
    <3>2. AcceptWager(u, bet[u], o, a, k)
      BY <2>3 DEF PlaceWager
    <3>3. /\ pools' \in [RoundIDs -> [Outcomes -> Nat]]
          /\ total' \in [RoundIDs -> Nat]
          /\ wagers' \in [RoundIDs -> Wagers]
          /\ bettors' \in [RoundIDs -> SUBSET Users]
          /\ idem' \subseteq Keys
          /\ UNCHANGED <<status, resolved, expired, index, opening>>
      BY <3>1, <3>2, AcceptWagerType
    <3>4. bet' \in [Users -> RoundIDs \cup {None}] /\ JobsTypeOK'
      BY <2>3 DEF PlaceWager, ControlTypeOK, JobsTypeOK
    <3>. QED
      BY <2>3, <3>3, <3>4 DEF PlaceWager, ControlTypeOK
  <2>. QED
    BY <1>1, <2>1, <2>2, <2>3 DEF Player
<1>2. ASSUME NEW r \in RoundIDs, LockInstantPasses(r)
      PROVE  ControlTypeOK'
  BY <1>2 DEF LockInstantPasses, ControlTypeOK, JobsTypeOK
<1>3. ASSUME NEW r \in RoundIDs, WatchStep(r)
      PROVE  ControlTypeOK'
  BY <1>3, WatchType, SettlingType, ApplyType DEF WatchStep, Goroutines
<1>4. ASSUME NEW h \in HostConns, OpenReadIndex(h) \/ HandlerStep(h)
      PROVE  ControlTypeOK'
  BY <1>4, OpenType, SettlingType, ApplyType DEF HandlerStep, Goroutines
<1>5. ASSUME NEW h \in HostConns, NEW win \in Outcomes, ResolveReadIndex(h, win)
      PROVE  ControlTypeOK'
  <2>1. index \in RoundIDs
    BY <1>5 DEF ResolveReadIndex, ControlTypeOK
  <2>2. Job("checkLocked", index, win, NoWagers) \in HandlerJobs
    BY <2>1, NoWagersType DEF HandlerJobs, Job, SettleSteps
  <2>3. JobsTypeOK'
    BY <1>5, <2>2, HandlerMoves DEF ResolveReadIndex, ControlTypeOK
  <2>. QED
    BY <1>5, <2>3 DEF ResolveReadIndex, ControlTypeOK, store
<1>6. ASSUME NEW x \in Goroutines, CallFails(x)
      PROVE  ControlTypeOK'
  <2>1. JobsTypeOK'
    BY <1>6, ReturnType DEF CallFails, ControlTypeOK
  <2>2. faults' \in 0..MaxFaults
    BY <1>6, RoundsAssumption DEF CallFails, ControlTypeOK
  <2>. QED
    BY <1>6, <2>1, <2>2 DEF CallFails, ControlTypeOK, store
<1>7. CASE ApiCrash
  <2>1. JobsTypeOK'
    BY <1>7, IdleIsAJob DEF ApiCrash, JobsTypeOK, Goroutines
  <2>2. faults' \in 0..MaxFaults
    BY <1>7, RoundsAssumption DEF ApiCrash, ControlTypeOK
  <2>. QED
    BY <1>7, <2>1, <2>2 DEF ApiCrash, ControlTypeOK, store
<1>8. ASSUME NEW k \in Keys, KeyExpires(k)
      PROVE  ControlTypeOK'
  BY <1>8 DEF KeyExpires, ControlTypeOK, JobsTypeOK
<1>9. CASE UNCHANGED vars
  BY <1>9 DEF vars, store, ControlTypeOK, JobsTypeOK
<1>. QED
  BY <1>1, <1>2, <1>3, <1>4, <1>5, <1>6, <1>7, <1>8, <1>9 DEF Next

\* At every step of Open, Resolve, watch and Place the goroutine holds what that step needs,
\* and round state keeps its type.
THEOREM ControlTypeCorrect == Spec => []ControlTypeOK
BY InitControlType, NextControlType, PTL DEF Spec

-----------------------------------------------------------------------------
(***************************************************************************)
(* What one step does to a round.                                          *)
(***************************************************************************)

\* A round's status stays or follows domain.validTransitions.
LEMMA StatusStep ==
  ASSUME ControlTypeOK, [Next]_vars, NEW r \in RoundIDs
  PROVE  status'[r] = status[r] \/ <<status[r], status'[r]>> \in ValidTransitions
<1>. USE DEF ValidTransitions
<1>1. ASSUME NEW u \in Users, Player(u)
      PROVE  status' = status
  BY <1>1 DEF Player, JoinRoom, WagerPreflight, RefuseWager, PlaceWager, AcceptWager,
              RecordWager, store
<1>2. ASSUME NEW s \in RoundIDs, LockInstantPasses(s)
      PROVE  status' = status
  BY <1>2 DEF LockInstantPasses
<1>3. ASSUME NEW s \in RoundIDs, WatchLock(s)
      PROVE  status'[r] = status[r] \/ <<status[r], status'[r]>> \in ValidTransitions
  BY <1>3 DEF WatchLock, ControlTypeOK
<1>4. ASSUME NEW x \in Goroutines,
             CheckLocked(x) \/ ReadStakes(x) \/ ClearCurrentRound(x) \/ CallFails(x)
      PROVE  status' = status
  BY <1>4 DEF CheckLocked, ReadStakes, ClearCurrentRound, CallFails, store
<1>5. ASSUME NEW s \in RoundIDs, WatchReread(s)
      PROVE  status' = status
  BY <1>5 DEF WatchReread, store
<1>6. ASSUME NEW s \in RoundIDs, RefundApply(s)
      PROVE  status'[r] = status[r] \/ <<status[r], status'[r]>> \in ValidTransitions
  BY <1>6 DEF RefundApply, RefundRoundScript, GiveBack, ControlTypeOK, store
<1>7. ASSUME NEW h \in HostConns, SettleApply(h)
      PROVE  status'[r] = status[r] \/ <<status[r], status'[r]>> \in ValidTransitions
  <2>1. CASE SettleRoundScript(job[h].round, job[h].stakes, job[h].win)
    BY <2>1 DEF SettleRoundScript, Pay, ControlTypeOK
  <2>. QED
    BY <1>7, <2>1 DEF SettleApply, store
<1>8. ASSUME NEW h \in HostConns, NEW s \in RoundIDs, CreateRound(h, s)
      PROVE  status'[r] = status[r] \/ <<status[r], status'[r]>> \in ValidTransitions
  BY <1>8 DEF CreateRound, ControlTypeOK
<1>9. ASSUME NEW h \in HostConns,
             \/ OpenReadIndex(h) \/ OpenCheckCurrent(h) \/ StartWatch(h)
             \/ \E win \in Outcomes : ResolveReadIndex(h, win)
      PROVE  status' = status
  BY <1>9 DEF OpenReadIndex, OpenCheckCurrent, StartWatch, ResolveReadIndex, store
<1>10. CASE ApiCrash \/ (\E k \in Keys : KeyExpires(k)) \/ UNCHANGED vars
  BY <1>10 DEF ApiCrash, KeyExpires, vars, store
<1>. QED
  BY <1>1, <1>2, <1>3, <1>4, <1>5, <1>6, <1>7, <1>8, <1>9, <1>10
     DEF Next, WatchStep, HandlerStep, Goroutines

\* Only an open round takes a wager.
LEMMA WagersStep ==
  ASSUME ControlTypeOK, [Next]_vars, NEW r \in RoundIDs, status[r] # "open"
  PROVE  wagers'[r] = wagers[r]
<1>1. ASSUME NEW u \in Users, NEW o \in Outcomes, NEW a \in Amounts, NEW k \in Keys,
             PlaceWager(u, o, a, k)
      PROVE  wagers'[r] = wagers[r]
  <2>1. bet[u] \in RoundIDs /\ bet[u] # r
    BY <1>1 DEF PlaceWager, AcceptWager, ControlTypeOK
  <2>. QED
    BY <1>1, <2>1 DEF PlaceWager, AcceptWager, RecordWager, ControlTypeOK
<1>2. ASSUME NEW u \in Users,
             (\E b \in Grants : JoinRoom(u, b)) \/ WagerPreflight(u) \/ RefuseWager(u)
      PROVE  wagers' = wagers
  BY <1>2 DEF JoinRoom, WagerPreflight, RefuseWager, store
<1>3. ASSUME NEW s \in RoundIDs, LockInstantPasses(s) \/ WatchLock(s) \/ WatchReread(s)
      PROVE  wagers' = wagers
  BY <1>3 DEF LockInstantPasses, WatchLock, WatchReread, store
<1>4. ASSUME NEW x \in Goroutines,
             CheckLocked(x) \/ ReadStakes(x) \/ ClearCurrentRound(x) \/ CallFails(x)
      PROVE  wagers' = wagers
  BY <1>4 DEF CheckLocked, ReadStakes, ClearCurrentRound, CallFails, store
<1>5. ASSUME NEW s \in RoundIDs, RefundApply(s)
      PROVE  wagers' = wagers
  BY <1>5 DEF RefundApply, RefundRoundScript, GiveBack, store
<1>6. ASSUME NEW h \in HostConns, SettleApply(h)
      PROVE  wagers' = wagers
  <2>1. CASE SettleRoundScript(job[h].round, job[h].stakes, job[h].win)
    BY <2>1 DEF SettleRoundScript, Pay
  <2>. QED
    BY <1>6, <2>1 DEF SettleApply, store
<1>7. ASSUME NEW h \in HostConns,
             \/ OpenReadIndex(h) \/ OpenCheckCurrent(h) \/ StartWatch(h)
             \/ \E s \in RoundIDs : CreateRound(h, s)
             \/ \E win \in Outcomes : ResolveReadIndex(h, win)
      PROVE  wagers' = wagers
  BY <1>7 DEF OpenReadIndex, OpenCheckCurrent, StartWatch, CreateRound, ResolveReadIndex, store
<1>8. CASE ApiCrash \/ (\E k \in Keys : KeyExpires(k)) \/ UNCHANGED vars
  BY <1>8 DEF ApiCrash, KeyExpires, vars, store
<1>. QED
  BY <1>1, <1>2, <1>3, <1>4, <1>5, <1>6, <1>7, <1>8
     DEF Next, Player, WatchStep, HandlerStep, Goroutines

\* A goroutine gets past the locked check, and past its read of the stakes,
\* in the step that does so and in no other.
LEMMA JobStep ==
  ASSUME ControlTypeOK, [Next]_vars, NEW x \in Goroutines,
         job'[x].at \in {"readStakes", "apply"}
  PROVE  \/ job'[x] = job[x]
         \/ /\ job'[x].at = "readStakes"
            /\ job'[x].round = job[x].round
            /\ status[job[x].round] = "locked"
            /\ status' = status
         \/ /\ ReadStakes(x)
            /\ job'[x].round = job[x].round
            /\ job'[x].stakes = wagers[job[x].round]
<1>. DEFINE Goal == \/ job'[x] = job[x]
                    \/ /\ job'[x].at = "readStakes"
                       /\ job'[x].round = job[x].round
                       /\ status[job[x].round] = "locked"
                       /\ status' = status
                    \/ /\ ReadStakes(x)
                       /\ job'[x].round = job[x].round
                       /\ job'[x].stakes = wagers[job[x].round]
<1>0. DOMAIN job = Goroutines
  BY DEF ControlTypeOK, JobsTypeOK
<1>1. ASSUME NEW y \in Goroutines, NEW v,
             job' = [job EXCEPT ![y] = v], v.at \notin {"readStakes", "apply"}
      PROVE  Goal
  BY <1>0, <1>1
<1>2. ASSUME NEW y \in Goroutines, Return(y)
      PROVE  Goal
  BY <1>1, <1>2 DEF Return, Idle, Job
<1>3. ASSUME NEW y \in Goroutines, NEW at \in {"grace", "checkLocked", "clear"}, Goto(y, at)
      PROVE  Goal
  BY <1>1, <1>3 DEF Goto, Job
<1>4. ASSUME NEW y \in Goroutines, CheckLocked(y)
      PROVE  Goal
  <2>1. CASE status[job[y].round] = "locked" /\ Goto(y, "readStakes") /\ status' = status
    BY <1>0, <2>1 DEF Goto, Job
  <2>. QED
    BY <1>2, <1>4, <2>1 DEF CheckLocked, store
<1>5. ASSUME NEW y \in Goroutines, ReadStakes(y)
      PROVE  Goal
  BY <1>0, <1>5 DEF ReadStakes, Job
<1>6. ASSUME NEW y \in Goroutines, ClearCurrentRound(y) \/ CallFails(y)
      PROVE  Goal
  BY <1>2, <1>6 DEF ClearCurrentRound, CallFails
<1>7. ASSUME NEW r \in RoundIDs, WatchLock(r) \/ WatchReread(r) \/ RefundApply(r)
      PROVE  Goal
  <2>1. r \in Goroutines
    BY DEF Goroutines
  <2>. QED
    BY <1>2, <1>3, <1>7, <2>1 DEF WatchLock, WatchReread, RefundApply
<1>8. ASSUME NEW h \in HostConns, SettleApply(h)
      PROVE  Goal
  <2>1. h \in Goroutines
    BY DEF Goroutines
  <2>. QED
    BY <1>2, <1>3, <1>8, <2>1 DEF SettleApply
<1>9. ASSUME NEW h \in HostConns,
             \/ OpenReadIndex(h) \/ OpenCheckCurrent(h)
             \/ \E r \in RoundIDs : CreateRound(h, r)
             \/ \E win \in Outcomes : ResolveReadIndex(h, win)
      PROVE  Goal
  <2>1. h \in Goroutines
    BY DEF Goroutines
  <2>. QED
    BY <1>1, <1>9, <2>1
       DEF OpenReadIndex, OpenCheckCurrent, CreateRound, ResolveReadIndex, Idle, Job
<1>10. ASSUME NEW h \in HostConns, StartWatch(h)
       PROVE  Goal
  BY <1>0, <1>10 DEF StartWatch, Idle, Job
<1>11. CASE ApiCrash
  BY <1>0, <1>11 DEF ApiCrash, Idle, Job
<1>12. ASSUME NEW u \in Users, Player(u)
       PROVE  job' = job
  BY <1>12 DEF Player, JoinRoom, WagerPreflight, RefuseWager, PlaceWager
<1>13. ASSUME (\E r \in RoundIDs : LockInstantPasses(r)) \/ (\E k \in Keys : KeyExpires(k))
       PROVE  job' = job
  BY <1>13 DEF LockInstantPasses, KeyExpires
<1>14. CASE UNCHANGED vars
  BY <1>14 DEF vars
<1>. QED
  BY <1>4, <1>5, <1>6, <1>7, <1>8, <1>9, <1>10, <1>11, <1>12, <1>13, <1>14
     DEF Next, WatchStep, HandlerStep, Goroutines

(***************************************************************************)
(* A settlement in flight holds the stakes the round still holds.          *)
(***************************************************************************)
LEMMA NextSnapshot ==
  ControlTypeOK /\ SnapshotIsCurrent /\ [Next]_vars => SnapshotIsCurrent'
<1>. SUFFICES ASSUME ControlTypeOK, SnapshotIsCurrent, [Next]_vars,
                     NEW x \in Goroutines,
                     job'[x].at \in {"readStakes", "apply"}
              PROVE  /\ status'[job'[x].round] \notin {"none", "open"}
                     /\ job'[x].at = "apply" => job'[x].stakes = wagers'[job'[x].round]
  BY DEF SnapshotIsCurrent
\* A round past "open" stays past "open" and takes no wager.
<1>1. ASSUME NEW r \in RoundIDs, status[r] \notin {"none", "open"}
      PROVE  status'[r] \notin {"none", "open"} /\ wagers'[r] = wagers[r]
  BY <1>1, StatusStep, WagersStep DEF ValidTransitions
<1>2. CASE job'[x] = job[x]
  <2>1. job[x].round \in RoundIDs
    BY <1>2, SettlingRound DEF SettleSteps, ControlTypeOK
  <2>. QED
    BY <1>1, <1>2, <2>1 DEF SnapshotIsCurrent
<1>3. CASE /\ job'[x].at = "readStakes"
           /\ job'[x].round = job[x].round
           /\ status[job[x].round] = "locked"
           /\ status' = status
  BY <1>3
<1>4. CASE /\ ReadStakes(x)
           /\ job'[x].round = job[x].round
           /\ job'[x].stakes = wagers[job[x].round]
  <2>1. job[x].at = "readStakes"
    BY <1>4 DEF ReadStakes
  <2>2. job[x].round \in RoundIDs /\ status[job[x].round] \notin {"none", "open"}
    BY <2>1, SettlingRound DEF SettleSteps, ControlTypeOK, SnapshotIsCurrent
  <2>. QED
    BY <1>1, <1>4, <2>2
<1>. QED
  BY <1>2, <1>3, <1>4, JobStep

\* Nobody has read any stakes yet.
LEMMA InitSnapshot == Init => SnapshotIsCurrent
BY DEF Init, SnapshotIsCurrent, Idle, Job

\* The stakes a settlement is about to apply are still those of its round.
THEOREM SnapshotCorrect == Spec => []SnapshotIsCurrent
<1>1. Init => ControlTypeOK /\ SnapshotIsCurrent
  BY InitControlType, InitSnapshot
<1>2. ControlTypeOK /\ SnapshotIsCurrent /\ [Next]_vars
        => ControlTypeOK' /\ SnapshotIsCurrent'
  BY NextControlType, NextSnapshot
<1>. QED
  BY <1>1, <1>2, PTL DEF Spec

(***************************************************************************)
(* No step relocks, reopens or resettles a round.                          *)
(***************************************************************************)
THEOREM LifecycleCorrect == Spec => StatusFollowsLifecycle
<1>1. ControlTypeOK /\ [Next]_vars =>
        [\A r \in RoundIDs :
           status'[r] # status[r] => <<status[r], status'[r]>> \in ValidTransitions]_status
  BY StatusStep
<1>. QED
  BY <1>1, ControlTypeCorrect, PTL DEF Spec, StatusFollowsLifecycle

-----------------------------------------------------------------------------
(***************************************************************************)
(* The outbox stream.  Here it only has to be a sequence; what its entries *)
(* are takes the sums of settlement arithmetic and comes with the money.   *)
(***************************************************************************)
IsStream(s) == \E S : s \in Seq(S)

\* What a sequence is after Append.
LEMMA AppendToStream ==
  ASSUME NEW s, IsStream(s), NEW e
  PROVE  /\ IsStream(Append(s, e))
         /\ Len(s) \in Nat
         /\ DOMAIN s = 1..Len(s)
         /\ DOMAIN Append(s, e) = 1..(Len(s) + 1)
         /\ \A i \in DOMAIN s : Append(s, e)[i] = s[i]
         /\ Append(s, e)[Len(s) + 1] = e
<1>1. PICK S : s \in Seq(S)
  BY DEF IsStream
<1>. DEFINE T == S \cup {e}
<1>2. s \in Seq(T) /\ e \in T
  BY <1>1
<1>3. Append(s, e) \in Seq(T)
  BY <1>2
<1>. QED
  BY <1>2, <1>3 DEF IsStream

(***************************************************************************)
(* What one step does to the stream and to the cached replies: nothing,    *)
(* one wager of a round that takes wagers under a key without a reply, one *)
(* settlement of a locked round, which it ends, or one reply forgotten.    *)
(***************************************************************************)
AppendsNothing ==
  /\ UNCHANGED <<outbox, idem>>
  /\ \A r \in RoundIDs :
       /\ status'[r] \in Terminal <=> status[r] \in Terminal
       /\ status[r] # "none" => status'[r] # "none" /\ (TakesWagers(r)' => TakesWagers(r))

AppendsWager ==
  \E r \in RoundIDs, k \in Keys : \E e :
    /\ e.type = "wager_placed" /\ e.round = r /\ e.key = k
    /\ outbox' = Append(outbox, e)
    /\ TakesWagers(r)
    /\ UNCHANGED <<status, expired>>
    /\ k \notin idem
    /\ idem' = idem \cup {k}

AppendsSettlement ==
  \E r \in RoundIDs : \E e :
    /\ e.type \in {"round_settled", "round_refunded"} /\ e.round = r
    /\ outbox' = Append(outbox, e)
    /\ status[r] = "locked"
    /\ \E t \in Terminal : status' = [status EXCEPT ![r] = t]
    /\ UNCHANGED <<expired, idem>>

ForgetsReply ==
  \E k \in Keys :
    /\ \A i \in DOMAIN outbox :
         IsWager(outbox[i]) /\ outbox[i].key = k => ~TakesWagers(outbox[i].round)
    /\ idem' = idem \ {k}
    /\ UNCHANGED <<status, expired, outbox>>

\* Every step of the room is one of the four.
LEMMA StreamStep ==
  ASSUME ControlTypeOK, [Next]_vars
  PROVE  AppendsNothing \/ AppendsWager \/ AppendsSettlement \/ ForgetsReply
<1>1. ASSUME UNCHANGED <<status, expired, outbox, idem>>
      PROVE  AppendsNothing
  BY <1>1 DEF AppendsNothing, TakesWagers
<1>2. ASSUME NEW u \in Users, NEW o \in Outcomes, NEW a \in Amounts, NEW k \in Keys,
             PlaceWager(u, o, a, k)
      PROVE  AppendsWager
  <2>. DEFINE e == WagerEvent(u, bet[u], o, a, k)
  <2>1. AcceptWager(u, bet[u], o, a, k) /\ bet[u] \in RoundIDs
    BY <1>2 DEF PlaceWager, ControlTypeOK
  <2>2. e.type = "wager_placed" /\ e.round = bet[u] /\ e.key = k
    BY DEF WagerEvent
  <2>. QED
    BY <2>1, <2>2 DEF AcceptWager, RecordWager, AppendsWager, TakesWagers
<1>3. ASSUME NEW h \in HostConns, SettleApply(h)
      PROVE  AppendsNothing \/ AppendsSettlement
  <2>. DEFINE r == job[h].round
              w == job[h].stakes
              win == job[h].win
  <2>1. CASE SettleRoundScript(r, w, win)
    <3>. DEFINE refund == IsRefund(w, win)
                e == SettlementEvent(IF refund THEN "round_refunded" ELSE "round_settled", r,
                                     IF refund THEN None ELSE win,
                                     TotalStaked(w), Dust(w, win), Credits(w, win))
                t == IF refund THEN "refunded" ELSE "resolved"
    <3>1. r \in RoundIDs
      BY <1>3, SettlingRound DEF SettleApply, SettleSteps, ControlTypeOK, Goroutines
    <3>2. e.type \in {"round_settled", "round_refunded"} /\ e.round = r /\ t \in Terminal
      BY DEF SettlementEvent, Terminal
    <3>3. /\ outbox' = Append(outbox, e)
          /\ status[r] = "locked"
          /\ status' = [status EXCEPT ![r] = t]
          /\ UNCHANGED <<expired, idem>>
      BY <2>1 DEF SettleRoundScript, Pay
    <3>. QED
      BY <3>1, <3>2, <3>3 DEF AppendsSettlement
  <2>2. CASE UNCHANGED store
    BY <1>1, <2>2 DEF store
  <2>. QED
    BY <1>3, <2>1, <2>2 DEF SettleApply
<1>4. ASSUME NEW s \in RoundIDs, RefundApply(s)
      PROVE  AppendsNothing \/ AppendsSettlement
  <2>. DEFINE w == job[s].stakes
  <2>1. CASE RefundRoundScript(s, w)
    <3>. DEFINE e == SettlementEvent("round_refunded", s, None, TotalStaked(w), 0,
                                     AggregateStakes(w))
    <3>1. e.type \in {"round_settled", "round_refunded"} /\ e.round = s
      BY DEF SettlementEvent
    <3>2. /\ outbox' = Append(outbox, e)
          /\ status[s] = "locked"
          /\ status' = [status EXCEPT ![s] = "refunded"]
          /\ UNCHANGED <<expired, idem>>
      BY <2>1 DEF RefundRoundScript, GiveBack
    <3>. QED
      BY <3>1, <3>2 DEF AppendsSettlement, Terminal
  <2>2. CASE UNCHANGED store
    BY <1>1, <2>2 DEF store
  <2>. QED
    BY <1>4, <2>1, <2>2 DEF RefundApply
<1>5. ASSUME NEW h \in HostConns, NEW s \in RoundIDs, CreateRound(h, s)
      PROVE  AppendsNothing
  BY <1>5 DEF CreateRound, AppendsNothing, TakesWagers, ControlTypeOK, Terminal
<1>6. ASSUME NEW s \in RoundIDs, WatchLock(s)
      PROVE  AppendsNothing
  BY <1>6 DEF WatchLock, AppendsNothing, TakesWagers, ControlTypeOK, Terminal
<1>7. ASSUME NEW u \in Users,
             (\E b \in Grants : JoinRoom(u, b)) \/ WagerPreflight(u) \/ RefuseWager(u)
      PROVE  AppendsNothing
  BY <1>1, <1>7 DEF JoinRoom, WagerPreflight, RefuseWager, store
<1>8. ASSUME NEW s \in RoundIDs, LockInstantPasses(s) \/ WatchReread(s)
      PROVE  AppendsNothing
  <2>1. CASE LockInstantPasses(s)
    BY <2>1 DEF LockInstantPasses, AppendsNothing, TakesWagers, ControlTypeOK
  <2>2. CASE WatchReread(s)
    BY <1>1, <2>2 DEF WatchReread, store
  <2>. QED
    BY <1>8, <2>1, <2>2
<1>9. ASSUME NEW x \in Goroutines,
             CheckLocked(x) \/ ReadStakes(x) \/ ClearCurrentRound(x) \/ CallFails(x)
      PROVE  AppendsNothing
  BY <1>1, <1>9 DEF CheckLocked, ReadStakes, ClearCurrentRound, CallFails, store
<1>10. ASSUME NEW h \in HostConns,
             \/ OpenReadIndex(h) \/ OpenCheckCurrent(h) \/ StartWatch(h)
             \/ \E win \in Outcomes : ResolveReadIndex(h, win)
      PROVE  AppendsNothing
  BY <1>1, <1>10 DEF OpenReadIndex, OpenCheckCurrent, StartWatch, ResolveReadIndex, store
<1>11. CASE ApiCrash \/ UNCHANGED vars
  BY <1>1, <1>11 DEF ApiCrash, vars, store
<1>12. ASSUME NEW k \in Keys, KeyExpires(k)
       PROVE  ForgetsReply
  BY <1>12 DEF KeyExpires, ForgetsReply
<1>. QED
  BY <1>2, <1>3, <1>4, <1>5, <1>6, <1>7, <1>8, <1>9, <1>10, <1>11, <1>12
     DEF Next, Player, WatchStep, HandlerStep, Goroutines

(***************************************************************************)
(* The part of the inductive invariant that is about the stream: every     *)
(* settlement belongs to a round that has ended, and an ended round's      *)
(* settlements, the wagers before them and the cached keys are as promised.*)
(***************************************************************************)
SettlementsOf(r) ==
  {i \in DOMAIN outbox : IsSettlement(outbox[i]) /\ outbox[i].round = r}

\* A settlement in the stream is of an ended round.
SettlementsAreOfEnded ==
  \A i \in DOMAIN outbox :
    IsSettlement(outbox[i]) =>
      outbox[i].round \in RoundIDs /\ status[outbox[i].round] \in Terminal

\* A wager in the stream is of a round that was opened.
WagersAreOfOpened ==
  \A i \in DOMAIN outbox :
    IsWager(outbox[i]) => outbox[i].round \in RoundIDs /\ status[outbox[i].round] # "none"

StreamInv ==
  /\ IsStream(outbox)
  /\ SettlementsAreOfEnded
  /\ WagersAreOfOpened
  /\ NoWagerAfterSettlement
  /\ OneDebitPerKey
  /\ SettledExactlyOnce

\* The stream starts empty.
LEMMA InitStream == ASSUME Init PROVE StreamInv
<1>1. IsStream(outbox) /\ DOMAIN outbox = {}
  <2>1. outbox = << >> /\ << >> \in Seq({})
    BY DEF Init
  <2>. QED
    BY <2>1 DEF IsStream
<1>2. SettledExactlyOnce
  <2>. SUFFICES ASSUME NEW r \in RoundIDs
                PROVE  Cardinality(SettlementsOf(r)) = IF status[r] \in Terminal THEN 1 ELSE 0
    BY DEF SettledExactlyOnce, SettlementsOf
  <2>1. SettlementsOf(r) = {}
    BY <1>1 DEF SettlementsOf
  <2>2. status[r] \notin Terminal
    BY DEF Init, Terminal
  <2>. QED
    BY <2>1, <2>2, FS_EmptySet
<1>. QED
  BY <1>1, <1>2 DEF StreamInv, SettlementsAreOfEnded, WagersAreOfOpened,
                    NoWagerAfterSettlement, OneDebitPerKey

\* Appending adds one index above all others.
LEMMA OneMoreEntry ==
  ASSUME IsStream(outbox), NEW e, outbox' = Append(outbox, e)
  PROVE  LET n == Len(outbox) + 1
         IN  /\ IsStream(outbox')
             /\ n \in Nat /\ n \notin DOMAIN outbox
             /\ \A i \in DOMAIN outbox : i < n
             /\ DOMAIN outbox' = DOMAIN outbox \cup {n}
             /\ \A i \in DOMAIN outbox : outbox'[i] = outbox[i]
             /\ outbox'[n] = e
<1>1. /\ IsStream(outbox')
      /\ Len(outbox) \in Nat
      /\ DOMAIN outbox = 1..Len(outbox)
      /\ DOMAIN outbox' = 1..(Len(outbox) + 1)
      /\ \A i \in DOMAIN outbox : outbox'[i] = outbox[i]
      /\ outbox'[Len(outbox) + 1] = e
  BY AppendToStream
<1>. QED
  BY <1>1

LEMMA StreamAppendsNothing ==
  ASSUME StreamInv, AppendsNothing
  PROVE  StreamInv'
<1>1. \A r \in RoundIDs : SettlementsOf(r)' = SettlementsOf(r)
  BY DEF AppendsNothing, SettlementsOf
<1>2. SettledExactlyOnce'
  BY DEF AppendsNothing, StreamInv, SettledExactlyOnce
<1>3. WagersAreOfOpened' /\ OneDebitPerKey'
  BY DEF AppendsNothing, StreamInv, WagersAreOfOpened, OneDebitPerKey
<1>. QED
  BY <1>2, <1>3 DEF AppendsNothing, StreamInv, SettlementsAreOfEnded, NoWagerAfterSettlement

LEMMA StreamForgetsReply ==
  ASSUME StreamInv, ForgetsReply
  PROVE  StreamInv'
<1>1. PICK k \in Keys :
        /\ \A i \in DOMAIN outbox :
             IsWager(outbox[i]) /\ outbox[i].key = k => ~TakesWagers(outbox[i].round)
        /\ idem' = idem \ {k}
        /\ UNCHANGED <<status, expired, outbox>>
  BY DEF ForgetsReply
<1>2. \A r : TakesWagers(r)' <=> TakesWagers(r)
  BY <1>1 DEF TakesWagers
<1>3. OneDebitPerKey'
  BY <1>1, <1>2 DEF StreamInv, OneDebitPerKey
<1>4. SettledExactlyOnce'
  BY <1>1 DEF StreamInv, SettledExactlyOnce
<1>. QED
  BY <1>1, <1>3, <1>4 DEF StreamInv, SettlementsAreOfEnded, WagersAreOfOpened,
                          NoWagerAfterSettlement

LEMMA StreamAppendsWager ==
  ASSUME StreamInv, AppendsWager
  PROVE  StreamInv'
<1>1. PICK r \in RoundIDs, k \in Keys : \E e :
        /\ e.type = "wager_placed" /\ e.round = r /\ e.key = k
        /\ outbox' = Append(outbox, e)
        /\ TakesWagers(r)
        /\ UNCHANGED <<status, expired>>
        /\ k \notin idem
        /\ idem' = idem \cup {k}
  BY DEF AppendsWager
<1>2. PICK e :
        /\ e.type = "wager_placed" /\ e.round = r /\ e.key = k
        /\ outbox' = Append(outbox, e)
        /\ TakesWagers(r)
        /\ UNCHANGED <<status, expired>>
        /\ k \notin idem
        /\ idem' = idem \cup {k}
  BY <1>1
<1>. DEFINE n == Len(outbox) + 1
<1>3. /\ IsStream(outbox')
      /\ n \in Nat /\ n \notin DOMAIN outbox
      /\ \A i \in DOMAIN outbox : i < n
      /\ DOMAIN outbox' = DOMAIN outbox \cup {n}
      /\ \A i \in DOMAIN outbox : outbox'[i] = outbox[i]
      /\ outbox'[n] = e
  BY <1>2, OneMoreEntry DEF StreamInv
<1>. HIDE DEF n
<1>4. IsWager(e) /\ ~IsSettlement(e)
  BY <1>2 DEF IsWager, IsSettlement
<1>5. SettlementsAreOfEnded'
  BY <1>2, <1>3, <1>4 DEF StreamInv, SettlementsAreOfEnded
<1>6. NoWagerAfterSettlement'
  <2>. SUFFICES ASSUME NEW i \in DOMAIN outbox', NEW j \in DOMAIN outbox',
                       IsSettlement(outbox'[i]), IsWager(outbox'[j]),
                       outbox'[i].round = outbox'[j].round
                PROVE  j < i
    BY DEF NoWagerAfterSettlement, IsSettlement, IsWager
  <2>1. i \in DOMAIN outbox
    BY <1>3, <1>4
  <2>2. status[outbox[i].round] \in Terminal
    BY <1>3, <2>1 DEF StreamInv, SettlementsAreOfEnded
  <2>3. j # n
    BY <1>2, <1>3, <2>1, <2>2 DEF Terminal, TakesWagers
  <2>. QED
    BY <1>3, <2>1, <2>3 DEF StreamInv, NoWagerAfterSettlement
<1>7. WagersAreOfOpened' /\ OneDebitPerKey'
  <2>1. \A i \in DOMAIN outbox :
          IsWager(outbox[i]) /\ outbox[i].round = r => outbox[i].key # k
    BY <1>2 DEF StreamInv, OneDebitPerKey
  <2>2. status[r] # "none"
    BY <1>2 DEF TakesWagers
  <2>3. WagersAreOfOpened'
    BY <1>2, <1>3, <2>2 DEF StreamInv, WagersAreOfOpened, IsWager
  <2>4. ASSUME NEW i \in DOMAIN outbox', NEW j \in DOMAIN outbox',
               IsWager(outbox'[i]), IsWager(outbox'[j]), outbox'[i].key = outbox'[j].key,
               outbox'[i].round = outbox'[j].round
        PROVE  i = j
    BY <1>2, <1>3, <2>1, <2>4 DEF StreamInv, OneDebitPerKey
  <2>5. ASSUME NEW i \in DOMAIN outbox', IsWager(outbox'[i]),
               status'[outbox'[i].round] = "open", ~expired'[outbox'[i].round]
        PROVE  outbox'[i].key \in idem'
    BY <1>2, <1>3, <2>5 DEF StreamInv, OneDebitPerKey, TakesWagers
  <2>. QED
    BY <2>3, <2>4, <2>5 DEF OneDebitPerKey, IsWager, TakesWagers
<1>8. SettledExactlyOnce'
  <2>. SUFFICES ASSUME NEW s \in RoundIDs
                PROVE  Cardinality(SettlementsOf(s)') = IF status'[s] \in Terminal THEN 1 ELSE 0
    BY DEF SettledExactlyOnce, SettlementsOf, IsSettlement
  <2>1. SettlementsOf(s)' = SettlementsOf(s)
    BY <1>3, <1>4 DEF SettlementsOf, IsSettlement
  <2>. QED
    BY <1>2, <2>1 DEF StreamInv, SettledExactlyOnce, SettlementsOf
<1>. QED
  BY <1>3, <1>5, <1>6, <1>7, <1>8 DEF StreamInv

LEMMA StreamAppendsSettlement ==
  ASSUME ControlTypeOK, StreamInv, AppendsSettlement
  PROVE  StreamInv'
<1>1. PICK r \in RoundIDs : \E e :
        /\ e.type \in {"round_settled", "round_refunded"} /\ e.round = r
        /\ outbox' = Append(outbox, e)
        /\ status[r] = "locked"
        /\ \E t \in Terminal : status' = [status EXCEPT ![r] = t]
        /\ UNCHANGED <<expired, idem>>
  BY DEF AppendsSettlement
<1>2. PICK e :
        /\ e.type \in {"round_settled", "round_refunded"} /\ e.round = r
        /\ outbox' = Append(outbox, e)
        /\ status[r] = "locked"
        /\ \E t \in Terminal : status' = [status EXCEPT ![r] = t]
        /\ UNCHANGED <<expired, idem>>
  BY <1>1
<1>. DEFINE n == Len(outbox) + 1
<1>3. /\ IsStream(outbox')
      /\ n \in Nat /\ n \notin DOMAIN outbox
      /\ \A i \in DOMAIN outbox : i < n
      /\ DOMAIN outbox' = DOMAIN outbox \cup {n}
      /\ \A i \in DOMAIN outbox : outbox'[i] = outbox[i]
      /\ outbox'[n] = e
  BY <1>2, OneMoreEntry DEF StreamInv
<1>. HIDE DEF n
<1>4. IsSettlement(e) /\ ~IsWager(e)
  BY <1>2 DEF IsWager, IsSettlement
<1>5. /\ status[r] \notin Terminal
      /\ status'[r] \in Terminal
      /\ \A s \in RoundIDs : s # r => status'[s] = status[s]
  BY <1>2 DEF ControlTypeOK, Terminal
<1>6. SettlementsAreOfEnded'
  <2>. SUFFICES ASSUME NEW i \in DOMAIN outbox', IsSettlement(outbox'[i])
                PROVE  outbox'[i].round \in RoundIDs /\ status'[outbox'[i].round] \in Terminal
    BY DEF SettlementsAreOfEnded, IsSettlement, Terminal
  <2>1. CASE i = n
    BY <1>2, <1>3, <1>5, <2>1
  <2>2. CASE i \in DOMAIN outbox
    <3>1. outbox[i].round \in RoundIDs /\ status[outbox[i].round] \in Terminal
      BY <1>3, <2>2 DEF StreamInv, SettlementsAreOfEnded
    <3>. QED
      BY <1>3, <1>5, <2>2, <3>1
  <2>. QED
    BY <1>3, <2>1, <2>2
<1>7. NoWagerAfterSettlement'
  <2>. SUFFICES ASSUME NEW i \in DOMAIN outbox', NEW j \in DOMAIN outbox',
                       IsSettlement(outbox'[i]), IsWager(outbox'[j]),
                       outbox'[i].round = outbox'[j].round
                PROVE  j < i
    BY DEF NoWagerAfterSettlement, IsSettlement, IsWager
  <2>1. j \in DOMAIN outbox
    BY <1>3, <1>4
  <2>. QED
    BY <1>3, <2>1 DEF StreamInv, NoWagerAfterSettlement
<1>8. WagersAreOfOpened' /\ OneDebitPerKey'
  <2>1. \A s \in RoundIDs : status'[s] = "open" => status[s] = "open"
    BY <1>5 DEF Terminal
  <2>2. \A s \in RoundIDs : status[s] # "none" => status'[s] # "none"
    BY <1>5 DEF Terminal
  <2>3. ASSUME NEW i \in DOMAIN outbox', IsWager(outbox'[i])
        PROVE  i \in DOMAIN outbox /\ outbox'[i] = outbox[i] /\ outbox[i].round \in RoundIDs
    BY <1>3, <1>4, <2>3 DEF StreamInv, WagersAreOfOpened
  <2>4. WagersAreOfOpened'
    BY <2>2, <2>3 DEF StreamInv, WagersAreOfOpened, IsWager
  <2>5. ASSUME NEW i \in DOMAIN outbox', NEW j \in DOMAIN outbox',
               IsWager(outbox'[i]), IsWager(outbox'[j]), outbox'[i].key = outbox'[j].key,
               outbox'[i].round = outbox'[j].round
        PROVE  i = j
    BY <2>3, <2>5 DEF StreamInv, OneDebitPerKey
  <2>6. ASSUME NEW i \in DOMAIN outbox', IsWager(outbox'[i]),
               status'[outbox'[i].round] = "open", ~expired'[outbox'[i].round]
        PROVE  outbox'[i].key \in idem'
    BY <1>2, <2>1, <2>3, <2>6 DEF StreamInv, OneDebitPerKey, TakesWagers
  <2>. QED
    BY <2>4, <2>5, <2>6 DEF OneDebitPerKey, IsWager, TakesWagers
<1>9. SettledExactlyOnce'
  <2>. SUFFICES ASSUME NEW s \in RoundIDs
                PROVE  Cardinality(SettlementsOf(s)') = IF status'[s] \in Terminal THEN 1 ELSE 0
    BY DEF SettledExactlyOnce, SettlementsOf, IsSettlement
  <2>1. CASE s = r
    <3>1. SettlementsOf(r) = {}
      BY <1>5 DEF StreamInv, SettlementsAreOfEnded, SettlementsOf
    <3>2. SettlementsOf(r)' = {n}
      BY <1>2, <1>3, <1>4, <3>1 DEF SettlementsOf, IsSettlement
    <3>. QED
      BY <1>5, <2>1, <3>2, FS_Singleton
  <2>2. CASE s # r
    <3>1. SettlementsOf(s)' = SettlementsOf(s)
      BY <1>2, <1>3, <2>2 DEF SettlementsOf, IsSettlement
    <3>. QED
      BY <1>5, <2>2, <3>1 DEF StreamInv, SettledExactlyOnce, SettlementsOf
  <2>. QED
    BY <2>1, <2>2
<1>. QED
  BY <1>3, <1>6, <1>7, <1>8, <1>9 DEF StreamInv

(***************************************************************************)
(* The inductive invariant and what follows from it.                       *)
(***************************************************************************)
RoundsInv == ControlTypeOK /\ SnapshotIsCurrent /\ StreamInv

\* Types, snapshots and the stream support each other in every step.
THEOREM RoundsInvariant == Spec => []RoundsInv
<1>1. Init => RoundsInv
  BY InitControlType, InitSnapshot, InitStream DEF RoundsInv
<1>2. RoundsInv /\ [Next]_vars => RoundsInv'
  <2>. SUFFICES ASSUME RoundsInv, [Next]_vars PROVE RoundsInv'
    OBVIOUS
  <2>1. ControlTypeOK' /\ SnapshotIsCurrent'
    BY NextControlType, NextSnapshot DEF RoundsInv
  <2>2. StreamInv'
    BY StreamStep, StreamAppendsNothing, StreamAppendsWager, StreamAppendsSettlement,
       StreamForgetsReply DEF RoundsInv
  <2>. QED
    BY <2>1, <2>2 DEF RoundsInv
<1>. QED
  BY <1>1, <1>2, PTL DEF Spec

(***************************************************************************)
(* However resolves and the refund timer race, a round is paid out once.   *)
(***************************************************************************)
THEOREM SettledOnceCorrect == Spec => []SettledExactlyOnce
<1>1. RoundsInv => SettledExactlyOnce
  BY DEF RoundsInv, StreamInv
<1>. QED
  BY <1>1, RoundsInvariant, PTL

(***************************************************************************)
(* The stream never carries a wager behind the settlement of its round.    *)
(***************************************************************************)
THEOREM WagerOrderCorrect == Spec => []NoWagerAfterSettlement
<1>1. RoundsInv => NoWagerAfterSettlement
  BY DEF RoundsInv, StreamInv
<1>. QED
  BY <1>1, RoundsInvariant, PTL

(***************************************************************************)
(* A retried wager debits its round once, although replies are forgotten.  *)
(***************************************************************************)
THEOREM OneDebitCorrect == Spec => []OneDebitPerKey
<1>1. RoundsInv => OneDebitPerKey
  BY DEF RoundsInv, StreamInv
<1>. QED
  BY <1>1, RoundsInvariant, PTL

-----------------------------------------------------------------------------
(***************************************************************************)
(* When CurrentRound keeps its promise.  ClearCurrentRound may delete the  *)
(* index of a round opened since, and then LiveRoundIsCurrent fails; this  *)
(* section shows that nothing else makes it fail while the host has one    *)
(* socket, whose ReadPump runs Open to its end before the next handler.    *)
(***************************************************************************)
OneSocket == \A g, h \in HostConns : g = h

\* What ClearCurrentRound would do if it compared before it deleted.
ClearsOwnRound ==
  \A x \in Goroutines : ClearCurrentRound(x) => index \in {job[x].round, None}

(***************************************************************************)
(* The host's Open has looked at every live round before it creates one,   *)
(* and a goroutine clears the index only for a round that has ended.       *)
(***************************************************************************)
OpenHasLooked ==
  \A h \in HostConns :
    /\ job[h].at = "openCreate" => \A r \in RoundIDs : status[r] \notin Live
    /\ job[h].at = "openCheck"  => \A r \in RoundIDs : status[r] \in Live => r = job[h].round

ClearsEnded == \A x \in Goroutines : job[x].at = "clear" => status[job[x].round] \in Terminal

CurrentInv == LiveRoundIsCurrent /\ OpenHasLooked /\ ClearsEnded

\* A round comes to life in CreateRound and nowhere else.
LEMMA BirthStep ==
  ASSUME ControlTypeOK, [Next]_vars, NEW r \in RoundIDs,
         status[r] \notin Live, status'[r] \in Live
  PROVE  \E h \in HostConns : CreateRound(h, r)
<1>1. status[r] = "none" /\ status'[r] = "open"
  BY StatusStep DEF ValidTransitions, Live
<1>2. ASSUME NEW s \in RoundIDs, WatchLock(s)
      PROVE  FALSE
  BY <1>1, <1>2 DEF WatchLock, ControlTypeOK
<1>3. ASSUME NEW s \in RoundIDs, RefundApply(s)
      PROVE  FALSE
  BY <1>1, <1>3 DEF RefundApply, RefundRoundScript, GiveBack, ControlTypeOK, store
<1>4. ASSUME NEW h \in HostConns, SettleApply(h)
      PROVE  FALSE
  <2>1. CASE SettleRoundScript(job[h].round, job[h].stakes, job[h].win)
    BY <1>1, <2>1 DEF SettleRoundScript, Pay, ControlTypeOK
  <2>. QED
    BY <1>1, <1>4, <2>1 DEF SettleApply, store
<1>5. ASSUME NEW h \in HostConns, NEW s \in RoundIDs, CreateRound(h, s)
      PROVE  s = r
  BY <1>1, <1>5 DEF CreateRound, ControlTypeOK
<1>6. ASSUME NEW u \in Users, Player(u)
      PROVE  status' = status
  BY <1>6 DEF Player, JoinRoom, WagerPreflight, RefuseWager, PlaceWager, AcceptWager,
              RecordWager, store
<1>7. ASSUME NEW s \in RoundIDs, LockInstantPasses(s) \/ WatchReread(s)
      PROVE  status' = status
  BY <1>7 DEF LockInstantPasses, WatchReread, store
<1>8. ASSUME NEW x \in Goroutines,
             CheckLocked(x) \/ ReadStakes(x) \/ ClearCurrentRound(x) \/ CallFails(x)
      PROVE  status' = status
  BY <1>8 DEF CheckLocked, ReadStakes, ClearCurrentRound, CallFails, store
<1>9. ASSUME NEW h \in HostConns,
             \/ OpenReadIndex(h) \/ OpenCheckCurrent(h) \/ StartWatch(h)
             \/ \E win \in Outcomes : ResolveReadIndex(h, win)
      PROVE  status' = status
  BY <1>9 DEF OpenReadIndex, OpenCheckCurrent, StartWatch, ResolveReadIndex, store
<1>10. CASE ApiCrash \/ (\E k \in Keys : KeyExpires(k)) \/ UNCHANGED vars
  BY <1>10 DEF ApiCrash, KeyExpires, vars, store
<1>11. status' # status
  BY <1>1
<1>. QED
  BY <1>2, <1>3, <1>4, <1>5, <1>6, <1>7, <1>8, <1>9, <1>10, <1>11
     DEF Next, WatchStep, HandlerStep, Goroutines

\* The index moves in CreateRound and in ClearCurrentRound and nowhere else.
LEMMA IndexStep ==
  ASSUME [Next]_vars
  PROVE  \/ index' = index
         \/ \E h \in HostConns, r \in RoundIDs : CreateRound(h, r)
         \/ \E x \in Goroutines : ClearCurrentRound(x)
<1>1. ASSUME NEW u \in Users, Player(u)
      PROVE  index' = index
  BY <1>1 DEF Player, JoinRoom, WagerPreflight, RefuseWager, PlaceWager, AcceptWager,
              RecordWager, store
<1>2. ASSUME NEW r \in RoundIDs, LockInstantPasses(r) \/ WatchLock(r) \/ WatchReread(r)
      PROVE  index' = index
  BY <1>2 DEF LockInstantPasses, WatchLock, WatchReread, store
<1>3. ASSUME NEW r \in RoundIDs, RefundApply(r)
      PROVE  index' = index
  BY <1>3 DEF RefundApply, RefundRoundScript, GiveBack, store
<1>4. ASSUME NEW h \in HostConns, SettleApply(h)
      PROVE  index' = index
  <2>1. CASE SettleRoundScript(job[h].round, job[h].stakes, job[h].win)
    BY <2>1 DEF SettleRoundScript, Pay
  <2>. QED
    BY <1>4, <2>1 DEF SettleApply, store
<1>5. ASSUME NEW x \in Goroutines, CheckLocked(x) \/ ReadStakes(x) \/ CallFails(x)
      PROVE  index' = index
  BY <1>5 DEF CheckLocked, ReadStakes, CallFails, store
<1>6. ASSUME NEW h \in HostConns,
             \/ OpenReadIndex(h) \/ OpenCheckCurrent(h) \/ StartWatch(h)
             \/ \E win \in Outcomes : ResolveReadIndex(h, win)
      PROVE  index' = index
  BY <1>6 DEF OpenReadIndex, OpenCheckCurrent, StartWatch, ResolveReadIndex, store
<1>7. CASE ApiCrash \/ (\E k \in Keys : KeyExpires(k)) \/ UNCHANGED vars
  BY <1>7 DEF ApiCrash, KeyExpires, vars, store
<1>. QED
  BY <1>1, <1>2, <1>3, <1>4, <1>5, <1>6, <1>7 DEF Next, WatchStep, HandlerStep, Goroutines

\* How a goroutine comes to be inside Open, or about to clear the index.
LEMMA OpenJobStep ==
  ASSUME ControlTypeOK, [Next]_vars, NEW x \in Goroutines,
         job'[x].at \in {"openCheck", "openCreate", "clear"}
  PROVE  \/ job'[x] = job[x]
         \/ OpenReadIndex(x)
         \/ OpenCheckCurrent(x) /\ status[job[x].round] \in Terminal
         \/ /\ job'[x].at = "clear"
            /\ job'[x].round = job[x].round
            /\ status'[job[x].round] \in Terminal
<1>. DEFINE Goal == \/ job'[x] = job[x]
                    \/ OpenReadIndex(x)
                    \/ OpenCheckCurrent(x) /\ status[job[x].round] \in Terminal
                    \/ /\ job'[x].at = "clear"
                       /\ job'[x].round = job[x].round
                       /\ status'[job[x].round] \in Terminal
<1>0. DOMAIN job = Goroutines
  BY DEF ControlTypeOK, JobsTypeOK
<1>1. ASSUME NEW y \in Goroutines, NEW v,
             job' = [job EXCEPT ![y] = v], v.at \notin {"openCheck", "openCreate", "clear"}
      PROVE  Goal
  BY <1>0, <1>1
<1>2. ASSUME NEW y \in Goroutines, Return(y)
      PROVE  Goal
  BY <1>1, <1>2 DEF Return, Idle, Job
<1>3. ASSUME NEW y \in Goroutines, NEW at \in {"grace", "checkLocked", "readStakes"}, Goto(y, at)
      PROVE  Goal
  BY <1>1, <1>3 DEF Goto, Job
<1>4. ASSUME NEW y \in Goroutines, CheckLocked(y) \/ ClearCurrentRound(y) \/ CallFails(y)
      PROVE  Goal
  BY <1>2, <1>3, <1>4 DEF CheckLocked, ClearCurrentRound, CallFails
<1>5. ASSUME NEW y \in Goroutines, ReadStakes(y)
      PROVE  Goal
  BY <1>1, <1>5 DEF ReadStakes, Job
<1>6. ASSUME NEW r \in RoundIDs, WatchLock(r) \/ WatchReread(r)
      PROVE  Goal
  <2>1. r \in Goroutines
    BY DEF Goroutines
  <2>. QED
    BY <1>2, <1>3, <1>6, <2>1 DEF WatchLock, WatchReread
<1>7. ASSUME NEW y \in Goroutines, Goto(y, "clear"), status'[job[y].round] \in Terminal
      PROVE  Goal
  BY <1>0, <1>7 DEF Goto, Job
<1>8. ASSUME NEW r \in RoundIDs, RefundApply(r)
      PROVE  Goal
  <2>1. r \in Goroutines
    BY DEF Goroutines
  <2>2. CASE RefundRoundScript(r, job[r].stakes) /\ Goto(r, "clear")
    <3>1. job[r].at = "apply"
      BY <1>8 DEF RefundApply
    <3>2. job[r] \in WatchJobs(r)
      BY DEF ControlTypeOK, JobsTypeOK
    <3>3. job[r].round = r
      BY <3>1, <3>2 DEF WatchJobs, Idle, Job
    <3>4. status'[r] = "refunded"
      BY <2>2 DEF RefundRoundScript, GiveBack, ControlTypeOK
    <3>. QED
      BY <1>7, <2>1, <2>2, <3>3, <3>4 DEF Terminal
  <2>. QED
    BY <1>2, <1>8, <2>1, <2>2 DEF RefundApply
<1>9. ASSUME NEW h \in HostConns, SettleApply(h)
      PROVE  Goal
  <2>1. h \in Goroutines
    BY DEF Goroutines
  <2>2. CASE SettleRoundScript(job[h].round, job[h].stakes, job[h].win) /\ Goto(h, "clear")
    <3>1. job[h].at \in SettleSteps
      BY <1>9 DEF SettleApply, SettleSteps
    <3>2. job[h].round \in RoundIDs
      BY <2>1, <3>1, SettlingRound DEF ControlTypeOK
    <3>3. status'[job[h].round] \in {"refunded", "resolved"}
      BY <2>2, <3>2 DEF SettleRoundScript, Pay, ControlTypeOK
    <3>. QED
      BY <1>7, <2>1, <2>2, <3>3 DEF Terminal
  <2>. QED
    BY <1>2, <1>9, <2>1, <2>2 DEF SettleApply
<1>10. ASSUME NEW h \in HostConns, OpenReadIndex(h)
       PROVE  Goal
  <2>1. CASE h = x
    BY <1>10, <2>1
  <2>2. CASE h # x
    BY <1>0, <1>10, <2>2 DEF OpenReadIndex
  <2>. QED
    BY <2>1, <2>2
<1>11. ASSUME NEW h \in HostConns, OpenCheckCurrent(h)
       PROVE  Goal
  <2>1. CASE h = x
    <3>1. CASE status[job[h].round] \in Terminal
      BY <1>11, <2>1, <3>1
    <3>2. CASE status[job[h].round] \notin Terminal
      BY <1>2, <1>11, <2>1, <3>2 DEF OpenCheckCurrent, Return
    <3>. QED
      BY <3>1, <3>2
  <2>2. CASE h # x
    BY <1>0, <1>11, <2>2 DEF OpenCheckCurrent
  <2>. QED
    BY <2>1, <2>2
<1>12. ASSUME NEW h \in HostConns,
              \/ \E r \in RoundIDs : CreateRound(h, r)
              \/ \E win \in Outcomes : ResolveReadIndex(h, win)
       PROVE  Goal
  <2>1. h \in Goroutines
    BY DEF Goroutines
  <2>. QED
    BY <1>1, <1>12, <2>1 DEF CreateRound, ResolveReadIndex, Job
<1>13. ASSUME NEW h \in HostConns, StartWatch(h)
       PROVE  Goal
  BY <1>0, <1>13 DEF StartWatch, Idle, Job
<1>14. CASE ApiCrash
  BY <1>0, <1>14 DEF ApiCrash, Idle, Job
<1>15. ASSUME NEW u \in Users, Player(u)
       PROVE  job' = job
  BY <1>15 DEF Player, JoinRoom, WagerPreflight, RefuseWager, PlaceWager
<1>16. ASSUME (\E r \in RoundIDs : LockInstantPasses(r)) \/ (\E k \in Keys : KeyExpires(k))
       PROVE  job' = job
  BY <1>16 DEF LockInstantPasses, KeyExpires
<1>17. CASE UNCHANGED vars
  BY <1>17 DEF vars
<1>. QED
  BY <1>4, <1>5, <1>6, <1>8, <1>9, <1>10, <1>11, <1>12, <1>13, <1>14, <1>15, <1>16, <1>17
     DEF Next, WatchStep, HandlerStep, Goroutines

\* The index names the live round in every step that clears it only for its own round.
LEMMA NextCurrent ==
  ASSUME OneSocket, ControlTypeOK, CurrentInv, [Next]_vars, ClearsOwnRound
  PROVE  CurrentInv'
<1>1. LiveRoundIsCurrent'
  <2>. SUFFICES ASSUME NEW r \in RoundIDs, status'[r] \in Live
                PROVE  index' = r
    BY DEF LiveRoundIsCurrent
  <2>1. CASE status[r] \notin Live
    BY <2>1, BirthStep, StatusStep DEF CreateRound, ControlTypeOK, Live, ValidTransitions
  <2>2. CASE status[r] \in Live
    <3>1. index = r
      BY <2>2 DEF CurrentInv, LiveRoundIsCurrent
    <3>2. ASSUME NEW h \in HostConns, NEW s \in RoundIDs, CreateRound(h, s)
          PROVE  FALSE
      BY <2>2, <3>2 DEF CreateRound, CurrentInv, OpenHasLooked
    <3>3. ASSUME NEW x \in Goroutines, ClearCurrentRound(x)
          PROVE  FALSE
      <4>1. job[x].round = r
        BY <3>1, <3>3, RoundsAssumption DEF ClearsOwnRound
      <4>2. job[x].at = "clear"
        BY <3>3 DEF ClearCurrentRound
      <4>. QED
        BY <2>2, <4>1, <4>2 DEF CurrentInv, ClearsEnded, Live, Terminal
    <3>. QED
      BY <3>1, <3>2, <3>3, IndexStep
  <2>. QED
    BY <2>1, <2>2
\* While a socket is inside Open no round is born: the only socket is inside Open.
<1>2. ASSUME NEW h \in HostConns, NEW r \in RoundIDs,
             job'[h].at \in {"openCheck", "openCreate"}, status'[r] \in Live
      PROVE  status[r] \in Live
  <2>1. ASSUME NEW g \in HostConns, CreateRound(g, r)
        PROVE  FALSE
    <3>1. g = h /\ h \in DOMAIN job
      BY DEF OneSocket, ControlTypeOK, JobsTypeOK, Goroutines
    <3>. QED
      BY <1>2, <2>1, <3>1 DEF CreateRound, Job
  <2>. QED
    BY <1>2, <2>1, BirthStep
<1>3. OpenHasLooked'
  <2>. SUFFICES ASSUME NEW h \in HostConns, NEW r \in RoundIDs, status'[r] \in Live,
                       job'[h].at \in {"openCheck", "openCreate"}
                PROVE  job'[h].at = "openCheck" /\ r = job'[h].round
    BY DEF OpenHasLooked
  <2>1. status[r] \in Live /\ index = r /\ r # None
    BY <1>2, RoundsAssumption DEF CurrentInv, LiveRoundIsCurrent
  <2>2. h \in Goroutines /\ h \in DOMAIN job
    BY DEF ControlTypeOK, JobsTypeOK, Goroutines
  <2>3. CASE job'[h] = job[h]
    BY <2>1, <2>3 DEF CurrentInv, OpenHasLooked
  <2>4. CASE OpenReadIndex(h)
    BY <2>1, <2>2, <2>4 DEF OpenReadIndex, Job
  <2>5. CASE OpenCheckCurrent(h) /\ status[job[h].round] \in Terminal
    <3>1. job[h].at = "openCheck"
      BY <2>5 DEF OpenCheckCurrent
    <3>2. r = job[h].round
      BY <2>1, <3>1 DEF CurrentInv, OpenHasLooked
    <3>. QED
      BY <2>1, <2>5, <3>2 DEF Live, Terminal
  <2>. QED
    BY <2>2, <2>3, <2>4, <2>5, OpenJobStep
<1>4. ClearsEnded'
  <2>. SUFFICES ASSUME NEW x \in Goroutines, job'[x].at = "clear"
                PROVE  status'[job'[x].round] \in Terminal
    BY DEF ClearsEnded
  <2>1. CASE job'[x] = job[x]
    <3>1. job[x].round \in RoundIDs /\ status[job[x].round] \in Terminal
      BY <2>1, SettlingRound DEF SettleSteps, ControlTypeOK, CurrentInv, ClearsEnded
    <3>2. status'[job[x].round] = status[job[x].round]
      BY <3>1, StatusStep DEF ValidTransitions, Terminal
    <3>. QED
      BY <2>1, <3>1, <3>2
  <2>2. CASE OpenReadIndex(x) \/ (OpenCheckCurrent(x) /\ status[job[x].round] \in Terminal)
    <3>1. x \in DOMAIN job
      BY DEF ControlTypeOK, JobsTypeOK
    <3>. QED
      BY <2>2, <3>1 DEF OpenReadIndex, OpenCheckCurrent, Job
  <2>3. CASE job'[x].round = job[x].round /\ status'[job[x].round] \in Terminal
    BY <2>3
  <2>. QED
    BY <2>1, <2>2, <2>3, OpenJobStep
<1>. QED
  BY <1>1, <1>3, <1>4 DEF CurrentInv

(***************************************************************************)
(* With one host socket, round.go 76-77 is broken by the unconditional     *)
(* delete in ClearCurrentRound and by nothing else: any run in which it    *)
(* never deletes the index of another round keeps the promise, whatever    *)
(* fails, crashes or is interleaved.                                       *)
(***************************************************************************)
THEOREM CurrentUnlessCleared ==
  OneSocket => (Spec /\ [][ClearsOwnRound]_vars => []LiveRoundIsCurrent)
<1>. SUFFICES ASSUME OneSocket
              PROVE  Spec /\ [][ClearsOwnRound]_vars => []LiveRoundIsCurrent
  OBVIOUS
<1>1. Init => CurrentInv
  BY DEF Init, CurrentInv, LiveRoundIsCurrent, OpenHasLooked, ClearsEnded, Idle, Job, Live
<1>2. ControlTypeOK /\ CurrentInv /\ [Next]_vars /\ [ClearsOwnRound]_vars => CurrentInv'
  <2>1. CASE UNCHANGED vars
    BY <2>1 DEF vars, store, CurrentInv, LiveRoundIsCurrent, OpenHasLooked, ClearsEnded
  <2>. QED
    BY <2>1, NextCurrent
<1>3. CurrentInv => LiveRoundIsCurrent
  BY DEF CurrentInv
<1>. QED
  BY <1>1, <1>2, <1>3, ControlTypeCorrect, PTL DEF Spec

-----------------------------------------------------------------------------
(***************************************************************************)
(* What one step does to the room's money.                                 *)
(***************************************************************************)

\* No tokens move and no round opens or ends.
MovesNothing ==
  /\ UNCHANGED <<pools, total, wagers, bettors, wallets, opening, outbox>>
  /\ \A r \in RoundIDs : /\ status'[r] \in Live <=> status[r] \in Live
                         /\ status'[r] = "none" <=> status[r] = "none"

\* CreateRound resets the pools of a round that held nothing.
OpensRound ==
  \E r \in RoundIDs :
    /\ status[r] = "none"
    /\ status' = [status EXCEPT ![r] = "open"]
    /\ pools' = [pools EXCEPT ![r] = [o \in Outcomes |-> 0]]
    /\ total' = [total EXCEPT ![r] = 0]
    /\ UNCHANGED <<wagers, bettors, wallets, opening, outbox>>

\* A player brings a grant in, once.
Joins ==
  \E u \in Users, b \in Grants :
    /\ wallets' = [wallets EXCEPT ![u] = IF @ = None THEN b ELSE @]
    /\ opening' = [opening EXCEPT ![u] = IF @ = None THEN b ELSE @]
    /\ UNCHANGED <<status, pools, total, wagers, bettors, outbox>>

\* A stake moves from a wallet into an open round.
TakesWager ==
  \E u \in Users, r \in RoundIDs, o \in Outcomes, a \in Amounts, k \in Keys :
    /\ status[r] = "open"
    /\ wallets[u] # None
    /\ wallets[u] >= a
    /\ RecordWager(u, r, o, a, k)

EndsRoundWith(r, t, type, win, credits, dust) ==
  /\ status[r] = "locked"
  /\ status' = [status EXCEPT ![r] = t]
  /\ wallets' = HIncrBy(wallets, credits)
  /\ outbox' = Append(outbox,
                      SettlementEvent(type, r, win, TotalStaked(wagers[r]), dust, credits))
  /\ SharesOut(wagers[r], credits, dust)
  /\ UNCHANGED <<pools, total, wagers, bettors, opening>>

\* A locked round ends as settled or as refunded.
EndsRound ==
  \E r \in RoundIDs, t \in Terminal, type \in {"round_settled", "round_refunded"},
     win \in Outcomes \cup {None} :
    \E credits, dust : EndsRoundWith(r, t, type, win, credits, dust)

\* Every step of the room does one of the five.
LEMMA MoneyStep ==
  ASSUME ControlTypeOK, SnapshotIsCurrent, [Next]_vars
  PROVE  MovesNothing \/ OpensRound \/ Joins \/ TakesWager \/ EndsRound
<1>1. ASSUME UNCHANGED store
      PROVE  MovesNothing
  BY <1>1 DEF store, MovesNothing
<1>2. ASSUME NEW u \in Users, Player(u)
      PROVE  MovesNothing \/ Joins \/ TakesWager
  <2>1. ASSUME NEW b \in Grants, JoinRoom(u, b)
        PROVE  Joins
    BY <2>1 DEF JoinRoom, Joins
  <2>2. ASSUME NEW o \in Outcomes, NEW a \in Amounts, NEW k \in Keys, PlaceWager(u, o, a, k)
        PROVE  TakesWager
    <3>1. bet[u] \in RoundIDs /\ AcceptWager(u, bet[u], o, a, k)
      BY <2>2 DEF PlaceWager, ControlTypeOK
    <3>. QED
      BY <3>1 DEF AcceptWager, TakesWager
  <2>3. CASE WagerPreflight(u) \/ RefuseWager(u)
    BY <1>1, <2>3 DEF WagerPreflight, RefuseWager
  <2>. QED
    BY <1>2, <2>1, <2>2, <2>3 DEF Player
<1>3. ASSUME NEW h \in HostConns, SettleApply(h)
      PROVE  MovesNothing \/ EndsRound
  <2>. DEFINE r == job[h].round
              w == job[h].stakes
              win == job[h].win
              refund == IsRefund(w, win)
              type == IF refund THEN "round_refunded" ELSE "round_settled"
              t == IF refund THEN "refunded" ELSE "resolved"
              shown == IF refund THEN None ELSE win
  <2>1. CASE UNCHANGED store
    BY <1>1, <2>1
  <2>2. CASE SettleRoundScript(r, w, win)
    <3>1. h \in Goroutines /\ job[h].at = "apply" /\ job[h] \in HandlerJobs
      BY <1>3 DEF SettleApply, Goroutines, ControlTypeOK, JobsTypeOK
    <3>2. r \in RoundIDs /\ win \in Outcomes
      BY <3>1 DEF HandlerJobs, SettleSteps, Idle, Job
    <3>3. w = wagers[r] /\ w \in Wagers
      BY <3>1, <3>2 DEF SnapshotIsCurrent, ControlTypeOK
    <3>4. EndsRoundWith(r, t, type, shown, Credits(w, win), Dust(w, win))
      BY <2>2, <3>3, SettleSharesOut DEF SettleRoundScript, Pay, EndsRoundWith
    <3>5. /\ t \in Terminal /\ type \in {"round_settled", "round_refunded"}
          /\ shown \in Outcomes \cup {None}
      BY <3>2 DEF Terminal
    <3>. HIDE DEF t, type, shown
    <3>. QED
      BY <3>2, <3>4, <3>5 DEF EndsRound
  <2>. QED
    BY <1>3, <2>1, <2>2 DEF SettleApply
<1>4. ASSUME NEW r \in RoundIDs, RefundApply(r)
      PROVE  MovesNothing \/ EndsRound
  <2>. DEFINE w == job[r].stakes
  <2>1. CASE UNCHANGED store
    BY <1>1, <2>1
  <2>2. CASE RefundRoundScript(r, w)
    <3>1. r \in Goroutines /\ job[r].at = "apply" /\ job[r] \in WatchJobs(r)
      BY <1>4 DEF RefundApply, Goroutines, ControlTypeOK, JobsTypeOK
    <3>2. job[r].round = r
      BY <3>1 DEF WatchJobs, SettleSteps, Idle, Job
    <3>3. w = wagers[r] /\ w \in Wagers
      BY <3>1, <3>2 DEF SnapshotIsCurrent, ControlTypeOK
    <3>4. EndsRoundWith(r, "refunded", "round_refunded", None, AggregateStakes(w), 0)
      BY <2>2, <3>3, RefundSharesOut DEF RefundRoundScript, GiveBack, EndsRoundWith
    <3>. QED
      BY <3>4 DEF EndsRound, Terminal
  <2>. QED
    BY <1>4, <2>1, <2>2 DEF RefundApply
<1>5. ASSUME NEW h \in HostConns, NEW r \in RoundIDs, CreateRound(h, r)
      PROVE  OpensRound
  BY <1>5 DEF CreateRound, OpensRound
<1>6. ASSUME NEW r \in RoundIDs, WatchLock(r)
      PROVE  MovesNothing
  BY <1>6 DEF WatchLock, MovesNothing, Live, ControlTypeOK
<1>7. ASSUME NEW r \in RoundIDs, LockInstantPasses(r) \/ WatchReread(r)
      PROVE  MovesNothing
  BY <1>7 DEF LockInstantPasses, WatchReread, store, MovesNothing
<1>8. ASSUME NEW x \in Goroutines,
             CheckLocked(x) \/ ReadStakes(x) \/ ClearCurrentRound(x) \/ CallFails(x)
      PROVE  MovesNothing
  BY <1>8 DEF CheckLocked, ReadStakes, ClearCurrentRound, CallFails, store, MovesNothing
<1>9. ASSUME NEW h \in HostConns,
             \/ OpenReadIndex(h) \/ OpenCheckCurrent(h) \/ StartWatch(h)
             \/ \E win \in Outcomes : ResolveReadIndex(h, win)
      PROVE  MovesNothing
  BY <1>1, <1>9 DEF OpenReadIndex, OpenCheckCurrent, StartWatch, ResolveReadIndex
<1>10. CASE ApiCrash \/ UNCHANGED vars
  BY <1>1, <1>10 DEF ApiCrash, vars
<1>11. ASSUME NEW k \in Keys, KeyExpires(k)
       PROVE  MovesNothing
  BY <1>11 DEF KeyExpires, MovesNothing
<1>. QED
  BY <1>2, <1>3, <1>4, <1>5, <1>6, <1>7, <1>8, <1>9, <1>10, <1>11
     DEF Next, WatchStep, HandlerStep, Goroutines

-----------------------------------------------------------------------------
(***************************************************************************)
(* Who may have a stake, and where the pools come from.                    *)
(***************************************************************************)

\* No wallet is ever negative.
WalletsOK == wallets \in [Users -> Nat \cup {None}]

\* Wallet and opening balance are created together.
JoinedTogether == \A u \in Users : wallets[u] = None <=> opening[u] = None

\* Crediting a payout never creates a wallet: whoever has a stake has joined.
StakersJoined == \A r \in RoundIDs : \A u \in Bettors(wagers[r]) : wallets[u] # None

\* A round nobody has opened holds nothing: opening it resets nothing.
Untouched == \A r \in RoundIDs : status[r] = "none" => wagers[r] = NoWagers

\* The hash a wager leaves behind, round by round.
LEMMA WagersAfter ==
  ASSUME ControlTypeOK, NEW u \in Users, NEW r \in RoundIDs, NEW o \in Outcomes,
         NEW a \in Amounts, NEW k \in Keys, RecordWager(u, r, o, a, k)
  PROVE  /\ a \in Nat \ {0}
         /\ wagers[r] \in Wagers
         /\ wagers'[r] = [wagers[r] EXCEPT ![<<u, o>>] = @ + a]
         /\ \A s \in RoundIDs \ {r} : wagers'[s] = wagers[s]
         /\ Bettors(wagers'[r]) = Bettors(wagers[r]) \cup {u}
<1>1. a \in Nat \ {0}
  BY RoundsAssumption
<1>2. /\ wagers[r] \in Wagers
      /\ wagers'[r] = [wagers[r] EXCEPT ![<<u, o>>] = @ + a]
      /\ \A s \in RoundIDs \ {r} : wagers'[s] = wagers[s]
  BY DEF ControlTypeOK, RecordWager
<1>3. Bettors(wagers'[r]) = Bettors(wagers[r]) \cup {u}
  <2>1. Bettors([wagers[r] EXCEPT ![<<u, o>>] = wagers[r][<<u, o>>] + a])
          = Bettors(wagers[r]) \cup {u}
    BY <1>1, <1>2, BettorsOfMore
  <2>. QED
    BY <1>2, <2>1
<1>. QED
  BY <1>1, <1>2, <1>3

AccountsInv == WalletsOK /\ JoinedTogether /\ StakersJoined /\ Untouched

\* Nobody has joined.
LEMMA InitAccounts == Init => AccountsInv
BY BettorsOfNone
   DEF Init, AccountsInv, WalletsOK, JoinedTogether, StakersJoined, Untouched

\* Each of the five keeps wallets and stakers in order.
LEMMA AccountsStep ==
  ASSUME ControlTypeOK, AccountsInv,
         MovesNothing \/ OpensRound \/ Joins \/ TakesWager \/ EndsRound
  PROVE  AccountsInv'
<1>. USE DEF AccountsInv, WalletsOK, JoinedTogether, StakersJoined, Untouched
<1>1. CASE MovesNothing
  BY <1>1 DEF MovesNothing
<1>2. CASE OpensRound
  BY <1>2 DEF OpensRound, ControlTypeOK
<1>3. CASE Joins
  <2>1. PICK u \in Users, b \in Grants :
          /\ wallets' = [wallets EXCEPT ![u] = IF @ = None THEN b ELSE @]
          /\ opening' = [opening EXCEPT ![u] = IF @ = None THEN b ELSE @]
          /\ UNCHANGED <<status, wagers>>
    BY <1>3 DEF Joins
  <2>2. b \in Nat /\ b # None /\ opening \in [Users -> Nat \cup {None}]
    BY RoundsAssumption DEF ControlTypeOK
  <2>3. wallets' \in [Users -> Nat \cup {None}]
    BY <2>1, <2>2
  <2>4. \A v \in Users : /\ wallets[v] # None => wallets'[v] # None
                         /\ wallets'[v] = None <=> opening'[v] = None
    BY <2>1, <2>2
  <2>5. \A r \in RoundIDs : Bettors(wagers[r]) \subseteq Users
    BY OnlyBettorsCount DEF ControlTypeOK
  <2>. QED
    BY <2>1, <2>3, <2>4, <2>5
<1>4. CASE TakesWager
  <2>1. PICK u \in Users, r \in RoundIDs, o \in Outcomes, a \in Amounts, k \in Keys :
          /\ status[r] = "open"
          /\ wallets[u] # None
          /\ wallets[u] >= a
          /\ RecordWager(u, r, o, a, k)
    BY <1>4 DEF TakesWager
  <2>2. /\ a \in Nat
        /\ \A s \in RoundIDs \ {r} : wagers'[s] = wagers[s]
        /\ Bettors(wagers'[r]) = Bettors(wagers[r]) \cup {u}
    BY <2>1, WagersAfter
  <2>3. /\ wallets' = [wallets EXCEPT ![u] = @ - a]
        /\ UNCHANGED <<status, opening>>
    BY <2>1 DEF RecordWager
  <2>4. wallets[u] - a \in Nat /\ None \notin Nat
    BY <2>1, <2>2, RoundsAssumption
  <2>5. wallets' \in [Users -> Nat \cup {None}] /\ \A v \in Users : wallets'[v] = None <=> wallets[v] = None
    BY <2>1, <2>3, <2>4
  <2>6. \A s \in RoundIDs : Bettors(wagers[s]) \subseteq Users
    BY OnlyBettorsCount DEF ControlTypeOK
  <2>. QED
    BY <2>1, <2>2, <2>3, <2>5, <2>6
<1>5. CASE EndsRound
  <2>1. PICK r \in RoundIDs, t \in Terminal, type \in {"round_settled", "round_refunded"},
             win \in Outcomes \cup {None} :
          \E credits, dust : EndsRoundWith(r, t, type, win, credits, dust)
    BY <1>5 DEF EndsRound
  <2>2. PICK credits, dust : EndsRoundWith(r, t, type, win, credits, dust)
    BY <2>1
  <2>3. \A s \in RoundIDs : Bettors(wagers[s]) \subseteq Users
    BY OnlyBettorsCount DEF ControlTypeOK
  <2>4. /\ wallets' \in [Users -> Nat \cup {None}]
        /\ \A u \in Users : wallets'[u] = None <=> wallets[u] = None
    BY <2>2, <2>3, CreditsAdd, RoundsAssumption DEF EndsRoundWith
  <2>5. UNCHANGED <<wagers, opening>> /\ \A s \in RoundIDs : status'[s] = "none" => status[s] = "none"
    BY <2>2 DEF EndsRoundWith, Terminal, ControlTypeOK
  <2>. QED
    BY <2>3, <2>4, <2>5
<1>. QED
  BY <1>1, <1>2, <1>3, <1>4, <1>5

-----------------------------------------------------------------------------
(***************************************************************************)
(* The pools are the stakes.                                               *)
(***************************************************************************)

\* The fields of the wagers hash that one pool adds up.
OnOutcome(o) == {f \in Fields : f[2] = o}

\* One round's pools, total and bettors agree with its wagers hash.
Mirrors(w, pool, tot, players) ==
  /\ \A o \in Outcomes : pool[o] = SumFunctionOnSet(w, OnOutcome(o))
  /\ tot = Sum(pool)
  /\ players = Bettors(w)

\* The property, one round at a time.
LEMMA MirrorByRound ==
  PoolsMirrorWagers <=>
    \A r \in RoundIDs : Mirrors(wagers[r], pools[r], total[r], bettors[r])
BY DEF PoolsMirrorWagers, Mirrors, OnOutcome

\* The total Redis counts up is the one Go adds up.
LEMMA MirroredTotal ==
  ASSUME NEW w \in Wagers, NEW pool \in [Outcomes -> Nat], NEW tot, NEW players,
         Mirrors(w, pool, tot, players)
  PROVE  tot = TotalStaked(w)
<1>. DEFINE p == [f \in Fields |-> f[2]]
<1>1. \A o \in Outcomes : pool[o] = SumFunctionOnSet(w, Fibre(Fields, p, o))
  <2>1. \A o : Fibre(Fields, p, o) = OnOutcome(o)
    BY DEF OnOutcome, Fibre
  <2>. QED
    BY <2>1 DEF Mirrors
<1>2. \A f \in Fields : w[f] \in Int /\ p[f] \in Outcomes
  BY DEF Wagers, Fields
<1>. HIDE DEF p
<1>3. SumFunctionOnSet(pool, Outcomes) = SumFunctionOnSet(w, Fields)
  BY <1>1, <1>2, FiniteBoard, FieldsFinite, SumFibres
<1>4. tot = SumFunctionOnSet(pool, Outcomes)
  BY SumDomain DEF Mirrors, Sum
<1>. QED
  BY <1>3, <1>4, TotalStakedNat

\* What CreateRound writes mirrors an empty hash.
LEMMA EmptyMirrors ==
  Mirrors(NoWagers, [o \in Outcomes |-> 0], 0, {})
<1>. DEFINE pool == [o \in Outcomes |-> 0]
<1>1. ASSUME NEW o \in Outcomes
      PROVE  SumFunctionOnSet(NoWagers, OnOutcome(o)) = 0
  <2>1. IsFiniteSet(OnOutcome(o)) /\ \A f \in OnOutcome(o) : NoWagers[f] = 0
    BY FieldsFinite, FS_Subset DEF OnOutcome, NoWagers
  <2>. QED
    BY <2>1, SumZeros
<1>2. SumFunctionOnSet(pool, Outcomes) = 0
  BY FiniteBoard, SumZeros
<1>3. Sum(pool) = 0
  BY <1>2, SumDomain DEF Sum
<1>. QED
  BY <1>1, <1>3, BettorsOfNone DEF Mirrors

\* One more stake, in the hash, in its pool and in the total.
LEMMA StakeMirrors ==
  ASSUME NEW w \in Wagers, NEW pool \in [Outcomes -> Nat], NEW tot, NEW players,
         Mirrors(w, pool, tot, players),
         NEW u \in Users, NEW o \in Outcomes, NEW a \in Nat \ {0}
  PROVE  Mirrors([w EXCEPT ![<<u, o>>] = w[<<u, o>>] + a], [pool EXCEPT ![o] = pool[o] + a],
                 tot + a, players \cup {u})
<1>. DEFINE e == <<u, o>>
            v == [w EXCEPT ![e] = w[e] + a]
            more == [pool EXCEPT ![o] = pool[o] + a]
<1>1. e \in Fields /\ e[2] = o /\ \A f \in Fields : w[f] \in Nat
  BY DEF Fields, Wagers
<1>2. /\ \A f \in Fields : v[f] \in Nat
      /\ v[e] = w[e] + a
      /\ \A f \in Fields \ {e} : v[f] = w[f]
  BY <1>1 DEF Wagers
<1>3. Bettors(v) = Bettors(w) \cup {u}
  BY BettorsOfMore
<1>. HIDE DEF e, v
<1>4. ASSUME NEW q \in Outcomes
      PROVE  more[q] = SumFunctionOnSet(v, OnOutcome(q))
  <2>1. IsFiniteSet(OnOutcome(q)) /\ OnOutcome(q) \subseteq Fields
    BY FieldsFinite, FS_Subset DEF OnOutcome
  <2>2. pool[q] = SumFunctionOnSet(w, OnOutcome(q)) /\ pool[q] \in Nat
    BY DEF Mirrors
  <2>3. CASE q = o
    <3>1. e \in OnOutcome(q)
      BY <1>1, <2>3 DEF OnOutcome
    <3>2. \A f \in OnOutcome(q) : w[f] \in Int /\ v[f] \in Int
      BY <1>1, <1>2, <2>1
    <3>3. \A f \in OnOutcome(q) \ {e} : v[f] = w[f]
      BY <1>2, <2>1
    <3>4. SumFunctionOnSet(v, OnOutcome(q))
            = SumFunctionOnSet(w, OnOutcome(q)) + (v[e] - w[e])
      BY <2>1, <3>1, <3>2, <3>3, SumChange
    <3>5. v[e] - w[e] = a
      BY <1>1, <1>2
    <3>. QED
      BY <2>2, <2>3, <3>4, <3>5
  <2>4. CASE q # o
    <3>1. \A f \in OnOutcome(q) : w[f] \in Int /\ w[f] = v[f]
      BY <1>1, <1>2, <2>4 DEF OnOutcome
    <3>2. SumFunctionOnSet(w, OnOutcome(q)) = SumFunctionOnSet(v, OnOutcome(q))
      BY <2>1, <3>1, SumEq
    <3>. QED
      BY <2>2, <2>4, <3>2
  <2>. QED
    BY <2>3, <2>4
<1>5. Sum(more) = tot + a
  <2>1. /\ \A q \in Outcomes : pool[q] \in Int /\ more[q] \in Int
        /\ \A q \in Outcomes \ {o} : more[q] = pool[q]
        /\ more[o] = pool[o] + a
    OBVIOUS
  <2>2. DOMAIN more = Outcomes /\ DOMAIN pool = Outcomes
    OBVIOUS
  <2>. HIDE DEF more
  <2>3. SumFunctionOnSet(more, Outcomes)
          = SumFunctionOnSet(pool, Outcomes) + (more[o] - pool[o])
    BY <2>1, FiniteBoard, SumChange
  <2>4. SumFunctionOnSet(pool, Outcomes) \in Int
    BY <2>1, FiniteBoard, SumInt
  <2>5. tot = SumFunctionOnSet(pool, Outcomes) /\ Sum(more) = SumFunctionOnSet(more, Outcomes)
    BY <2>2, SumDomain DEF Mirrors, Sum
  <2>. QED
    BY <2>1, <2>3, <2>4, <2>5
<1>6. players \cup {u} = Bettors(v)
  BY <1>3 DEF Mirrors
<1>7. Mirrors(v, more, tot + a, players \cup {u})
  BY <1>4, <1>5, <1>6 DEF Mirrors
<1>. QED
  BY <1>7 DEF v, e

\* No round holds anything.
LEMMA InitMirrors == Init => PoolsMirrorWagers
BY EmptyMirrors, MirrorByRound DEF Init

\* A wager moves its pool, the total and the bettors with the hash; no other step moves any.
LEMMA MirrorsStep ==
  ASSUME ControlTypeOK, AccountsInv, PoolsMirrorWagers,
         MovesNothing \/ OpensRound \/ Joins \/ TakesWager \/ EndsRound
  PROVE  PoolsMirrorWagers'
<1>0. \A r \in RoundIDs : Mirrors(wagers[r], pools[r], total[r], bettors[r])
  BY MirrorByRound
<1>. SUFFICES \A r \in RoundIDs : Mirrors(wagers'[r], pools'[r], total'[r], bettors'[r])
  BY DEF PoolsMirrorWagers, Mirrors, OnOutcome
<1>1. CASE UNCHANGED <<pools, total, wagers, bettors>>
  BY <1>0, <1>1
<1>2. CASE OpensRound
  <2>1. PICK s \in RoundIDs :
          /\ status[s] = "none"
          /\ pools' = [pools EXCEPT ![s] = [o \in Outcomes |-> 0]]
          /\ total' = [total EXCEPT ![s] = 0]
          /\ UNCHANGED <<wagers, bettors>>
    BY <1>2 DEF OpensRound
  <2>2. wagers[s] = NoWagers /\ bettors[s] = {}
    BY <1>0, <2>1, BettorsOfNone DEF AccountsInv, Untouched, Mirrors
  <2>3. /\ pools'[s] = [o \in Outcomes |-> 0] /\ total'[s] = 0
        /\ \A r \in RoundIDs \ {s} : pools'[r] = pools[r] /\ total'[r] = total[r]
    BY <2>1 DEF ControlTypeOK
  <2>. QED
    BY <1>0, <2>1, <2>2, <2>3, EmptyMirrors
<1>3. CASE TakesWager
  <2>1. PICK u \in Users, s \in RoundIDs, o \in Outcomes, a \in Amounts, k \in Keys :
          RecordWager(u, s, o, a, k)
    BY <1>3 DEF TakesWager
  <2>2. /\ a \in Nat \ {0}
        /\ wagers[s] \in Wagers
        /\ wagers'[s] = [wagers[s] EXCEPT ![<<u, o>>] = wagers[s][<<u, o>>] + a]
        /\ \A r \in RoundIDs \ {s} : wagers'[r] = wagers[r]
    BY <2>1, WagersAfter
  <2>3. /\ pools'[s] = [pools[s] EXCEPT ![o] = pools[s][o] + a]
        /\ total'[s] = total[s] + a
        /\ bettors'[s] = bettors[s] \cup {u}
        /\ \A r \in RoundIDs \ {s} :
             pools'[r] = pools[r] /\ total'[r] = total[r] /\ bettors'[r] = bettors[r]
    BY <2>1 DEF RecordWager, ControlTypeOK
  <2>4. Mirrors(wagers[s], pools[s], total[s], bettors[s]) /\ pools[s] \in [Outcomes -> Nat]
    BY <1>0 DEF ControlTypeOK
  <2>5. Mirrors([wagers[s] EXCEPT ![<<u, o>>] = wagers[s][<<u, o>>] + a],
                [pools[s] EXCEPT ![o] = pools[s][o] + a], total[s] + a, bettors[s] \cup {u})
    BY <2>2, <2>4, StakeMirrors
  <2>6. Mirrors(wagers'[s], pools'[s], total'[s], bettors'[s])
    BY <2>2, <2>3, <2>5
  <2>. QED
    BY <1>0, <2>2, <2>3, <2>6
<1>. QED
  BY <1>1, <1>2, <1>3 DEF MovesNothing, Joins, EndsRound, EndsRoundWith

-----------------------------------------------------------------------------
(***************************************************************************)
(* What the stream carries.                                                *)
(***************************************************************************)

\* What stands in the stream is a wager or a settlement of the expected form.
StreamTypeOK == outbox \in Seq(WagerEvents \cup SettlementEvents)

\* Every settlement in the stream is one the model's arithmetic produced.
LEMMA SettlementEntry ==
  ASSUME StreamTypeOK, NEW i \in DOMAIN outbox, IsSettlement(outbox[i])
  PROVE  outbox[i] \in SettlementEvents
<1>1. outbox[i] \in WagerEvents \cup SettlementEvents
  BY DEF StreamTypeOK
<1>2. outbox[i].type # "wager_placed"
  BY DEF IsSettlement
<1>. QED
  BY <1>1, <1>2 DEF WagerEvents

\* The entry a wager appends.
LEMMA WagerEntry ==
  ASSUME NEW u \in Users, NEW r \in RoundIDs, NEW o \in Outcomes, NEW a \in Amounts, NEW k \in Keys
  PROVE  WagerEvent(u, r, o, a, k) \in WagerEvents /\ ~IsSettlement(WagerEvent(u, r, o, a, k))
BY DEF WagerEvent, WagerEvents, IsSettlement

\* A step appends the settlement e of round r.
AppendsEnding(e, r, credits, dust) ==
  /\ e \in SettlementEvents
  /\ outbox' = Append(outbox, e)
  /\ IsSettlement(e)
  /\ e.round = r /\ e.credits = credits /\ e.dust = dust
  /\ e.total = TotalStaked(wagers[r])

\* The entry that ends a round.
LEMMA EndingEntry ==
  ASSUME ControlTypeOK, NEW r \in RoundIDs, NEW t, NEW type \in {"round_settled", "round_refunded"},
         NEW win \in Outcomes \cup {None}, NEW credits, NEW dust,
         EndsRoundWith(r, t, type, win, credits, dust)
  PROVE  \E e : AppendsEnding(e, r, credits, dust)
<1>. DEFINE e == SettlementEvent(type, r, win, TotalStaked(wagers[r]), dust, credits)
<1>1. TotalStaked(wagers[r]) \in Nat
  BY TotalStakedNat DEF ControlTypeOK
<1>2. credits \in [Users -> Nat] /\ dust \in Nat
  BY DEF EndsRoundWith, SharesOut
<1>3. e \in SettlementEvents
  BY <1>1, <1>2 DEF SettlementEvents, SettlementEvent
<1>4. /\ e.round = r /\ e.credits = credits /\ e.dust = dust
      /\ e.total = TotalStaked(wagers[r]) /\ e.type = type
  BY DEF SettlementEvent
<1>5. outbox' = Append(outbox, e)
  BY DEF EndsRoundWith
<1>. HIDE DEF e
<1>. QED
  BY <1>3, <1>4, <1>5 DEF IsSettlement, AppendsEnding

\* Each entry appended is one of those.
LEMMA StreamTypeStep ==
  ASSUME ControlTypeOK, StreamTypeOK,
         MovesNothing \/ OpensRound \/ Joins \/ TakesWager \/ EndsRound
  PROVE  StreamTypeOK'
<1>1. CASE UNCHANGED outbox
  BY <1>1 DEF StreamTypeOK
<1>2. CASE TakesWager
  <2>1. PICK u \in Users, r \in RoundIDs, o \in Outcomes, a \in Amounts, k \in Keys :
          RecordWager(u, r, o, a, k)
    BY <1>2 DEF TakesWager
  <2>2. outbox' = Append(outbox, WagerEvent(u, r, o, a, k))
    BY <2>1 DEF RecordWager
  <2>. QED
    BY <2>2, WagerEntry DEF StreamTypeOK
<1>3. CASE EndsRound
  <2>1. PICK r \in RoundIDs, t \in Terminal, type \in {"round_settled", "round_refunded"},
             win \in Outcomes \cup {None} :
          \E credits, dust : EndsRoundWith(r, t, type, win, credits, dust)
    BY <1>3 DEF EndsRound
  <2>2. PICK credits, dust : EndsRoundWith(r, t, type, win, credits, dust)
    BY <2>1
  <2>3. PICK e : AppendsEnding(e, r, credits, dust)
    BY <2>2, EndingEntry
  <2>. QED
    BY <2>3 DEF StreamTypeOK, AppendsEnding
<1>. QED
  BY <1>1, <1>2, <1>3 DEF MovesNothing, OpensRound, Joins

\* The pool of an ended round is final, so what its settlement says stays true.
LEMMA CoversStep ==
  ASSUME ControlTypeOK, StreamInv, PoolsMirrorWagers, SettlementCoversPool,
         MovesNothing \/ OpensRound \/ Joins \/ TakesWager \/ EndsRound
  PROVE  SettlementCoversPool'
<1>0. \A i \in DOMAIN outbox : IsSettlement(outbox[i]) =>
        /\ outbox[i].round \in RoundIDs /\ status[outbox[i].round] \in Terminal
        /\ outbox[i].total = total[outbox[i].round]
        /\ Sum(outbox[i].credits) + outbox[i].dust = total[outbox[i].round]
  BY DEF StreamInv, SettlementsAreOfEnded, SettlementCoversPool
<1>1. CASE UNCHANGED <<outbox, total>>
  BY <1>0, <1>1 DEF SettlementCoversPool
<1>2. CASE OpensRound
  <2>1. PICK s \in RoundIDs : /\ status[s] = "none"
                              /\ total' = [total EXCEPT ![s] = 0]
                              /\ UNCHANGED outbox
    BY <1>2 DEF OpensRound
  <2>2. \A r \in RoundIDs : status[r] \in Terminal => total'[r] = total[r]
    BY <2>1 DEF Terminal, ControlTypeOK
  <2>. QED
    BY <1>0, <2>1, <2>2 DEF SettlementCoversPool
<1>3. CASE TakesWager
  <2>1. PICK u \in Users, s \in RoundIDs, o \in Outcomes, a \in Amounts, k \in Keys :
          status[s] = "open" /\ RecordWager(u, s, o, a, k)
    BY <1>3 DEF TakesWager
  <2>. DEFINE e == WagerEvent(u, s, o, a, k)
  <2>2. /\ outbox' = Append(outbox, e)
        /\ ~IsSettlement(e)
        /\ \A r \in RoundIDs : status[r] \in Terminal => total'[r] = total[r]
    BY <2>1, WagerEntry DEF RecordWager, Terminal, ControlTypeOK
  <2>. HIDE DEF e
  <2>3. /\ DOMAIN outbox' = DOMAIN outbox \cup {Len(outbox) + 1}
        /\ \A i \in DOMAIN outbox : outbox'[i] = outbox[i]
        /\ outbox'[Len(outbox) + 1] = e
    BY <2>2, OneMoreEntry DEF StreamInv
  <2>. QED
    BY <1>0, <2>2, <2>3 DEF SettlementCoversPool, IsSettlement
<1>4. CASE EndsRound
  <2>1. PICK r \in RoundIDs, t \in Terminal, type \in {"round_settled", "round_refunded"},
             win \in Outcomes \cup {None} :
          \E credits, dust : EndsRoundWith(r, t, type, win, credits, dust)
    BY <1>4 DEF EndsRound
  <2>2. PICK credits, dust : EndsRoundWith(r, t, type, win, credits, dust)
    BY <2>1
  <2>3. PICK e : AppendsEnding(e, r, credits, dust)
    BY <2>2, EndingEntry
  <2>4. UNCHANGED total /\ Sum(credits) + dust = TotalStaked(wagers[r])
    BY <2>2 DEF EndsRoundWith, SharesOut, Sum
  <2>5. TotalStaked(wagers[r]) = total[r]
    BY MirroredTotal, MirrorByRound DEF ControlTypeOK
  <2>6. /\ DOMAIN outbox' = DOMAIN outbox \cup {Len(outbox) + 1}
        /\ \A i \in DOMAIN outbox : outbox'[i] = outbox[i]
        /\ outbox'[Len(outbox) + 1] = e
    BY <2>3, OneMoreEntry DEF StreamInv, AppendsEnding
  <2>. QED
    BY <1>0, <2>3, <2>4, <2>5, <2>6 DEF SettlementCoversPool, IsSettlement, AppendsEnding
<1>. QED
  BY <1>1, <1>2, <1>3, <1>4 DEF MovesNothing, Joins

-----------------------------------------------------------------------------
(***************************************************************************)
(* Conservation: the four places a token can be counted.                   *)
(***************************************************************************)

\* Who has a wallet, which rounds hold stakes, and which entries end a round.
JoinedUsers == {u \in Users : wallets[u] # None}
HeldRounds  == {r \in RoundIDs : status[r] \in Live}
Endings     == {i \in DOMAIN outbox : IsSettlement(outbox[i])}
DustAt      == [i \in Endings |-> outbox[i].dust]

\* The two sides of the balance: tokens brought in, and where they are now.
BroughtIn == SumFunctionOnSet(opening, JoinedUsers)
InWallets == SumFunctionOnSet(wallets, JoinedUsers)
InPools   == SumFunctionOnSet(total, HeldRounds)
DustPaid  == SumFunctionOnSet(DustAt, Endings)

\* The property, in terms of these four sums.
LEMMA ConservedSum ==
  TokensConserved <=> BroughtIn = InWallets + InPools + DustPaid
<1>1. Sum(DustAt) = DustPaid
  <2>1. DOMAIN DustAt = Endings
    BY DEF DustAt
  <2>. QED
    BY <2>1, SumDomain DEF Sum, DustPaid
<1>. QED
  BY <1>1 DEF TokensConserved, BroughtIn, InWallets, InPools, JoinedUsers, HeldRounds,
              DustAt, Endings

\* The same, of the state after a step.
LEMMA ConservedSumNext ==
  TokensConserved' <=> BroughtIn' = InWallets' + InPools' + DustPaid'
<1>1. Sum(DustAt') = DustPaid'
  <2>1. DOMAIN DustAt' = Endings'
    BY DEF DustAt
  <2>. QED
    BY <2>1, SumDomain DEF Sum, DustPaid
<1>. QED
  BY <1>1 DEF TokensConserved, BroughtIn, InWallets, InPools, JoinedUsers, HeldRounds,
              DustAt, Endings, IsSettlement

\* The sums range over finite sets of naturals.
LEMMA PlacesFinite ==
  ASSUME ControlTypeOK, AccountsInv, StreamTypeOK
  PROVE  /\ IsFiniteSet(JoinedUsers) /\ IsFiniteSet(HeldRounds) /\ IsFiniteSet(Endings)
         /\ \A u \in JoinedUsers : wallets[u] \in Nat /\ opening[u] \in Nat
         /\ \A r \in RoundIDs : total[r] \in Nat
         /\ \A i \in Endings : DustAt[i] \in Nat
<1>1. IsFiniteSet(JoinedUsers)
  BY FiniteBoard, FS_Subset DEF JoinedUsers
<1>2. IsFiniteSet(HeldRounds)
  BY RoundsAssumption, FS_Subset DEF HeldRounds
<1>3. IsFiniteSet(Endings)
  <2>1. DOMAIN outbox = 1..Len(outbox) /\ Len(outbox) \in Nat
    BY DEF StreamTypeOK
  <2>2. IsFiniteSet(DOMAIN outbox)
    BY <2>1, FS_Interval
  <2>. QED
    BY <2>2, FS_Subset DEF Endings
<1>4. \A u \in JoinedUsers : wallets[u] \in Nat /\ opening[u] \in Nat
  BY DEF AccountsInv, WalletsOK, JoinedTogether, ControlTypeOK, JoinedUsers
<1>5. \A r \in RoundIDs : total[r] \in Nat
  BY DEF ControlTypeOK
<1>6. \A i \in Endings : DustAt[i] \in Nat
  BY SettlementEntry DEF Endings, DustAt, SettlementEvents
<1>. QED
  BY <1>1, <1>2, <1>3, <1>4, <1>5, <1>6

\* Each of the four is a number.
LEMMA PlacesInt ==
  ASSUME ControlTypeOK, AccountsInv, StreamTypeOK
  PROVE  BroughtIn \in Int /\ InWallets \in Int /\ InPools \in Int /\ DustPaid \in Int
<1>1. BroughtIn \in Int
  <2>1. IsFiniteSet(JoinedUsers) /\ \A u \in JoinedUsers : opening[u] \in Int
    BY PlacesFinite
  <2>. QED
    BY <2>1, SumInt DEF BroughtIn
<1>2. InWallets \in Int
  <2>1. IsFiniteSet(JoinedUsers) /\ \A u \in JoinedUsers : wallets[u] \in Int
    BY PlacesFinite
  <2>. QED
    BY <2>1, SumInt DEF InWallets
<1>3. InPools \in Int
  <2>1. IsFiniteSet(HeldRounds) /\ \A r \in HeldRounds : total[r] \in Int
    BY PlacesFinite DEF HeldRounds
  <2>. QED
    BY <2>1, SumInt DEF InPools
<1>4. DustPaid \in Int
  <2>1. IsFiniteSet(Endings) /\ \A i \in Endings : DustAt[i] \in Int
    BY PlacesFinite
  <2>. QED
    BY <2>1, SumInt DEF DustPaid
<1>. QED
  BY <1>1, <1>2, <1>3, <1>4

\* A settlement adds its dust, a wager adds none.
LEMMA DustAppended ==
  ASSUME ControlTypeOK, AccountsInv, StreamTypeOK, NEW e, outbox' = Append(outbox, e),
         IsSettlement(e) => e.dust \in Nat
  PROVE  DustPaid' = DustPaid + (IF IsSettlement(e) THEN e.dust ELSE 0)
<1>. DEFINE n == Len(outbox) + 1
            before == DustAt
            after == DustAt'
            E == Endings
            F == Endings'
<1>1. /\ n \notin DOMAIN outbox
      /\ DOMAIN outbox' = DOMAIN outbox \cup {n}
      /\ \A i \in DOMAIN outbox : outbox'[i] = outbox[i]
      /\ outbox'[n] = e
  <2>1. IsStream(outbox)
    BY DEF StreamTypeOK, IsStream
  <2>. QED
    BY <2>1, OneMoreEntry
<1>. HIDE DEF n
<1>2. F = IF IsSettlement(e) THEN E \cup {n} ELSE E
  BY <1>1 DEF Endings, IsSettlement
<1>3. \A i \in E : after[i] = before[i] /\ before[i] \in Int
  <2>1. \A i \in E : i \in DOMAIN outbox /\ i \in F
    BY <1>2 DEF Endings
  <2>2. \A i \in E : after[i] = outbox'[i].dust /\ before[i] = outbox[i].dust
    BY <2>1 DEF DustAt
  <2>. QED
    BY <1>1, <2>1, <2>2, PlacesFinite
<1>4. IsSettlement(e) => n \in F /\ after[n] = e.dust
  BY <1>1, <1>2 DEF DustAt
<1>5. DustPaid' = SumFunctionOnSet(after, F) /\ DustPaid = SumFunctionOnSet(before, E)
  BY DEF DustPaid
<1>6. IsFiniteSet(E) /\ n \notin E
  BY <1>1, PlacesFinite DEF Endings
<1>. HIDE DEF before, after, E, F
<1>7. SumFunctionOnSet(before, E) = SumFunctionOnSet(after, E) /\ SumFunctionOnSet(before, E) \in Int
  BY <1>3, <1>6, SumEq, SumInt
<1>8. CASE IsSettlement(e)
  <2>1. SumFunctionOnSet(after, E \cup {n}) = SumFunctionOnSet(before, E) + after[n]
    BY <1>3, <1>4, <1>6, <1>8, SumAdd
  <2>. QED
    BY <1>2, <1>4, <1>5, <1>8, <2>1
<1>9. CASE ~IsSettlement(e)
  BY <1>2, <1>5, <1>7, <1>9
<1>. QED
  BY <1>8, <1>9

\* A join brings in what it puts into the wallet.
LEMMA JoinConserves ==
  ASSUME ControlTypeOK, AccountsInv, StreamTypeOK, TokensConserved, Joins
  PROVE  TokensConserved'
<1>0. BroughtIn = InWallets + InPools + DustPaid
  BY ConservedSum
<1>1. PICK u \in Users, b \in Grants :
        /\ wallets' = [wallets EXCEPT ![u] = IF @ = None THEN b ELSE @]
        /\ opening' = [opening EXCEPT ![u] = IF @ = None THEN b ELSE @]
        /\ UNCHANGED <<status, total, outbox>>
  BY DEF Joins
<1>2. wallets \in [Users -> Nat \cup {None}] /\ opening \in [Users -> Nat \cup {None}]
      /\ (wallets[u] = None <=> opening[u] = None)
  BY DEF ControlTypeOK, AccountsInv, WalletsOK, JoinedTogether
<1>3. InPools' = InPools /\ DustPaid' = DustPaid
  BY <1>1 DEF InPools, HeldRounds, DustPaid, DustAt, Endings
<1>4. CASE wallets[u] # None
  <2>1. wallets' = wallets /\ opening' = opening
    BY <1>1, <1>2, <1>4
  <2>. QED
    BY <1>1, <2>1 DEF TokensConserved
<1>5. CASE wallets[u] = None
  <2>. DEFINE J == JoinedUsers
              before == wallets
              after == wallets'
              had == opening
              has == opening'
  <2>1. b \in Nat /\ b # None
    BY RoundsAssumption
  <2>2. JoinedUsers' = J \cup {u} /\ u \notin J
    BY <1>1, <1>2, <1>5, <2>1 DEF JoinedUsers
  <2>3. \A v \in J : /\ before[v] \in Int /\ after[v] = before[v]
                     /\ had[v] \in Int /\ has[v] = had[v]
    BY <1>1, <1>2, <2>2, PlacesFinite DEF JoinedUsers
  <2>4. after[u] = b /\ has[u] = b /\ b \in Int
    BY <1>1, <1>2, <1>5, <2>1
  <2>5. IsFiniteSet(J)
    BY PlacesFinite
  <2>. HIDE DEF J, before, after, had, has
  <2>6. SumFunctionOnSet(after, J \cup {u}) = SumFunctionOnSet(before, J) + after[u]
    BY <2>2, <2>3, <2>4, <2>5, SumAdd
  <2>7. SumFunctionOnSet(has, J \cup {u}) = SumFunctionOnSet(had, J) + has[u]
    BY <2>2, <2>3, <2>4, <2>5, SumAdd
  <2>8. InWallets' = InWallets + b /\ BroughtIn' = BroughtIn + b
    BY <2>2, <2>4, <2>6, <2>7 DEF InWallets, BroughtIn, J, before, after, had, has
  <2>9. BroughtIn' = InWallets' + InPools' + DustPaid'
    BY <1>0, <1>3, <2>4, <2>8, PlacesInt
  <2>. QED
    BY <2>9, ConservedSumNext
<1>. QED
  BY <1>4, <1>5

\* A wager moves its amount from a wallet to a pool that is still to be settled.
LEMMA WagerConserves ==
  ASSUME ControlTypeOK, AccountsInv, StreamTypeOK, TokensConserved, TakesWager
  PROVE  TokensConserved'
<1>0. BroughtIn = InWallets + InPools + DustPaid
  BY ConservedSum
<1>1. PICK u \in Users, r \in RoundIDs, o \in Outcomes, a \in Amounts, k \in Keys :
        /\ status[r] = "open"
        /\ wallets[u] # None
        /\ wallets[u] >= a
        /\ RecordWager(u, r, o, a, k)
  BY DEF TakesWager
<1>. DEFINE J == JoinedUsers
            H == HeldRounds
            before == wallets
            after == wallets'
            had == total
            has == total'
<1>2. a \in Nat
  BY RoundsAssumption
<1>3. /\ wallets' = [wallets EXCEPT ![u] = @ - a] /\ total' = [total EXCEPT ![r] = @ + a]
      /\ outbox' = Append(outbox, WagerEvent(u, r, o, a, k))
      /\ UNCHANGED <<status, opening>>
  BY <1>1 DEF RecordWager
<1>4. u \in J /\ r \in H /\ H \subseteq RoundIDs
  BY <1>1 DEF JoinedUsers, HeldRounds, Live
<1>5. before[u] \in Nat /\ after[u] = before[u] - a /\ \A v \in J \ {u} : after[v] = before[v]
  BY <1>3, <1>4, PlacesFinite DEF AccountsInv, WalletsOK, JoinedUsers
<1>6. \A v \in J : before[v] \in Int /\ after[v] \in Int
  BY <1>2, <1>5, PlacesFinite
<1>7. had[r] \in Nat /\ has[r] = had[r] + a /\ \A s \in H \ {r} : has[s] = had[s]
  BY <1>3, <1>4 DEF ControlTypeOK
<1>8. \A s \in H : had[s] \in Int /\ has[s] \in Int
  BY <1>2, <1>4, <1>7, PlacesFinite
<1>9. JoinedUsers' = J /\ HeldRounds' = H
  <2>1. wallets[u] - a # None
    BY <1>1, <1>2, <1>5, RoundsAssumption
  <2>2. \A v \in Users : wallets'[v] = None <=> wallets[v] = None
    BY <1>1, <1>3, <2>1 DEF AccountsInv, WalletsOK
  <2>. QED
    BY <1>3, <2>2 DEF JoinedUsers, HeldRounds
<1>10. IsFiniteSet(J) /\ IsFiniteSet(H)
  BY PlacesFinite
<1>11. DustPaid' = DustPaid
  <2>1. ~IsSettlement(WagerEvent(u, r, o, a, k))
    BY WagerEntry
  <2>2. DustPaid' = DustPaid + 0
    BY <1>3, <2>1, DustAppended
  <2>. QED
    BY <2>2, PlacesInt
<1>. HIDE DEF J, H, before, after, had, has
<1>12. SumFunctionOnSet(after, J) = SumFunctionOnSet(before, J) + (after[u] - before[u])
  BY <1>4, <1>5, <1>6, <1>10, SumChange
<1>13. SumFunctionOnSet(has, H) = SumFunctionOnSet(had, H) + (has[r] - had[r])
  BY <1>4, <1>7, <1>8, <1>10, SumChange
<1>14. InWallets' = InWallets + (after[u] - before[u]) /\ InPools' = InPools + (has[r] - had[r])
  BY <1>9, <1>12, <1>13 DEF InWallets, InPools, J, H, before, after, had, has
<1>15. BroughtIn' = BroughtIn
  BY <1>3, <1>9 DEF BroughtIn, J
<1>16. BroughtIn' = InWallets' + InPools' + DustPaid'
  BY <1>0, <1>2, <1>5, <1>7, <1>11, <1>14, <1>15, PlacesInt
<1>. QED
  BY <1>16, ConservedSumNext

\* A settlement moves a round's pool to the wallets and to the dust.
LEMMA EndingConserves ==
  ASSUME ControlTypeOK, AccountsInv, PoolsMirrorWagers, StreamTypeOK, TokensConserved, EndsRound
  PROVE  TokensConserved'
<1>0. BroughtIn = InWallets + InPools + DustPaid
  BY ConservedSum
<1>1. PICK r \in RoundIDs, t \in Terminal, type \in {"round_settled", "round_refunded"},
           win \in Outcomes \cup {None} :
        \E credits, dust : EndsRoundWith(r, t, type, win, credits, dust)
  BY DEF EndsRound
<1>2. PICK credits, dust : EndsRoundWith(r, t, type, win, credits, dust)
  BY <1>1
<1>3. PICK e : AppendsEnding(e, r, credits, dust)
  BY <1>2, EndingEntry
<1>. DEFINE J == JoinedUsers
            H == HeldRounds
            before == wallets
            after == wallets'
            had == total
<1>4. /\ status[r] = "locked" /\ status' = [status EXCEPT ![r] = t]
      /\ wallets' = HIncrBy(wallets, credits)
      /\ SharesOut(wagers[r], credits, dust)
      /\ UNCHANGED <<total, opening>>
  BY <1>2 DEF EndsRoundWith
<1>5. /\ \A u \in Users : wallets'[u] = None <=> wallets[u] = None
      /\ \A u \in Users : wallets[u] # None => wallets'[u] = wallets[u] + credits[u]
      /\ \A u \in Users : wallets[u] = None => credits[u] = 0
  <2>1. Bettors(wagers[r]) \subseteq Users
    BY OnlyBettorsCount DEF ControlTypeOK
  <2>2. \A u \in Bettors(wagers[r]) : wallets[u] # None
    BY DEF AccountsInv, StakersJoined
  <2>. QED
    BY <1>4, <2>1, <2>2, CreditsAdd, RoundsAssumption DEF AccountsInv, WalletsOK
<1>6. /\ credits \in [Users -> Nat] /\ dust \in Nat
      /\ SumFunction(credits) + dust = TotalStaked(wagers[r])
  BY <1>4 DEF SharesOut
<1>7. total[r] = TotalStaked(wagers[r])
  BY MirroredTotal, MirrorByRound DEF ControlTypeOK
<1>8. JoinedUsers' = J /\ J \subseteq Users
  BY <1>5 DEF JoinedUsers
<1>9. r \in H /\ HeldRounds' = H \ {r} /\ H \subseteq RoundIDs
  BY <1>4 DEF HeldRounds, Live, Terminal, ControlTypeOK
<1>10. \A u \in J : /\ before[u] \in Int /\ credits[u] \in Int
                    /\ after[u] = before[u] + credits[u]
  BY <1>5, <1>6, PlacesFinite DEF JoinedUsers
<1>11. \A s \in H : had[s] \in Int
  BY <1>9, PlacesFinite
<1>12. \A u \in Users \ J : credits[u] = 0
  BY <1>5 DEF JoinedUsers
<1>13. IsFiniteSet(J) /\ IsFiniteSet(H)
  BY PlacesFinite
<1>14. DustPaid' = DustPaid + dust
  BY <1>3, <1>6, DustAppended DEF AppendsEnding
<1>. HIDE DEF J, H, before, after, had
<1>15. SumFunctionOnSet(after, J) = SumFunctionOnSet(before, J) + SumFunctionOnSet(credits, J)
  BY <1>10, <1>13, SumPlus
<1>16. SumFunctionOnSet(credits, J) = SumFunction(credits) /\ SumFunction(credits) \in Int
  <2>1. \A u \in Users : credits[u] \in Int
    BY <1>6
  <2>2. SumFunctionOnSet(credits, Users) = SumFunctionOnSet(credits, J)
    BY <1>8, <1>12, <2>1, FiniteBoard, SumSubset
  <2>3. SumFunction(credits) = SumFunctionOnSet(credits, Users)
    BY <1>6, SumDomain
  <2>4. SumFunctionOnSet(credits, Users) \in Int
    BY <2>1, FiniteBoard, SumInt
  <2>. QED
    BY <2>2, <2>3, <2>4
<1>17. SumFunctionOnSet(had, H) = had[r] + SumFunctionOnSet(had, H \ {r})
  BY <1>9, <1>11, <1>13, SumRemove
<1>18. InWallets' = InWallets + SumFunction(credits)
  BY <1>8, <1>15, <1>16 DEF InWallets, J, before, after
<1>19. InPools = total[r] + InPools'
  BY <1>4, <1>9, <1>17 DEF InPools, H, had
<1>20. BroughtIn' = BroughtIn
  BY <1>4, <1>8 DEF BroughtIn, J
<1>21. InPools' \in Int
  <2>1. IsFiniteSet(H \ {r}) /\ \A s \in H \ {r} : had[s] \in Int
    BY <1>11, <1>13, FS_Subset
  <2>2. SumFunctionOnSet(had, H \ {r}) \in Int
    BY <2>1, SumInt
  <2>. QED
    BY <1>4, <1>9, <2>2 DEF InPools, had
<1>22. BroughtIn' = InWallets' + InPools' + DustPaid'
  BY <1>0, <1>6, <1>7, <1>14, <1>16, <1>18, <1>19, <1>20, <1>21, PlacesInt
<1>. QED
  BY <1>22, ConservedSumNext

\* Opening a round puts nothing in its pool.
LEMMA OpeningConserves ==
  ASSUME ControlTypeOK, AccountsInv, PoolsMirrorWagers, StreamTypeOK, TokensConserved, OpensRound
  PROVE  TokensConserved'
<1>0. BroughtIn = InWallets + InPools + DustPaid
  BY ConservedSum
<1>1. PICK r \in RoundIDs :
        /\ status[r] = "none"
        /\ status' = [status EXCEPT ![r] = "open"]
        /\ total' = [total EXCEPT ![r] = 0]
        /\ UNCHANGED <<wallets, opening, outbox>>
  BY DEF OpensRound
<1>. DEFINE H == HeldRounds
            had == total
            has == total'
<1>2. HeldRounds' = H \cup {r} /\ r \notin H /\ H \subseteq RoundIDs
  BY <1>1 DEF HeldRounds, Live, ControlTypeOK
<1>3. has[r] = 0 /\ \A s \in H : had[s] \in Int /\ has[s] = had[s]
  BY <1>1, <1>2 DEF ControlTypeOK
<1>4. IsFiniteSet(H)
  BY PlacesFinite
<1>. HIDE DEF H, had, has
<1>5. SumFunctionOnSet(has, H \cup {r}) = SumFunctionOnSet(had, H) + has[r]
  <2>1. has[r] \in Int
    BY <1>3
  <2>. QED
    BY <1>2, <1>3, <1>4, <2>1, SumAdd
<1>6. InPools' = InPools
  <2>1. InPools' = InPools + 0
    BY <1>2, <1>3, <1>5 DEF InPools, H, had, has
  <2>. QED
    BY <2>1, PlacesInt
<1>7. BroughtIn' = BroughtIn /\ InWallets' = InWallets /\ DustPaid' = DustPaid
  BY <1>1 DEF BroughtIn, InWallets, JoinedUsers, DustPaid, DustAt, Endings
<1>8. BroughtIn' = InWallets' + InPools' + DustPaid'
  BY <1>0, <1>6, <1>7
<1>. QED
  BY <1>8, ConservedSumNext

\* Each of the five leaves the balance as it was.
LEMMA ConservedStep ==
  ASSUME ControlTypeOK, AccountsInv, PoolsMirrorWagers, StreamTypeOK, TokensConserved,
         MovesNothing \/ OpensRound \/ Joins \/ TakesWager \/ EndsRound
  PROVE  TokensConserved'
<1>1. CASE MovesNothing
  <2>1. HeldRounds' = HeldRounds
    BY <1>1 DEF MovesNothing, HeldRounds
  <2>2. /\ BroughtIn' = BroughtIn /\ InWallets' = InWallets
        /\ InPools' = InPools /\ DustPaid' = DustPaid
    BY <1>1, <2>1 DEF MovesNothing, BroughtIn, InWallets, InPools, DustPaid, JoinedUsers,
                      DustAt, Endings
  <2>. QED
    BY <2>2, ConservedSum, ConservedSumNext
<1>. QED
  BY <1>1, OpeningConserves, JoinConserves, WagerConserves, EndingConserves

-----------------------------------------------------------------------------
(***************************************************************************)
(* The inductive invariant of the money, and what follows from it.         *)
(***************************************************************************)
MoneyInv ==
  /\ AccountsInv
  /\ PoolsMirrorWagers
  /\ StreamTypeOK
  /\ SettlementCoversPool
  /\ TokensConserved

\* Nothing was brought in, and nothing is anywhere.
LEMMA InitMoney == Init => MoneyInv
<1>. SUFFICES ASSUME Init PROVE MoneyInv
  OBVIOUS
<1>1. AccountsInv /\ PoolsMirrorWagers
  BY InitAccounts, InitMirrors
<1>2. StreamTypeOK /\ SettlementCoversPool
  BY DEF Init, StreamTypeOK, SettlementCoversPool
<1>3. TokensConserved
  <2>1. JoinedUsers = {} /\ HeldRounds = {} /\ Endings = {}
    BY DEF Init, JoinedUsers, HeldRounds, Live, Endings
  <2>2. BroughtIn = 0 /\ InWallets = 0 /\ InPools = 0 /\ DustPaid = 0
    BY <2>1, SumEmpty DEF BroughtIn, InWallets, InPools, DustPaid
  <2>. QED
    BY <2>2, ConservedSum
<1>. QED
  BY <1>1, <1>2, <1>3 DEF MoneyInv

\* Wallets, pools and stream support each other in every step of the room.
THEOREM MoneyInvariant == Spec => [](RoundsInv /\ MoneyInv)
<1>1. RoundsInv /\ MoneyInv /\ [Next]_vars => MoneyInv'
  <2>. SUFFICES ASSUME RoundsInv, MoneyInv, [Next]_vars PROVE MoneyInv'
    OBVIOUS
  <2>1. MovesNothing \/ OpensRound \/ Joins \/ TakesWager \/ EndsRound
    BY MoneyStep DEF RoundsInv
  <2>2. AccountsInv' /\ PoolsMirrorWagers' /\ StreamTypeOK'
    BY <2>1, AccountsStep, MirrorsStep, StreamTypeStep DEF RoundsInv, MoneyInv
  <2>3. SettlementCoversPool' /\ TokensConserved'
    BY <2>1, CoversStep, ConservedStep DEF RoundsInv, MoneyInv
  <2>. QED
    BY <2>2, <2>3 DEF MoneyInv
<1>. QED
  BY <1>1, InitMoney, RoundsInvariant, PTL DEF Spec

(***************************************************************************)
(* The type invariant: however handlers, timers and wagers interleave, no  *)
(* wallet goes below zero and no settlement carries a negative amount.     *)
(***************************************************************************)
THEOREM TypeCorrect == Spec => []TypeOK
<1>1. RoundsInv /\ MoneyInv => TypeOK
  BY DEF RoundsInv, MoneyInv, AccountsInv, WalletsOK, StreamTypeOK, TypeOK
<1>. QED
  BY <1>1, MoneyInvariant, PTL

(***************************************************************************)
(* place_wager.lua and CreateRound keep the pools, the total and the       *)
(* bettors in step with the wagers settlement will read.                   *)
(***************************************************************************)
THEOREM PoolsMirrorCorrect == Spec => []PoolsMirrorWagers
<1>1. RoundsInv /\ MoneyInv => PoolsMirrorWagers
  BY DEF MoneyInv
<1>. QED
  BY <1>1, MoneyInvariant, PTL

(***************************************************************************)
(* settle_round.lua and refund_round.lua share out exactly the pool Redis  *)
(* counted up, although Go computed the shares from an earlier read.       *)
(***************************************************************************)
THEOREM SettlementCoversCorrect == Spec => []SettlementCoversPool
<1>1. RoundsInv /\ MoneyInv => SettlementCoversPool
  BY DEF MoneyInv
<1>. QED
  BY <1>1, MoneyInvariant, PTL

(***************************************************************************)
(* Whatever fails and whenever, the room mints and burns no token.         *)
(***************************************************************************)
THEOREM ConservationCorrect == Spec => []TokensConserved
<1>1. RoundsInv /\ MoneyInv => TokensConserved
  BY DEF MoneyInv
<1>. QED
  BY <1>1, MoneyInvariant, PTL

-----------------------------------------------------------------------------
(***************************************************************************)
(* The hash never loses a wager the stream carries: the round of a         *)
(* wager_placed entry holds at least its amount from its player on its     *)
(* outcome, also when the round has ended.                                 *)
(***************************************************************************)
EntriesAreHeld ==
  \A i \in DOMAIN outbox :
    IsWager(outbox[i]) =>
      wagers[outbox[i].round][<<outbox[i].user, outbox[i].outcome>>] >= outbox[i].amount

\* What an entry of a well-typed stream names.
LEMMA WagersNamed ==
  ASSUME ControlTypeOK, StreamTypeOK, NEW i \in DOMAIN outbox, IsWager(outbox[i])
  PROVE  /\ outbox[i].round \in RoundIDs
         /\ <<outbox[i].user, outbox[i].outcome>> \in Fields
         /\ outbox[i].amount \in Nat
         /\ \A r \in RoundIDs : wagers[r] \in [Fields -> Nat]
<1>1. outbox[i] \in WagerEvents
  BY DEF StreamTypeOK, IsWager, SettlementEvents
<1>. QED
  BY <1>1, RoundsAssumption DEF WagerEvents, Fields, ControlTypeOK, Wagers

LEMMA EntriesStep ==
  ASSUME ControlTypeOK, StreamTypeOK, IsStream(outbox), EntriesAreHeld,
         MovesNothing \/ OpensRound \/ Joins \/ TakesWager \/ EndsRound
  PROVE  EntriesAreHeld'
<1>1. CASE MovesNothing \/ OpensRound \/ Joins
  BY <1>1 DEF MovesNothing, OpensRound, Joins, EntriesAreHeld
<1>2. CASE TakesWager
  <2>1. PICK u \in Users, r \in RoundIDs, o \in Outcomes, a \in Amounts, k \in Keys :
          RecordWager(u, r, o, a, k)
    BY <1>2 DEF TakesWager
  <2>. DEFINE n == Len(outbox) + 1
              e == WagerEvent(u, r, o, a, k)
  <2>2. outbox' = Append(outbox, e) /\ a \in Nat
    BY <2>1, RoundsAssumption DEF RecordWager
  <2>3. /\ DOMAIN outbox' = DOMAIN outbox \cup {n}
        /\ \A i \in DOMAIN outbox : outbox'[i] = outbox[i]
        /\ outbox'[n] = e
    BY <2>2, OneMoreEntry
  <2>4. /\ wagers[r] \in [Fields -> Nat] /\ <<u, o>> \in Fields
        /\ wagers'[r] = [wagers[r] EXCEPT ![<<u, o>>] = @ + a]
        /\ \A s \in RoundIDs \ {r} : wagers'[s] = wagers[s]
    <3>1. <<u, o>> \in Fields
      BY DEF Fields
    <3>2. wagers[r] \in Wagers /\ wagers'[r] = [wagers[r] EXCEPT ![<<u, o>>] = @ + a]
      BY <2>1, WagersAfter
    <3>3. \A s \in RoundIDs \ {r} : wagers'[s] = wagers[s]
      BY <2>1, WagersAfter
    <3>. QED
      BY <3>1, <3>2, <3>3 DEF Wagers
  <2>5. ASSUME NEW s \in RoundIDs, NEW f \in Fields, wagers[s] \in [Fields -> Nat]
        PROVE  wagers'[s] \in [Fields -> Nat] /\ wagers'[s][f] >= wagers[s][f]
    <3>1. CASE s = r
      <4>. DEFINE g == <<u, o>>
                  w == wagers[r]
      <4>1. g \in Fields /\ w \in [Fields -> Nat] /\ wagers'[s] = [w EXCEPT ![g] = @ + a]
        BY <2>4, <3>1
      <4>. HIDE DEF g, w
      <4>2. w[g] \in Nat /\ w[f] \in Nat /\ w[g] + a \in Nat
        BY <2>2, <4>1
      <4>3. wagers'[s][f] = IF f = g THEN w[g] + a ELSE w[f]
        BY <4>1
      <4>4. wagers'[s] \in [Fields -> Nat]
        BY <4>1, <4>2
      <4>5. wagers'[s][f] >= w[f]
        BY <2>2, <4>2, <4>3
      <4>. QED
        BY <3>1, <4>4, <4>5 DEF w
    <3>2. CASE s # r
      BY <2>4, <2>5, <3>2
    <3>. QED
      BY <3>1, <3>2
  <2>6. ASSUME NEW i \in DOMAIN outbox, IsWager(outbox[i])
        PROVE  wagers'[outbox[i].round][<<outbox[i].user, outbox[i].outcome>>]
                 >= outbox[i].amount
    <3>. DEFINE s == outbox[i].round
                f == <<outbox[i].user, outbox[i].outcome>>
    <3>1. /\ s \in RoundIDs /\ f \in Fields /\ outbox[i].amount \in Nat
          /\ wagers[s] \in [Fields -> Nat]
      BY <2>6, WagersNamed
    <3>2. wagers[s][f] >= outbox[i].amount
      BY <2>6 DEF EntriesAreHeld
    <3>. HIDE DEF s, f
    <3>3. wagers'[s][f] >= wagers[s][f] /\ wagers'[s] \in [Fields -> Nat]
      BY <2>5, <3>1
    <3>4. wagers[s][f] \in Nat /\ wagers'[s][f] \in Nat
      BY <3>1, <3>3
    <3>5. wagers'[s][f] >= outbox[i].amount
      BY <3>1, <3>2, <3>3, <3>4
    <3>. QED
      BY <3>5 DEF s, f
  <2>7. wagers'[r][<<u, o>>] >= a
    BY <2>2, <2>4
  <2>8. e.round = r /\ e.user = u /\ e.outcome = o /\ e.amount = a
    BY DEF WagerEvent
  <2>. HIDE DEF n, e
  <2>. QED
    BY <2>3, <2>6, <2>7, <2>8 DEF EntriesAreHeld, IsWager
<1>3. CASE EndsRound
  <2>1. PICK r \in RoundIDs, t \in Terminal, type \in {"round_settled", "round_refunded"},
             win \in Outcomes \cup {None} :
          \E credits, dust : EndsRoundWith(r, t, type, win, credits, dust)
    BY <1>3 DEF EndsRound
  <2>2. PICK credits, dust : EndsRoundWith(r, t, type, win, credits, dust)
    BY <2>1
  <2>. DEFINE n == Len(outbox) + 1
              e == SettlementEvent(type, r, win, TotalStaked(wagers[r]), dust, credits)
  <2>3. outbox' = Append(outbox, e) /\ wagers' = wagers
    BY <2>2 DEF EndsRoundWith
  <2>4. e.type # "wager_placed"
    BY DEF SettlementEvent
  <2>. HIDE DEF e
  <2>5. /\ DOMAIN outbox' = DOMAIN outbox \cup {n}
        /\ \A i \in DOMAIN outbox : outbox'[i] = outbox[i]
        /\ outbox'[n] = e
    BY <2>3, OneMoreEntry
  <2>. HIDE DEF n
  <2>. QED
    BY <2>3, <2>4, <2>5 DEF EntriesAreHeld, IsWager
<1>. QED
  BY <1>1, <1>2, <1>3

THEOREM EntriesHeldCorrect == Spec => []EntriesAreHeld
<1>1. Init => EntriesAreHeld
  BY DEF Init, EntriesAreHeld
<1>2. RoundsInv /\ MoneyInv /\ EntriesAreHeld /\ [Next]_vars => EntriesAreHeld'
  <2>. SUFFICES ASSUME RoundsInv, MoneyInv, EntriesAreHeld, [Next]_vars PROVE EntriesAreHeld'
    OBVIOUS
  <2>1. MovesNothing \/ OpensRound \/ Joins \/ TakesWager \/ EndsRound
    BY MoneyStep DEF RoundsInv
  <2>. QED
    BY <2>1, EntriesStep DEF RoundsInv, StreamInv, MoneyInv
<1>. QED
  BY <1>1, <1>2, MoneyInvariant, PTL DEF Spec

-----------------------------------------------------------------------------
(***************************************************************************)
(* AtomicRounds has its own copy of the settlement arithmetic.  It is the  *)
(* same arithmetic.                                                        *)
(***************************************************************************)
LEMMA SameSum ==
  /\ \A f, S : Atomic!SumFunctionOnSet(f, S) = SumFunctionOnSet(f, S)
  /\ \A f : Atomic!SumFunction(f) = SumFunction(f)
BY Zenon DEF SumFunction, Atomic!SumFunction, SumFunctionOnSet, Atomic!SumFunctionOnSet,
   FoldFunctionOnSet, Atomic!FoldFunctionOnSet, MapThenFoldSet, Atomic!MapThenFoldSet

\* Nor does it matter whose copy picks the stakes,
LEMMA SameStakes ==
  /\ Atomic!Fields = Fields
  /\ \A w : Atomic!Stakes(w) = Stakes(w)
  /\ \A w, u : Atomic!StakesOf(w, u) = StakesOf(w, u)
BY DEF Fields, Atomic!Fields, Stakes, Atomic!Stakes, StakesOf, Atomic!StakesOf

\* works out the payouts,
LEMMA SameSettlement ==
  /\ \A w : Atomic!TotalStaked(w) = TotalStaked(w)
  /\ \A w, win : Atomic!IsRefund(w, win) = IsRefund(w, win)
  /\ \A w, win : Atomic!Dust(w, win) = Dust(w, win)
  /\ \A w, win : Atomic!Credits(w, win) = Credits(w, win)
  /\ \A w : Atomic!AggregateStakes(w) = AggregateStakes(w)
<1>1. ASSUME NEW w PROVE Atomic!TotalStaked(w) = TotalStaked(w)
  BY SameSum, SameStakes DEF TotalStaked, Atomic!TotalStaked
<1>2. ASSUME NEW w, NEW win PROVE Atomic!WinningPool(w, win) = WinningPool(w, win)
  BY SameSum, SameStakes DEF WinningPool, Atomic!WinningPool
<1>3. ASSUME NEW w, NEW win PROVE Atomic!IsRefund(w, win) = IsRefund(w, win)
  BY <1>2 DEF IsRefund, Atomic!IsRefund
<1>4. ASSUME NEW w, NEW win PROVE Atomic!Payouts(w, win) = Payouts(w, win)
  BY <1>1, <1>2, <1>3, SameStakes
     DEF Payouts, Atomic!Payouts, WinnerPayout, Atomic!WinnerPayout
<1>5. ASSUME NEW w, NEW win PROVE Atomic!Dust(w, win) = Dust(w, win)
  BY <1>1, <1>4, SameSum DEF Dust, Atomic!Dust, Paid, Atomic!Paid
<1>6. ASSUME NEW w, NEW win PROVE Atomic!Credits(w, win) = Credits(w, win)
  BY <1>4, SameSum DEF Credits, Atomic!Credits
<1>7. ASSUME NEW w PROVE Atomic!AggregateStakes(w) = AggregateStakes(w)
  BY SameSum, SameStakes DEF AggregateStakes, Atomic!AggregateStakes
<1>. QED
  BY <1>1, <1>3, <1>5, <1>6, <1>7

\* or writes them.
LEMMA SameCredit ==
  /\ \A hash, credits : Atomic!HIncrBy(hash, credits) = HIncrBy(hash, credits)
  /\ \A u, r, o, a, k : Atomic!WagerEvent(u, r, o, a, k) = WagerEvent(u, r, o, a, k)
  /\ \A t, r, win, n, d, c : Atomic!SettlementEvent(t, r, win, n, d, c)
                               = SettlementEvent(t, r, win, n, d, c)
  /\ \A e : Atomic!IsWager(e) = IsWager(e)
BY DEF HIncrBy, Atomic!HIncrBy, WagerEvent, Atomic!WagerEvent, SettlementEvent,
       Atomic!SettlementEvent, IsWager, Atomic!IsWager

-----------------------------------------------------------------------------
\* The initial states are initial states.
LEMMA InitRefines == Init => Atomic!Init
BY DEF Init, Atomic!Init, NoWagers, Atomic!NoWagers, Fields, Atomic!Fields

\* A join is a join.
LEMMA JoinRefines ==
  ASSUME NEW u \in Users, NEW b \in Grants, JoinRoom(u, b)
  PROVE  Atomic!Next
<1>1. Atomic!Join(u, b)
  BY DEF JoinRoom, Atomic!Join
<1>. QED
  BY <1>1 DEF Atomic!Next

\* While a round takes wagers, a key with no cached reply is one it has not taken.
LEMMA WagerRefines ==
  ASSUME RoundsInv, NEW u \in Users, NEW o \in Outcomes, NEW a \in Amounts, NEW k \in Keys,
         PlaceWager(u, o, a, k)
  PROVE  Atomic!Next
<1>. DEFINE r == bet[u]
<1>1. r \in RoundIDs /\ AcceptWager(u, r, o, a, k)
  BY DEF PlaceWager, RoundsInv, ControlTypeOK
<1>2. \A i \in DOMAIN outbox :
        IsWager(outbox[i]) /\ outbox[i].round = r => outbox[i].key # k
  BY <1>1 DEF AcceptWager, RoundsInv, StreamInv, OneDebitPerKey, TakesWagers
<1>3. Atomic!Bet(u, r, o, a, k)
  BY <1>1, <1>2, SameCredit DEF AcceptWager, RecordWager, Atomic!Bet
<1>. QED
  BY <1>1, <1>3 DEF Atomic!Next

\* The settlement script, fed with a current snapshot, is an atomic settlement.
LEMMA SettleRefines ==
  ASSUME RoundsInv, NEW h \in HostConns, SettleApply(h)
  PROVE  Atomic!Next \/ UNCHANGED Atomic!vars
<1>. DEFINE r == job[h].round
            win == job[h].win
<1>1. CASE UNCHANGED store
  BY <1>1 DEF store, Atomic!vars
<1>2. CASE SettleRoundScript(r, job[h].stakes, win)
  <2>1. h \in Goroutines /\ job[h].at = "apply" /\ job[h] \in HandlerJobs
    BY DEF SettleApply, Goroutines, RoundsInv, ControlTypeOK, JobsTypeOK
  <2>2. r \in RoundIDs /\ win \in Outcomes
    BY <2>1 DEF HandlerJobs, SettleSteps, Idle, Job
  <2>3. job[h].stakes = wagers[r]
    BY <2>1 DEF RoundsInv, SnapshotIsCurrent
  <2>4. SettleRoundScript(r, wagers[r], win)
    BY <1>2, <2>3
  <2>5. Atomic!Settle(r, win)
    BY <2>4, SameSettlement, SameCredit DEF SettleRoundScript, Pay, Atomic!Settle
  <2>. QED
    BY <2>2, <2>5 DEF Atomic!Next
<1>. QED
  BY <1>1, <1>2 DEF SettleApply

\* So is the refund script.
LEMMA RefundRefines ==
  ASSUME RoundsInv, NEW r \in RoundIDs, RefundApply(r)
  PROVE  Atomic!Next \/ UNCHANGED Atomic!vars
<1>1. CASE UNCHANGED store
  BY <1>1 DEF store, Atomic!vars
<1>2. CASE RefundRoundScript(r, job[r].stakes)
  <2>1. r \in Goroutines /\ job[r].at = "apply" /\ job[r] \in WatchJobs(r)
    BY DEF RefundApply, Goroutines, RoundsInv, ControlTypeOK, JobsTypeOK
  <2>2. job[r].round = r
    BY <2>1 DEF WatchJobs, SettleSteps, Idle, Job
  <2>3. job[r].stakes = wagers[r]
    BY <2>1, <2>2 DEF RoundsInv, SnapshotIsCurrent
  <2>4. RefundRoundScript(r, wagers[r])
    BY <1>2, <2>3
  <2>5. Atomic!Refund(r)
    BY <2>4, SameSettlement, SameCredit DEF RefundRoundScript, GiveBack, Atomic!Refund
  <2>. QED
    BY <2>5 DEF Atomic!Next
<1>. QED
  BY <1>1, <1>2 DEF RefundApply

(***************************************************************************)
(* Every other step changes a status or nothing the atomic room can see.   *)
(***************************************************************************)
LEMMA StepRefines == RoundsInv /\ [Next]_vars => [Atomic!Next]_(Atomic!vars)
<1>. SUFFICES ASSUME RoundsInv, [Next]_vars
              PROVE  Atomic!Next \/ UNCHANGED Atomic!vars
  OBVIOUS
<1>1. ASSUME NEW u \in Users, Player(u)
      PROVE  Atomic!Next \/ UNCHANGED Atomic!vars
  <2>1. CASE WagerPreflight(u) \/ RefuseWager(u)
    BY <2>1 DEF WagerPreflight, RefuseWager, store, Atomic!vars
  <2>. QED
    BY <1>1, <2>1, JoinRefines, WagerRefines DEF Player
<1>2. ASSUME NEW r \in RoundIDs, LockInstantPasses(r) \/ WatchReread(r)
      PROVE  UNCHANGED Atomic!vars
  BY <1>2 DEF LockInstantPasses, WatchReread, store, Atomic!vars
<1>3. ASSUME NEW r \in RoundIDs, WatchLock(r)
      PROVE  Atomic!Next \/ UNCHANGED Atomic!vars
  <2>1. CASE status[r] = "open"
    <3>1. Atomic!Lock(r)
      BY <1>3, <2>1 DEF WatchLock, Atomic!Lock
    <3>. QED
      BY <3>1 DEF Atomic!Next
  <2>2. CASE status[r] # "open"
    <3>1. status' = status
      BY <1>3, <2>2 DEF WatchLock, RoundsInv, ControlTypeOK
    <3>. QED
      BY <1>3, <3>1 DEF WatchLock, Atomic!vars
  <2>. QED
    BY <2>1, <2>2
<1>4. ASSUME NEW x \in Goroutines,
             CheckLocked(x) \/ ReadStakes(x) \/ ClearCurrentRound(x) \/ CallFails(x)
      PROVE  UNCHANGED Atomic!vars
  BY <1>4 DEF CheckLocked, ReadStakes, ClearCurrentRound, CallFails, store, Atomic!vars
<1>5. ASSUME NEW h \in HostConns, NEW r \in RoundIDs, CreateRound(h, r)
      PROVE  Atomic!Next
  <2>1. Atomic!Open(r)
    BY <1>5 DEF CreateRound, Atomic!Open
  <2>. QED
    BY <2>1 DEF Atomic!Next
<1>6. ASSUME NEW h \in HostConns,
             \/ OpenReadIndex(h) \/ OpenCheckCurrent(h) \/ StartWatch(h)
             \/ \E win \in Outcomes : ResolveReadIndex(h, win)
      PROVE  UNCHANGED Atomic!vars
  BY <1>6 DEF OpenReadIndex, OpenCheckCurrent, StartWatch, ResolveReadIndex, store, Atomic!vars
<1>7. CASE ApiCrash \/ (\E k \in Keys : KeyExpires(k)) \/ UNCHANGED vars
  BY <1>7 DEF ApiCrash, KeyExpires, vars, store, Atomic!vars
<1>. QED
  BY <1>1, <1>2, <1>3, <1>4, <1>5, <1>6, <1>7, SettleRefines, RefundRefines
     DEF Next, WatchStep, HandlerStep, Goroutines

(***************************************************************************)
(* The room's money behaves as if every round were settled in one step.    *)
(***************************************************************************)
THEOREM RefinementCorrect == Spec => ImplementsAtomicRounds
BY InitRefines, StepRefines, RoundsInvariant, PTL DEF Spec, ImplementsAtomicRounds, Atomic!Spec
=============================================================================
