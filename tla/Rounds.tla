------------------------------- MODULE Rounds -------------------------------
(***************************************************************************)
(* One room of CallIt: its Redis state, the host's socket handlers, the    *)
(* players' wagers and the in-process clock of every round, interleaved at *)
(* the granularity of one Redis command (or one Lua script, or one MULTI). *)
(*                                                                         *)
(* Redis runs a script or a MULTI alone, so each is one step.  Everything  *)
(* the Go code does between two Redis calls is local to a goroutine and is *)
(* merged with the call that follows it.  A goroutine is a job: the host's *)
(* sockets in HostConns each run one handler at a time (ReadPump hands it  *)
(* one message after another), and every round has one watch goroutine,    *)
(* which is named by its round.                                            *)
(*                                                                         *)
(* Two clocks decide a round's lockout, the API's timer and Redis TIME;    *)
(* nothing synchronises them, so each may strike at any moment.            *)
(***************************************************************************)
EXTENDS Store

CONSTANTS Host,       \* the room's host, one of Users
          HostConns,  \* the host's live sockets
          RoundIDs,   \* round identifiers (bound: rounds ever opened)
          Keys,       \* idempotency keys (bound: wagers accepted in a round)
          Amounts,    \* stake sizes tried
          Grants,     \* session balances a join may be granted
          MaxExpired, \* bound: keys used whose cached reply is gone
          MaxFaults   \* bound: failed calls and API crashes

ASSUME RoundsAssumption ==
  /\ HostConns \cap RoundIDs = {}
  /\ IsFiniteSet(RoundIDs)
  /\ None \notin RoundIDs \cup Outcomes \cup Nat
  /\ Amounts \subseteq Nat \ {0}
  /\ Grants \subseteq Nat \ {0}
  /\ MaxExpired \in Nat
  /\ MaxFaults \in Nat

VARIABLES
  \* Redis
  status,     \* round:{id} status
  resolved,   \* round:{id} resolved_outcome
  expired,    \* TRUE once Redis TIME has reached round:{id} lock_at_ms
  pools,      \* round:{id}:pools, one field per outcome
  total,      \* round:{id}:pools field "total"
  wagers,     \* round:{id}:wagers
  bettors,    \* round:{id}:bettors
  index,      \* room:{id}:round
  wallets,    \* room:{id}:wallets
  opening,    \* room:{id}:opening
  idem,       \* idem:{key}: idempotency keys with a cached reply
  outbox,     \* the wager-outbox stream
  \* the API process
  job,        \* job[x]: where goroutine x is, and its locals
  bet,        \* bet[u]: the round a wager of u is about to hit, or None
  faults      \* failures so far

store == <<status, resolved, expired, pools, total, wagers, bettors, index,
           wallets, opening, idem, outbox>>

vars == <<store, job, bet, faults>>

Goroutines == HostConns \cup RoundIDs

Job(at, r, win, stakes) == [at |-> at, round |-> r, win |-> win, stakes |-> stakes]

Idle == Job("idle", None, None, NoWagers)

Init ==
  /\ status = [r \in RoundIDs |-> "none"]
  /\ resolved = [r \in RoundIDs |-> None]
  /\ expired = [r \in RoundIDs |-> FALSE]
  /\ pools = [r \in RoundIDs |-> [o \in Outcomes |-> 0]]
  /\ total = [r \in RoundIDs |-> 0]
  /\ wagers = [r \in RoundIDs |-> NoWagers]
  /\ bettors = [r \in RoundIDs |-> {}]
  /\ index = None
  /\ wallets = [u \in Users |-> None]
  /\ opening = [u \in Users |-> None]
  /\ idem = {}
  /\ outbox = << >>
  /\ job = [x \in Goroutines |-> Idle]
  /\ bet = [u \in Users |-> None]
  /\ faults = 0

\* Goroutine x moves on to step at, keeping its locals.
Goto(x, at) == job' = [job EXCEPT ![x] = Job(at, @.round, @.win, @.stakes)]

\* Goroutine x returns: a handler is ready for the next message, a watch ends.
Return(x) == job' = [job EXCEPT ![x] = Idle]

-----------------------------------------------------------------------------
(***************************************************************************)
(* Players                                                                 *)
(***************************************************************************)

\* JoinRoom: HSETNX on both hashes in one MULTI.  A rejoin changes neither.
JoinRoom(u, b) ==
  /\ wallets' = [wallets EXCEPT ![u] = IF @ = None THEN b ELSE @]
  /\ opening' = [opening EXCEPT ![u] = IF @ = None THEN b ELSE @]
  /\ UNCHANGED <<status, resolved, expired, pools, total, wagers, bettors, index,
                 idem, outbox, job, bet, faults>>

\* Redis TIME reaches the lock instant of an open round.
LockInstantPasses(r) ==
  /\ status[r] = "open"
  /\ ~expired[r]
  /\ expired' = [expired EXCEPT ![r] = TRUE]
  /\ UNCHANGED <<status, resolved, pools, total, wagers, bettors, index, wallets,
                 opening, idem, outbox, job, bet, faults>>

\* Place learns the round from WagerPreflight's read of the index; with no
\* current round it fails with ErrNoActiveRound and nothing happens.
WagerPreflight(u) ==
  /\ bet[u] = None
  /\ index # None
  /\ bet' = [bet EXCEPT ![u] = index]
  /\ UNCHANGED <<store, job, faults>>

\* Mutant: HSET instead of HINCRBY on the wagers hash.
RecordOverwriting(u, r, o, a, k) ==
  /\ wallets' = [wallets EXCEPT ![u] = @ - a]
  /\ pools' = [pools EXCEPT ![r][o] = @ + a]
  /\ total' = [total EXCEPT ![r] = @ + a]
  /\ wagers' = [wagers EXCEPT ![r][<<u, o>>] = a]
  /\ bettors' = [bettors EXCEPT ![r] = @ \cup {u}]
  /\ outbox' = Append(outbox, WagerEvent(u, r, o, a, k))
  /\ idem' = idem \cup {k}
  /\ UNCHANGED <<status, resolved, expired, index, opening>>

\* What an accepted wager writes: the debit, the pools, the wager, the bettor,
\* the stream entry and the cached reply, which KeyExpires deletes a day later.
RecordWager(u, r, o, a, k) ==
  /\ wallets' = [wallets EXCEPT ![u] = @ - a]
  /\ pools' = [pools EXCEPT ![r][o] = @ + a]
  /\ total' = [total EXCEPT ![r] = @ + a]
  /\ wagers' = [wagers EXCEPT ![r][<<u, o>>] = @ + a]
  /\ bettors' = [bettors EXCEPT ![r] = @ \cup {u}]
  /\ outbox' = Append(outbox, WagerEvent(u, r, o, a, k))
  /\ idem' = idem \cup {k}
  /\ UNCHANGED <<status, resolved, expired, index, opening>>

\* Mutant: lockout judged by Redis TIME alone, the status forgotten.
AcceptByClockOnly(u, r, o, a, k) ==
  /\ k \notin idem
  /\ ~expired[r]
  /\ u # Host
  /\ wallets[u] # None
  /\ wallets[u] >= a
  /\ RecordWager(u, r, o, a, k)

\* Mutant: a retried wager is not recognised.
AcceptWithoutIdempotency(u, r, o, a, k) ==
  /\ status[r] = "open"
  /\ ~expired[r]
  /\ u # Host
  /\ wallets[u] # None
  /\ wallets[u] >= a
  /\ RecordWager(u, r, o, a, k)

\* Mutant: the balance is not compared with the stake.
AcceptOnCredit(u, r, o, a, k) ==
  /\ k \notin idem
  /\ status[r] = "open"
  /\ ~expired[r]
  /\ u # Host
  /\ wallets[u] # None
  /\ RecordWager(u, r, o, a, k)

\* place_wager.lua accepts: every guard, in the script's order, then the writes.
AcceptWager(u, r, o, a, k) ==
  /\ k \notin idem
  /\ status[r] = "open"
  /\ ~expired[r]
  /\ u # Host
  /\ wallets[u] # None
  /\ wallets[u] >= a
  /\ RecordWager(u, r, o, a, k)

\* Keys the stream has a wager of and Redis no reply.
Forgotten == {outbox[i].key : i \in {j \in DOMAIN outbox : IsWager(outbox[j])}} \ idem

\* A round the script would accept a wager of.
TakesWagers(r) == status[r] = "open" /\ ~expired[r]

\* A day after its wager (EX 86400) the cached reply is gone.  By then Redis TIME is
\* long past the lock instant of the wager's round, 120 seconds away at most.
KeyExpires(k) ==
  /\ k \in idem
  /\ Cardinality(Forgotten) < MaxExpired
  /\ \A i \in DOMAIN outbox :
       IsWager(outbox[i]) /\ outbox[i].key = k => ~TakesWagers(outbox[i].round)
  /\ idem' = idem \ {k}
  /\ UNCHANGED <<status, resolved, expired, pools, total, wagers, bettors, index, wallets,
                 opening, outbox, job, bet, faults>>

\* PlaceWager on the round the preflight found, which may have moved on since.
PlaceWager(u, o, a, k) ==
  /\ bet[u] # None
  /\ AcceptWager(u, bet[u], o, a, k)
  /\ bet' = [bet EXCEPT ![u] = None]
  /\ UNCHANGED <<job, faults>>

\* The script refuses (an outcome out of range always can be asked for), or
\* the key is a replay and its cached reply is returned: nothing is written.
RefuseWager(u) ==
  /\ bet[u] # None
  /\ bet' = [bet EXCEPT ![u] = None]
  /\ UNCHANGED <<store, job, faults>>

-----------------------------------------------------------------------------
(***************************************************************************)
(* The host opens a round: Service.Open.                                   *)
(***************************************************************************)

OpenReadIndex(h) ==
  /\ job[h] = Idle
  /\ \E r \in RoundIDs : status[r] = "none"
  /\ job' = [job EXCEPT ![h] = IF index = None
                               THEN Job("openCreate", None, None, NoWagers)
                               ELSE Job("openCheck", index, None, NoWagers)]
  /\ UNCHANGED <<store, bet, faults>>

\* ErrRoundInProgress unless the indexed round is terminal.
OpenCheckCurrent(h) ==
  /\ job[h].at = "openCheck"
  /\ job' = [job EXCEPT ![h] = IF status[job[h].round] \in Terminal
                               THEN Job("openCreate", None, None, NoWagers)
                               ELSE Idle]
  /\ UNCHANGED <<store, bet, faults>>

\* CreateRound: the round hash, the zeroed pools and the index, in one MULTI.
CreateRound(h, r) ==
  /\ job[h].at = "openCreate"
  /\ status[r] = "none"
  /\ status' = [status EXCEPT ![r] = "open"]
  /\ pools' = [pools EXCEPT ![r] = [o \in Outcomes |-> 0]]
  /\ total' = [total EXCEPT ![r] = 0]
  /\ index' = r
  /\ job' = [job EXCEPT ![h] = Job("openAnnounce", r, None, NoWagers)]
  /\ UNCHANGED <<resolved, expired, wagers, bettors, wallets, opening, idem, outbox,
                 bet, faults>>

\* Broadcast round_opened, then "go s.watch".
StartWatch(h) ==
  /\ job[h].at = "openAnnounce"
  /\ job' = [job EXCEPT ![h] = Idle,
                        ![job[h].round] = Job("armed", job[h].round, None, NoWagers)]
  /\ UNCHANGED <<store, bet, faults>>

-----------------------------------------------------------------------------
(***************************************************************************)
(* The two ways a round ends share their middle: Store.SettleRound and     *)
(* Store.RefundRound both read the status, then the stakes, then run a     *)
(* script that checks the status again.                                    *)
(***************************************************************************)

\* Mutant: the early switch only turns terminal rounds away, so that stakes may
\* be read from an open round.
CheckNotTerminal(x) ==
  /\ job[x].at = "checkLocked"
  /\ IF status[job[x].round] \notin Terminal THEN Goto(x, "readStakes") ELSE Return(x)
  /\ UNCHANGED <<store, bet, faults>>

\* The early status switch: anything but "locked" is an error.
CheckLocked(x) ==
  /\ job[x].at = "checkLocked"
  /\ IF status[job[x].round] = "locked" THEN Goto(x, "readStakes") ELSE Return(x)
  /\ UNCHANGED <<store, bet, faults>>

ReadStakes(x) ==
  /\ job[x].at = "readStakes"
  /\ job' = [job EXCEPT ![x] = Job("apply", @.round, @.win, wagers[@.round])]
  /\ UNCHANGED <<store, bet, faults>>

\* ClearCurrentRound deletes the index, whatever it names by now.
ClearCurrentRound(x) ==
  /\ job[x].at = "clear"
  /\ index' = None
  /\ Return(x)
  /\ UNCHANGED <<status, resolved, expired, pools, total, wagers, bettors, wallets,
                 opening, idem, outbox, bet, faults>>

(***************************************************************************)
(* The host resolves: Service.Resolve, Store.SettleRound.                  *)
(***************************************************************************)

ResolveReadIndex(h, win) ==
  /\ job[h] = Idle
  /\ index # None
  /\ job' = [job EXCEPT ![h] = Job("checkLocked", index, win, NoWagers)]
  /\ UNCHANGED <<store, bet, faults>>

\* What settle_round.lua writes, given the settlement Go computed from stakes w.
Pay(r, w, win) ==
  LET refund == IsRefund(w, win)
  IN  /\ wallets' = HIncrBy(wallets, Credits(w, win))
      /\ status' = [status EXCEPT ![r] = IF refund THEN "refunded" ELSE "resolved"]
      /\ resolved' = [resolved EXCEPT ![r] = IF refund THEN @ ELSE win]
      /\ outbox' = Append(outbox,
           SettlementEvent(IF refund THEN "round_refunded" ELSE "round_settled", r,
                           IF refund THEN None ELSE win,
                           TotalStaked(w), Dust(w, win), Credits(w, win)))
      /\ UNCHANGED <<expired, pools, total, wagers, bettors, index, opening, idem>>

\* Mutant: no second look at the status, the early switch is trusted.
SettleWithoutCheck(r, w, win) == Pay(r, w, win)

\* settle_round.lua: only a locked round is settled.
SettleRoundScript(r, w, win) ==
  /\ status[r] = "locked"
  /\ Pay(r, w, win)

SettleApply(h) ==
  /\ h \in HostConns
  /\ job[h].at = "apply"
  /\ \/ /\ SettleRoundScript(job[h].round, job[h].stakes, job[h].win)
        /\ Goto(h, "clear")
     \/ /\ status[job[h].round] # "locked"
        /\ Return(h)
        /\ UNCHANGED store
  /\ UNCHANGED <<bet, faults>>

-----------------------------------------------------------------------------
(***************************************************************************)
(* The round's own clock: Service.watch, Store.RefundRound.                *)
(***************************************************************************)

\* The lock timer strikes and lock_round.lua runs.
WatchLock(r) ==
  /\ job[r].at = "armed"
  /\ status' = [status EXCEPT ![r] = IF @ = "open" THEN "locked" ELSE @]
  /\ IF status[r] \in Live THEN Goto(r, "grace") ELSE Return(r)
  /\ UNCHANGED <<resolved, expired, pools, total, wagers, bettors, index, wallets,
                 opening, idem, outbox, bet, faults>>

\* Mutant: after the grace period only an open round is worth refunding.
WatchRereadForgetful(r) ==
  /\ job[r].at = "grace"
  /\ IF status[r] # "open" THEN Return(r) ELSE Goto(r, "checkLocked")
  /\ UNCHANGED <<store, bet, faults>>

\* The grace timer strikes: nothing to refund if the host has resolved.
WatchReread(r) ==
  /\ job[r].at = "grace"
  /\ IF status[r] \in Terminal THEN Return(r) ELSE Goto(r, "checkLocked")
  /\ UNCHANGED <<store, bet, faults>>

\* What refund_round.lua writes, given the stakes Go aggregated.
GiveBack(r, w) ==
  /\ wallets' = HIncrBy(wallets, AggregateStakes(w))
  /\ status' = [status EXCEPT ![r] = "refunded"]
  /\ outbox' = Append(outbox,
       SettlementEvent("round_refunded", r, None, TotalStaked(w), 0, AggregateStakes(w)))
  /\ UNCHANGED <<resolved, expired, pools, total, wagers, bettors, index, opening, idem>>

\* Mutant: no second look at the status.
RefundWithoutCheck(r, w) == GiveBack(r, w)

\* refund_round.lua: only a locked round is refunded.
RefundRoundScript(r, w) ==
  /\ status[r] = "locked"
  /\ GiveBack(r, w)

\* Mutant: the refund leaves the index pointing at the round.
RefundKeepingIndex(r) ==
  /\ r \in RoundIDs
  /\ job[r].at = "apply"
  /\ \/ RefundRoundScript(r, job[r].stakes)
     \/ status[r] # "locked" /\ UNCHANGED store
  /\ Return(r)
  /\ UNCHANGED <<bet, faults>>

RefundApply(r) ==
  /\ r \in RoundIDs
  /\ job[r].at = "apply"
  /\ \/ /\ RefundRoundScript(r, job[r].stakes)
        /\ Goto(r, "clear")
     \/ /\ status[r] # "locked"
        /\ Return(r)
        /\ UNCHANGED store
  /\ UNCHANGED <<bet, faults>>

-----------------------------------------------------------------------------
(***************************************************************************)
(* Failures                                                                *)
(***************************************************************************)

\* A Redis call of x errors, before or after it took effect: x returns.
CallFails(x) ==
  /\ job[x] # Idle
  /\ faults < MaxFaults
  /\ faults' = faults + 1
  /\ Return(x)
  /\ UNCHANGED <<store, bet>>

\* The API process dies: every handler and every round's clock is lost.
ApiCrash ==
  /\ faults < MaxFaults
  /\ faults' = faults + 1
  /\ job' = [x \in Goroutines |-> Idle]
  /\ bet' = [u \in Users |-> None]
  /\ UNCHANGED store

-----------------------------------------------------------------------------
\* What a started handler still has to do.
HandlerStep(h) ==
  \/ OpenCheckCurrent(h)
  \/ \E r \in RoundIDs : CreateRound(h, r)
  \/ StartWatch(h)
  \/ CheckLocked(h)
  \/ ReadStakes(h)
  \/ SettleApply(h)
  \/ ClearCurrentRound(h)

WatchStep(r) ==
  \/ WatchLock(r)
  \/ WatchReread(r)
  \/ CheckLocked(r)
  \/ ReadStakes(r)
  \/ RefundApply(r)
  \/ ClearCurrentRound(r)

Player(u) ==
  \/ \E b \in Grants : JoinRoom(u, b)
  \/ WagerPreflight(u)
  \/ \E o \in Outcomes, a \in Amounts, k \in Keys : PlaceWager(u, o, a, k)
  \/ RefuseWager(u)

Next ==
  \/ \E u \in Users : Player(u)
  \/ \E k \in Keys : KeyExpires(k)
  \/ \E r \in RoundIDs : LockInstantPasses(r) \/ WatchStep(r)
  \/ \E h \in HostConns :
       \/ OpenReadIndex(h)
       \/ \E win \in Outcomes : ResolveReadIndex(h, win)
       \/ HandlerStep(h)
  \/ \E x \in Goroutines : CallFails(x)
  \/ ApiCrash

Spec == Init /\ [][Next]_vars

(***************************************************************************)
(* A handler that has started and a watch goroutine that exists keep being *)
(* scheduled, and a timer that was set goes off.  Nobody is obliged to     *)
(* open, resolve, join or bet.                                             *)
(***************************************************************************)
Fairness ==
  /\ \A h \in HostConns : WF_vars(HandlerStep(h))
  /\ \A r \in RoundIDs : WF_vars(WatchStep(r))

FairSpec == Spec /\ Fairness
=============================================================================
