------------------------------ MODULE Sessions ------------------------------
(***************************************************************************)
(* One account holder's sessions: joining rooms, sockets that come and go, *)
(* the grace timers that fold a session into the account, and refills.     *)
(* Nothing here is shared between users, so one user stands for each.      *)
(* (Guests are never scheduled and have no account: their wallets stay.)   *)
(*                                                                         *)
(* A step is one Redis command, script or MULTI, or one critical section   *)
(* of the service's mutex.  Rounds appear as far as a session can tell     *)
(* them: a stake leaves the wallet, and the round later pays it nothing,   *)
(* the stake, or more.  A timer may go off at any moment.                  *)
(***************************************************************************)
EXTENDS RateLimit

CONSTANTS
  Rooms,
  Folds,           \* bound: fold goroutines alive at a time
  Claims,          \* bound: refill requests ever made
  InitialBalance,  \* the account at registration
  Cap,             \* StakeCapMultiple times the buy-in of a room
  Amounts,         \* stake sizes tried
  Profits,         \* what a winning stake may earn
  RefillTarget,
  RefillQuota,
  RefillWindow,    \* the rolling period the quota is for
  PromptCalls,     \* TRUE: EndSession's five calls take less than the 30 s grace
  MaxSockets,      \* bound: sockets of the user in one room
  MaxTokens,       \* bound: a wallet grows by winnings only up to it
  MaxSessions,     \* bound: sessions ever begun in a room
  MaxTime,         \* bound: instants of Redis TIME
  MaxFaults        \* bound: failed calls and API crashes

ASSUME SessionsAssumption ==
  /\ None \notin Folds \cup Rooms \cup Nat
  /\ InitialBalance \in Nat
  /\ Cap \in Nat \ {0}
  /\ Amounts \subseteq Nat \ {0}
  /\ Profits \subseteq Nat
  /\ RefillTarget \in Nat
  /\ RefillQuota \in Nat
  /\ RefillWindow \in Nat \ {0}
  /\ PromptCalls \in BOOLEAN
  /\ {MaxSockets, MaxTokens, MaxSessions, MaxTime, MaxFaults} \subseteq Nat

VARIABLES
  \* Redis
  balance,   \* user:{id} balance
  wallet,    \* room:{id}:wallets, the user's field, per room
  opening,   \* room:{id}:opening, the user's field, per room
  stake,     \* the user's stake in the room's current round
  log,       \* ratelimit:refill:{id}, the sliding-window log
  expires,   \* when Redis drops that key
  now,       \* Redis TIME
  \* the API process
  joining,   \* joining[m]: the balance a join request of room m has read
  admitted,  \* rooms the user holds a token for
  sockets,   \* sockets[m]: live connections to room m
  pending,   \* Service.pending: the fold goroutine a room's entry names
  fold,      \* fold[t]: where fold goroutine t is, and its locals
  claim,     \* claim[k]: where refill request k is, the balance it read, when it
             \* was admitted or is told to retry, and who was in its way
  faults,
  \* history, read by no step
  begun,     \* sessions begun in each room
  folded     \* sessions claimed by a fold in each room

session == <<wallet, opening, begun, folded>>

refills == <<log, expires, now>>

store == <<balance, session, stake, refills>>

process == <<joining, admitted, sockets, pending, fold, claim>>

vars == <<store, process, faults>>

Fold(at, m) ==
  [at |-> at, room |-> m, cancelled |-> FALSE, acct |-> None, opening |-> None, current |-> None]

Idle == Fold("idle", None)

Claim(at, seen) == [at |-> at, seen |-> seen, time |-> None, blockers |-> {}]

\* Goroutine t is somewhere inside EndSession.
Ending(t) == fold[t].at \in {"readUser", "readOpening", "readWallet", "claim", "credit"}

Lesser(a, b) == IF a < b THEN a ELSE b

Init ==
  /\ balance = InitialBalance
  /\ wallet = [m \in Rooms |-> None]
  /\ opening = [m \in Rooms |-> None]
  /\ stake = [m \in Rooms |-> 0]
  /\ log = [k \in Claims |-> None]
  /\ expires = None
  /\ now = 0
  /\ joining = [m \in Rooms |-> None]
  /\ admitted = {}
  /\ sockets = [m \in Rooms |-> 0]
  /\ pending = [m \in Rooms |-> None]
  /\ fold = [t \in Folds |-> Idle]
  /\ claim = [k \in Claims |-> Claim("new", None)]
  /\ faults = 0
  /\ begun = [m \in Rooms |-> 0]
  /\ folded = [m \in Rooms |-> 0]

-----------------------------------------------------------------------------
(***************************************************************************)
(* Joining, over REST, and betting                                         *)
(***************************************************************************)

\* The join handler reads the account's balance first.
JoinReadAccount(m) ==
  /\ joining[m] = None
  /\ joining' = [joining EXCEPT ![m] = balance]
  /\ UNCHANGED <<store, admitted, sockets, pending, fold, claim, faults>>

\* AccountSessionBalance, then JoinRoom: HSETNX on both hashes in one MULTI, so
\* that a rejoin keeps what is there.  A grant of nothing is an error.
JoinRoom(m) ==
  /\ joining[m] # None
  /\ begun[m] < MaxSessions
  /\ joining' = [joining EXCEPT ![m] = None]
  /\ LET grant == Lesser(joining[m], Cap)
     IN  IF grant = 0
         THEN UNCHANGED <<session, admitted>>
         ELSE /\ wallet' = [wallet EXCEPT ![m] = IF @ = None THEN grant ELSE @]
              /\ opening' = [opening EXCEPT ![m] = IF @ = None THEN grant ELSE @]
              /\ begun' = [begun EXCEPT ![m] = IF opening[m] = None THEN @ + 1 ELSE @]
              /\ admitted' = admitted \cup {m}
              /\ UNCHANGED folded
  /\ UNCHANGED <<balance, stake, refills, sockets, pending, fold, claim, faults>>

\* place_wager.lua, from a live socket; a cleared wallet is NOT_IN_ROOM.
PlaceWager(m, a) ==
  /\ sockets[m] > 0
  /\ wallet[m] # None
  /\ wallet[m] >= a
  /\ wallet' = [wallet EXCEPT ![m] = @ - a]
  /\ stake' = [stake EXCEPT ![m] = @ + a]
  /\ UNCHANGED <<balance, opening, begun, folded, refills, process, faults>>

\* settle_round.lua and refund_round.lua credit by HINCRBY, which creates a
\* wallet field that is not there.  A losing stake is credited nothing.
RoundPays(m, c) ==
  /\ stake[m] > 0
  /\ c \in {0, stake[m]} \cup {stake[m] + p : p \in Profits}
  /\ stake' = [stake EXCEPT ![m] = 0]
  /\ LET before == IF wallet[m] = None THEN 0 ELSE wallet[m]
     IN  /\ before + c <= MaxTokens
         /\ wallet' = [wallet EXCEPT ![m] = IF c = 0 THEN @ ELSE before + c]
  /\ UNCHANGED <<balance, opening, begun, folded, refills, process, faults>>

-----------------------------------------------------------------------------
(***************************************************************************)
(* Sockets: ws.Handler, ResumeSession, ScheduleEndSession                  *)
(***************************************************************************)

\* The room's entry of the pending map is dropped; its goroutine is told.
CancelPending(m) == [t \in Folds |-> IF t = pending[m] THEN [fold[t] EXCEPT !.cancelled = TRUE]
                                                       ELSE fold[t]]

\* ResumeSession, then hub.Join.
Connect(m) ==
  /\ m \in admitted
  /\ sockets[m] < MaxSockets
  /\ sockets' = [sockets EXCEPT ![m] = @ + 1]
  /\ fold' = CancelPending(m)
  /\ pending' = [pending EXCEPT ![m] = None]
  /\ UNCHANGED <<store, joining, admitted, claim, faults>>

\* The read pump returns: hub Leave, then ScheduleEndSession, which replaces
\* whatever fold was pending.
Disconnect(m, t) ==
  /\ sockets[m] > 0
  /\ fold[t] = Idle
  /\ sockets' = [sockets EXCEPT ![m] = @ - 1]
  /\ fold' = [CancelPending(m) EXCEPT ![t] = Fold("waiting", m)]
  /\ pending' = [pending EXCEPT ![m] = t]
  /\ UNCHANGED <<store, joining, admitted, claim, faults>>

\* select takes the closed done channel.
FoldCancelled(t) ==
  /\ fold[t].at = "waiting"
  /\ fold[t].cancelled
  /\ fold' = [fold EXCEPT ![t] = Idle]
  /\ UNCHANGED <<store, joining, admitted, sockets, pending, claim, faults>>

\* EndSession has returned since the previous grace period ended.
NoFoldUnderWay(m) == \A t \in Folds : fold[t].room = m => ~Ending(t)

\* Mutant: the re-check asks whether an end is pending, not whether it is this one.
FoldFiresIfAnyPending(t) ==
  /\ fold[t].at = "waiting"
  /\ PromptCalls => NoFoldUnderWay(fold[t].room)
  /\ IF pending[fold[t].room] # None
     THEN /\ pending' = [pending EXCEPT ![fold[t].room] = None]
          /\ fold' = [fold EXCEPT ![t].at = "readUser"]
     ELSE /\ fold' = [fold EXCEPT ![t] = Idle]
          /\ UNCHANGED pending
  /\ UNCHANGED <<store, joining, admitted, sockets, claim, faults>>

\* Mutant: the goroutine clears the entry before it looks whose it was.
FoldFiresClearingFirst(t) ==
  /\ fold[t].at = "waiting"
  /\ PromptCalls => NoFoldUnderWay(fold[t].room)
  /\ pending' = [pending EXCEPT ![fold[t].room] = None]
  /\ fold' = [fold EXCEPT ![t] = IF pending[fold[t].room] = t THEN [fold[t] EXCEPT !.at = "readUser"]
                                                             ELSE Idle]
  /\ UNCHANGED <<store, joining, admitted, sockets, claim, faults>>

\* select takes the timer (it may even if done is closed too), and the map is
\* checked under the lock for this very goroutine.
FoldFires(t) ==
  /\ fold[t].at = "waiting"
  /\ PromptCalls => NoFoldUnderWay(fold[t].room)
  /\ IF pending[fold[t].room] = t
     THEN /\ pending' = [pending EXCEPT ![fold[t].room] = None]
          /\ fold' = [fold EXCEPT ![t].at = "readUser"]
     ELSE /\ fold' = [fold EXCEPT ![t] = Idle]
          /\ UNCHANGED pending
  /\ UNCHANGED <<store, joining, admitted, sockets, claim, faults>>

-----------------------------------------------------------------------------
(***************************************************************************)
(* EndSession                                                              *)
(***************************************************************************)

FoldReadUser(t) ==
  /\ fold[t].at = "readUser"
  /\ fold' = [fold EXCEPT ![t].at = "readOpening", ![t].acct = balance]
  /\ UNCHANGED <<store, joining, admitted, sockets, pending, claim, faults>>

\* OpeningStake; with none, the session has ended already.
FoldReadOpening(t) ==
  /\ fold[t].at = "readOpening"
  /\ fold' = [fold EXCEPT ![t] =
                IF opening[fold[t].room] = None THEN Idle
                ELSE [@ EXCEPT !.at = "readWallet", !.opening = opening[fold[t].room]]]
  /\ UNCHANGED <<store, joining, admitted, sockets, pending, claim, faults>>

\* Balance; with none, the session has ended already.
FoldReadWallet(t) ==
  /\ fold[t].at = "readWallet"
  /\ fold' = [fold EXCEPT ![t] =
                IF wallet[fold[t].room] = None THEN Idle
                ELSE [@ EXCEPT !.at = "claim", !.current = wallet[fold[t].room]]]
  /\ UNCHANGED <<store, joining, admitted, sockets, pending, claim, faults>>

\* ClearSession deletes both fields; whoever deleted the opening stake goes on.
Clear(m) ==
  /\ opening' = [opening EXCEPT ![m] = None]
  /\ wallet' = [wallet EXCEPT ![m] = None]

\* Mutant: the reply of ClearSession is ignored.
FoldClaimsRegardless(t) ==
  /\ fold[t].at = "claim"
  /\ Clear(fold[t].room)
  /\ fold' = [fold EXCEPT ![t].at = "credit"]
  /\ folded' = [folded EXCEPT ![fold[t].room] = @ + 1]
  /\ UNCHANGED <<balance, begun, stake, refills, joining, admitted, sockets, pending, claim, faults>>

FoldClaim(t) ==
  /\ fold[t].at = "claim"
  /\ Clear(fold[t].room)
  /\ IF opening[fold[t].room] # None
     THEN /\ fold' = [fold EXCEPT ![t].at = "credit"]
          /\ folded' = [folded EXCEPT ![fold[t].room] = @ + 1]
     ELSE /\ fold' = [fold EXCEPT ![t] = Idle]
          /\ UNCHANGED folded
  /\ UNCHANGED <<balance, begun, stake, refills, joining, admitted, sockets, pending, claim, faults>>

Delta(t) == fold[t].current - fold[t].opening

\* Mutant: no floor.
SessionResultUnfloored(t) == fold[t].acct + Delta(t)

\* ApplySessionResult
SessionResult(t) ==
  LET updated == fold[t].acct + Delta(t)
  IN  IF updated < 0 THEN 0 ELSE updated

\* SetBalance overwrites.
FoldCredit(t) ==
  /\ fold[t].at = "credit"
  /\ balance' = SessionResult(t)
  /\ fold' = [fold EXCEPT ![t] = Idle]
  /\ UNCHANGED <<session, stake, refills, joining, admitted, sockets, pending, claim, faults>>

-----------------------------------------------------------------------------
(***************************************************************************)
(* Refills: ClaimRefill                                                    *)
(***************************************************************************)

Answer(k, at) == claim' = [claim EXCEPT ![k].at = at]

\* User, then CanRefill on what it returned.
ClaimCheck(k) ==
  /\ claim[k].at = "new"
  /\ claim' = [claim EXCEPT ![k] =
                 Claim(IF balance < RefillTarget THEN "allow" ELSE "refused", balance)]
  /\ UNCHANGED <<store, joining, admitted, sockets, pending, fold, faults>>

\* rate_limit.lua: a slot of the window, if one is left, or the time to retry.
ClaimAllow(k) ==
  LET live == Prune(log, now, RefillWindow) IN
  /\ claim[k].at = "allow"
  /\ IF Full(live, RefillQuota)
     THEN /\ log' = live
          /\ claim' = [claim EXCEPT ![k].at = "denied", ![k].blockers = Members(live),
                                    ![k].time = RetryAt(live, now, RefillWindow)]
          /\ UNCHANGED expires
     ELSE /\ log' = Admit(live, k, now)
          /\ expires' = now + RefillWindow
          /\ claim' = [claim EXCEPT ![k].at = "topUp", ![k].time = now]
  /\ UNCHANGED <<balance, session, stake, now, joining, admitted, sockets, pending, fold, faults>>

\* Mutant: HINCRBY of the amount that was missing when the account was read.
TopUpByDelta(k) ==
  /\ claim[k].at = "topUp"
  /\ balance' = balance + (RefillTarget - claim[k].seen)
  /\ Answer(k, "credited")
  /\ UNCHANGED <<session, stake, refills, joining, admitted, sockets, pending, fold, faults>>

\* top_up_balance.lua
TopUp(k) ==
  /\ claim[k].at = "topUp"
  /\ IF balance < RefillTarget
     THEN /\ balance' = RefillTarget
          /\ Answer(k, "credited")
     ELSE /\ Answer(k, "revoke")
          /\ UNCHANGED balance
  /\ UNCHANGED <<session, stake, refills, joining, admitted, sockets, pending, fold, faults>>

\* Mutant: a claim that credited nothing keeps its slot.
KeepSlot(k) ==
  /\ claim[k].at = "revoke"
  /\ claim' = [claim EXCEPT ![k].at = "refused", ![k].time = None]
  /\ UNCHANGED <<store, joining, admitted, sockets, pending, fold, faults>>

\* Nothing was credited: the slot is handed back.
Revoke(k) ==
  /\ claim[k].at = "revoke"
  /\ log' = Remove(log, k)
  /\ claim' = [claim EXCEPT ![k].at = "refused", ![k].time = None]
  /\ UNCHANGED <<balance, session, stake, expires, now, joining, admitted, sockets, pending, fold,
                 faults>>

\* Time passes; PEXPIRE drops the whole key when its time has come.
Tick ==
  /\ now < MaxTime
  /\ now' = now + 1
  /\ IF expires # None /\ expires <= now + 1
     THEN /\ log' = [k \in Claims |-> None]
          /\ expires' = None
     ELSE UNCHANGED <<log, expires>>
  /\ UNCHANGED <<balance, session, stake, process, faults>>

-----------------------------------------------------------------------------
(***************************************************************************)
(* Failures                                                                *)
(***************************************************************************)

UnderWay(k) == claim[k].at \in {"allow", "topUp", "revoke"}

\* A Redis call of a fold or of a refill errors; whoever made it returns.
CallFails ==
  /\ faults < MaxFaults
  /\ faults' = faults + 1
  /\ \/ \E t \in Folds :
          /\ Ending(t)
          /\ fold' = [fold EXCEPT ![t] = Idle]
          /\ UNCHANGED claim
     \/ \E k \in Claims :
          /\ UnderWay(k)
          /\ Answer(k, "failed")
          /\ UNCHANGED fold
  /\ UNCHANGED <<store, joining, admitted, sockets, pending>>

\* The API process dies: its map, timers, sockets and requests are gone.
ApiCrash ==
  /\ faults < MaxFaults
  /\ faults' = faults + 1
  /\ joining' = [m \in Rooms |-> None]
  /\ sockets' = [m \in Rooms |-> 0]
  /\ pending' = [m \in Rooms |-> None]
  /\ fold' = [t \in Folds |-> Idle]
  /\ claim' = [k \in Claims |-> IF UnderWay(k) THEN [claim[k] EXCEPT !.at = "failed"] ELSE claim[k]]
  /\ UNCHANGED <<store, admitted>>

-----------------------------------------------------------------------------
\* What a fold goroutine does once it exists.
FoldStep(t) ==
  \/ FoldCancelled(t)
  \/ FoldFires(t)
  \/ FoldReadUser(t)
  \/ FoldReadOpening(t)
  \/ FoldReadWallet(t)
  \/ FoldClaim(t)
  \/ FoldCredit(t)

Refill(k) == ClaimCheck(k) \/ ClaimAllow(k) \/ TopUp(k) \/ Revoke(k)

Visit(m) ==
  \/ JoinReadAccount(m)
  \/ JoinRoom(m)
  \/ Connect(m)
  \/ \E t \in Folds : Disconnect(m, t)
  \/ \E a \in Amounts : PlaceWager(m, a)
  \/ \E c \in 0..MaxTokens : RoundPays(m, c)

Next ==
  \/ \E m \in Rooms : Visit(m)
  \/ \E t \in Folds : FoldStep(t)
  \/ \E k \in Claims : Refill(k)
  \/ Tick
  \/ CallFails
  \/ ApiCrash

Spec == Init /\ [][Next]_vars

(***************************************************************************)
(* A fold goroutine that exists runs: its timer goes off, Redis answers.   *)
(* Nobody is obliged to join, connect, bet, disconnect or ask for a refill.*)
(***************************************************************************)
FairSpec == Spec /\ \A t \in Folds : WF_vars(FoldStep(t))
=============================================================================
