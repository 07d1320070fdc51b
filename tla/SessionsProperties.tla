------------------------- MODULE SessionsProperties -------------------------
(***************************************************************************)
(* What must be true of Sessions, and what the code's comments claim of it.*)
(***************************************************************************)
EXTENDS Sessions

Tokens == Nat \cup {None}

FoldSteps == {"idle", "waiting", "readUser", "readOpening", "readWallet", "claim", "credit"}

FoldJobs == [at: FoldSteps, room: Rooms \cup {None}, cancelled: BOOLEAN,
             acct: Tokens, opening: Tokens, current: Tokens]

ClaimJobs ==
  [at: {"new", "allow", "topUp", "revoke", "credited", "denied", "refused", "failed"},
   seen: Tokens, time: Tokens, blockers: SUBSET Claims]

\* What a fold goroutine has read by the step it is at.
LocalsOK(f) ==
  /\ f = Idle \/ f.room \in Rooms
  /\ f.at \in {"readOpening", "readWallet", "claim", "credit"} => f.acct # None
  /\ f.at \in {"readWallet", "claim", "credit"} => f.opening # None
  /\ f.at \in {"claim", "credit"} => f.current # None

(***************************************************************************)
(* The type invariant: whatever stakes, folds and refills interleave, no   *)
(* balance, wallet or stake is negative, and a fold has read the numbers   *)
(* it computes with.                                                       *)
(***************************************************************************)
TypeOK ==
  /\ balance \in Nat
  /\ wallet \in [Rooms -> Tokens]
  /\ opening \in [Rooms -> Tokens]
  /\ stake \in [Rooms -> Nat]
  /\ log \in [Claims -> Tokens]
  /\ expires \in Tokens
  /\ now \in Nat
  /\ joining \in [Rooms -> Tokens]
  /\ admitted \subseteq Rooms
  /\ sockets \in [Rooms -> 0..MaxSockets]
  /\ pending \in [Rooms -> Folds \cup {None}]
  /\ fold \in [Folds -> FoldJobs]
  /\ \A t \in Folds : LocalsOK(fold[t])
  /\ claim \in [Claims -> ClaimJobs]
  /\ faults \in 0..MaxFaults
  /\ begun \in [Rooms -> 0..MaxSessions]
  /\ folded \in [Rooms -> 0..MaxSessions]

-----------------------------------------------------------------------------
(***************************************************************************)
(* The pending map names exactly the fold goroutines that were neither     *)
(* replaced nor resumed, and none of those others gets into EndSession     *)
(* (grace.go 59-63), whichever case its select takes.                      *)
(***************************************************************************)
PendingNamesItsFold ==
  /\ \A m \in Rooms, t \in Folds :
       pending[m] = t <=> fold[t].room = m /\ fold[t].at = "waiting" /\ ~fold[t].cancelled
  /\ \A t \in Folds : Ending(t) => ~fold[t].cancelled

(***************************************************************************)
(* Exactly one fold claims a session (room.go ClearSession), even if two   *)
(* are inside EndSession at once: the sessions ever begun in a room are    *)
(* those folded and the live one.                                          *)
(***************************************************************************)
EachSessionFoldedOnce ==
  \A m \in Rooms : begun[m] = folded[m] + (IF opening[m] = None THEN 0 ELSE 1)

(***************************************************************************)
(* A player who disconnects and stays away is folded within finite time,   *)
(* also after any number of replaced and resumed schedules.                *)
(***************************************************************************)
AbandonedSessionEnds ==
  \A m \in Rooms : pending[m] # None ~> opening[m] = None \/ sockets[m] > 0

-----------------------------------------------------------------------------
InState(s) == {k \in Claims : claim[k].at \in s}

(***************************************************************************)
(* Every refill credited within the window holds a slot of the quota, also *)
(* when the key's own expiry races the pruning, and a claim that got       *)
(* nothing holds one only if it failed half-way (rate_limit.lua PEXPIRE;   *)
(* account/service.go ClaimRefill: a doomed request must not permanently   *)
(* cost a slot).                                                           *)
(***************************************************************************)
Recent(k) == claim[k].time # None /\ claim[k].time > now - RefillWindow

Held == Members(Prune(log, now, RefillWindow))

SlotsPayForRefills ==
  LET paying == {k \in InState({"topUp", "revoke", "credited"}) : Recent(k)}
  IN  /\ paying \subseteq Held
      /\ Held \subseteq paying \cup InState({"failed"})

\* The claims admitted and not handed back, and those of the window ending at t.
Admitted == {k \in InState({"topUp", "revoke", "credited", "failed"}) : claim[k].time # None}

Within(t) == {k \in Admitted : claim[k].time \in (t - RefillWindow + 1)..t}

(***************************************************************************)
(* No stretch of time as long as the window admits more claims than the    *)
(* quota, wherever it begins (rate_limit.lua: check-then-record must be    *)
(* atomic, or the limit is advisory); a slot handed back does not count.   *)
(***************************************************************************)
QuotaHolds == \A t \in 0..now : Cardinality(Within(t)) <= RefillQuota

(***************************************************************************)
(* The retry hint is no false hope: when that time has come, at least one  *)
(* of the claims that filled the window has left it (rate_limit.lua        *)
(* retryAfter; QuotaError).                                                *)
(***************************************************************************)
RetryAfterHonest ==
  \A k \in InState({"denied"}) :
    now >= claim[k].time => Cardinality(claim[k].blockers \cap Held) < RefillQuota

(***************************************************************************)
(* Refill claims that all saw the same low balance lift it to the target   *)
(* once, not once each (top_up_balance.lua), and a fold that overwrites a  *)
(* refill does not add to it.  For instances in which nothing is staked,   *)
(* and in which either EndSession's calls are prompt or every session is   *)
(* worth the same: a fold that reads the opening stake of one session and  *)
(* the wallet of the next creates the difference.                          *)
(***************************************************************************)
RefillsNeverStack ==
  balance <= IF InitialBalance < RefillTarget THEN RefillTarget ELSE InitialBalance

-----------------------------------------------------------------------------
(***************************************************************************)
(* What room.go 119-121 says of JoinRoom: "a wallet can never exist        *)
(* without its opening stake".                                             *)
(***************************************************************************)
WalletHasOpening == \A m \in Rooms : wallet[m] # None => opening[m] # None
=============================================================================
