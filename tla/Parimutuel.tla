----------------------------- MODULE Parimutuel -----------------------------
(***************************************************************************)
(* The settlement arithmetic of internal/domain/payout.go and the refund   *)
(* aggregation of internal/redisstore/settle.go, as operators.             *)
(*                                                                         *)
(* A wagers hash round:{roundID}:wagers has one field "{userID}:{outcome}" *)
(* per stake, holding a positive amount.  Here it is a function w from     *)
(* Users \X Outcomes to Nat in which 0 stands for "no such field".         *)
(*                                                                         *)
(* Sums come from Functions (SumFunctionOnSet).  Go keeps them in int64;   *)
(* the amounts involved never come near 2^63, so they are naturals here.   *)
(***************************************************************************)
EXTENDS Integers, FiniteSets, Functions

CONSTANTS Users,     \* every player the round may hold a stake of
          Outcomes   \* the round's outcome indices

\* A hash has finitely many fields.
ASSUME FiniteBoard == IsFiniteSet(Users) /\ IsFiniteSet(Outcomes)

\* One stake is one field of the wagers hash.
Fields == Users \X Outcomes

Wagers == [Fields -> Nat]

NoWagers == [f \in Fields |-> 0]

-----------------------------------------------------------------------------
(***************************************************************************)
(* domain.Settle                                                           *)
(***************************************************************************)

\* The fields HGETALL returns: a field exists once something was added to it.
Stakes(w) == {f \in Fields : w[f] > 0}

StakesOf(w, u) == {f \in Stakes(w) : f[1] = u}

Bettors(w) == {f[1] : f \in Stakes(w)}

TotalStaked(w) == SumFunctionOnSet(w, Stakes(w))

WinningPool(w, win) == SumFunctionOnSet(w, {f \in Stakes(w) : f[2] = win})

\* Nobody backed the winner: every stake goes back in full.
IsRefund(w, win) == WinningPool(w, win) = 0

\* Mutant: rounds up.
WinnerPayoutRoundedUp(stake, total, pool) == (stake * total + pool - 1) \div pool

\* Mutant: multiplies by a truncated quotient, losing the fraction first.
WinnerPayoutDivideFirst(stake, total, pool) == stake * (total \div pool)

\* floor(stake * total / winningPool): Go's integer division truncates.
WinnerPayout(stake, total, pool) == (stake * total) \div pool

\* One credit per settled stake.
Payouts(w, win) ==
  IF IsRefund(w, win)
  THEN [f \in Stakes(w) |-> w[f]]
  ELSE [f \in {g \in Stakes(w) : g[2] = win} |->
          WinnerPayout(w[f], TotalStaked(w), WinningPool(w, win))]

Paid(w, win) == SumFunction(Payouts(w, win))

\* What flooring leaves behind, credited to system_dust by the ledger.
Dust(w, win) == TotalStaked(w) - Paid(w, win)

\* settle_round.lua adds the payouts of a player to one wallet field.
Credits(w, win) ==
  LET p == Payouts(w, win)
  IN  [u \in Users |-> SumFunctionOnSet(p, {f \in DOMAIN p : f[1] = u})]

\* Mutant: rows only for players who are paid, losers left out.
PlayerResultsOfWinners(w, win) ==
  [u \in {f[1] : f \in DOMAIN Payouts(w, win)} |->
     LET staked   == SumFunctionOnSet(w, StakesOf(w, u))
         returned == Credits(w, win)[u]
     IN  [staked |-> staked, returned |-> returned, net |-> returned - staked]]

(***************************************************************************)
(* playerResults: one revealed row per player who staked.                  *)
(***************************************************************************)
PlayerResults(w, win) ==
  [u \in Bettors(w) |->
     LET staked   == SumFunctionOnSet(w, StakesOf(w, u))
         returned == Credits(w, win)[u]
     IN  [staked |-> staked, returned |-> returned, net |-> returned - staked]]

\* Mutant: one stake per player, instead of all of them.
AggregateOneStake(w) ==
  [u \in Users |-> IF StakesOf(w, u) = {} THEN 0 ELSE w[CHOOSE f \in StakesOf(w, u) : TRUE]]

(***************************************************************************)
(* redisstore.aggregateStakes: the refund path sums stakes per player.     *)
(***************************************************************************)
AggregateStakes(w) == [u \in Users |-> SumFunctionOnSet(w, StakesOf(w, u))]
=============================================================================
