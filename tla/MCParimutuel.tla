---------------------------- MODULE MCParimutuel ----------------------------
(***************************************************************************)
(* Checks the settlement arithmetic against what it is supposed to         *)
(* achieve, over every wagers hash with stakes up to MaxStake.  The first  *)
(* state picks a hash and a declared winner, the only step settles it.     *)
(***************************************************************************)
EXTENDS Parimutuel

CONSTANT MaxStake   \* bound: largest single stake enumerated

ASSUME MaxStakeAssumption == MaxStake \in Nat \ {0}

VARIABLES board,     \* the wagers hash being settled
          winner,    \* the outcome the host declares
          settled    \* FALSE until the round is settled

vars == <<board, winner, settled>>

Init ==
  /\ board \in [Fields -> 0..MaxStake]
  /\ winner \in Outcomes
  /\ settled = FALSE

Settle ==
  /\ ~settled
  /\ settled' = TRUE
  /\ UNCHANGED <<board, winner>>

\* The settled state is final.
Next == Settle

Spec == Init /\ [][Next]_vars

-----------------------------------------------------------------------------
Sum(f) == SumFunction(f)

NumWinners == Cardinality({f \in Stakes(board) : f[2] = winner})

(***************************************************************************)
(* Flooring strands less than one token per winning stake, never a         *)
(* negative amount, and a refund strands nothing (payout.go 50-54, 93-96). *)
(***************************************************************************)
DustIsOnlyRounding ==
  settled =>
    IF IsRefund(board, winner)
    THEN Dust(board, winner) = 0
    ELSE Dust(board, winner) \in 0..(NumWinners - 1)

(***************************************************************************)
(* Every winning stake is paid the largest whole amount that does not      *)
(* exceed its exact share stake * total / pool, which is never less than   *)
(* the stake itself.                                                       *)
(***************************************************************************)
WinnersGetTheirShare ==
  settled /\ ~IsRefund(board, winner) =>
    \A f \in DOMAIN Payouts(board, winner) :
      LET paid  == Payouts(board, winner)[f]
          pool  == WinningPool(board, winner)
          total == TotalStaked(board)
      IN  /\ paid * pool <= board[f] * total
          /\ (paid + 1) * pool > board[f] * total
          /\ paid >= board[f]

(***************************************************************************)
(* The reveal is zero-sum up to the dust: what the rows say was won and    *)
(* lost adds up to minus the dust, and every row is one player's bettor    *)
(* entry, losers included (payout.go 23-37).                               *)
(***************************************************************************)
RevealIsZeroSum ==
  settled =>
    LET rows == PlayerResults(board, winner)
    IN  /\ Sum([u \in DOMAIN rows |-> rows[u].net]) = -Dust(board, winner)
        /\ Sum([u \in DOMAIN rows |-> rows[u].staked]) = TotalStaked(board)

(***************************************************************************)
(* A round ends refunded on two code paths, a resolve nobody backed        *)
(* (domain.Settle) and the timeout (aggregateStakes).  Both return the     *)
(* same tokens to the same players.                                        *)
(***************************************************************************)
RefundPathsAgree ==
  settled /\ IsRefund(board, winner) =>
    Credits(board, winner) = AggregateStakes(board)
=============================================================================
