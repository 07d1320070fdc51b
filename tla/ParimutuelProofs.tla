--------------------------- MODULE ParimutuelProofs ---------------------------
(***************************************************************************)
(* The settlement arithmetic is right for every wagers hash over any       *)
(* finite sets of players and outcomes, whatever the stakes: MaxStake      *)
(* bounds what TLC enumerates, and no proof looks at it.                   *)
(***************************************************************************)
EXTENDS MCParimutuel, SumProofs

\* All the proofs need to know of a state.
BoardOK == board \in Wagers /\ winner \in Outcomes

\* The board is a wagers hash and the winner one of its outcomes, before and after settling.
LEMMA BoardAlwaysOK == Spec => []BoardOK
<1>1. Init => BoardOK
  BY MaxStakeAssumption DEF Init, BoardOK, Wagers
<1>2. BoardOK /\ [Next]_vars => BoardOK'
  BY DEF BoardOK, Next, Settle, vars
<1>. QED
  BY <1>1, <1>2, PTL DEF Spec

(***************************************************************************)
(* payout.go 50-54 and 93-96: a refund returns every token, and flooring   *)
(* keeps back less than one token per winning stake.                       *)
(***************************************************************************)
THEOREM DustIsOnlyRoundingTheorem == Spec => []DustIsOnlyRounding
<1>1. BoardOK => DustIsOnlyRounding
  BY RefundPaysAll, DustBound DEF BoardOK, DustIsOnlyRounding, NumWinners, WinningStakes
<1>. QED
  BY <1>1, BoardAlwaysOK, PTL

\* A stake is never worth more than the whole pool it is shared with.
LEMMA ShareIsEnough ==
  ASSUME NEW s \in Nat, NEW total \in Nat, NEW pool \in Nat \ {0}, NEW paid \in Nat,
         pool <= total, s * total <= paid * pool + (pool - 1)
  PROVE  paid >= s
<1>. SUFFICES ASSUME paid <= s - 1 PROVE FALSE
  OBVIOUS
<1>1. s * pool <= s * total
  OBVIOUS
<1>2. paid * pool <= (s - 1) * pool
  OBVIOUS
<1>3. (s - 1) * pool = s * pool - pool
  OBVIOUS
<1>4. s * pool \in Int /\ s * total \in Int /\ paid * pool \in Int
  OBVIOUS
<1>. QED
  BY <1>1, <1>2, <1>3, <1>4

(***************************************************************************)
(* WinnerPayout in payout.go: a winning stake gets the largest whole       *)
(* amount within its exact share of the pool, and at least itself back.    *)
(***************************************************************************)
THEOREM WinnersGetTheirShareTheorem == Spec => []WinnersGetTheirShare
<1>1. ASSUME BoardOK, ~IsRefund(board, winner), NEW f \in DOMAIN Payouts(board, winner)
      PROVE  LET paid  == Payouts(board, winner)[f]
                 pool  == WinningPool(board, winner)
                 total == TotalStaked(board)
             IN  /\ paid * pool <= board[f] * total
                 /\ (paid + 1) * pool > board[f] * total
                 /\ paid >= board[f]
  <2>. DEFINE paid  == Payouts(board, winner)[f]
              pool  == WinningPool(board, winner)
              total == TotalStaked(board)
  <2>1. f \in WinningStakes(board, winner) /\ board[f] \in Nat
    BY <1>1, PayoutsNat DEF BoardOK, WinningStakes, Stakes, Wagers
  <2>2. paid = WinnerPayout(board[f], total, pool)
    BY <1>1, <2>1 DEF Payouts, WinningStakes
  <2>3. /\ paid \in Nat
        /\ pool \in Nat \ {0}
        /\ paid * pool <= board[f] * total
        /\ board[f] * total <= paid * pool + (pool - 1)
    BY <1>1, <2>1, <2>2, PayoutShare DEF BoardOK
  <2>4. pool <= total /\ total \in Nat
    BY <1>1, WinningPoolNat, TotalStakedNat DEF BoardOK
  <2>. HIDE DEF paid, pool, total
  <2>5. paid >= board[f]
    BY <2>1, <2>3, <2>4, ShareIsEnough
  <2>6. (paid + 1) * pool = paid * pool + pool /\ paid * pool \in Int /\ board[f] * total \in Int
    BY <2>1, <2>3, <2>4
  <2>. QED
    BY <2>3, <2>5, <2>6 DEF paid, pool, total
<1>2. BoardOK => WinnersGetTheirShare
  BY <1>1 DEF WinnersGetTheirShare
<1>. QED
  BY <1>2, BoardAlwaysOK, PTL

(***************************************************************************)
(* A resolve nobody backed and the timeout's aggregateStakes return the    *)
(* same tokens to the same players.                                        *)
(***************************************************************************)
THEOREM RefundPathsAgreeTheorem == Spec => []RefundPathsAgree
<1>1. ASSUME BoardOK, IsRefund(board, winner)
      PROVE  Credits(board, winner) = AggregateStakes(board)
  <2>. DEFINE P == Payouts(board, winner)
  <2>1. DOMAIN P = Stakes(board) /\ \A f \in Stakes(board) : P[f] = board[f] /\ P[f] \in Int
    BY <1>1 DEF Payouts, BoardOK, Stakes, Wagers
  <2>2. ASSUME NEW u \in Users
        PROVE  SumFunctionOnSet(P, {f \in DOMAIN P : f[1] = u})
                 = SumFunctionOnSet(board, StakesOf(board, u))
    <3>1. {f \in DOMAIN P : f[1] = u} = StakesOf(board, u)
      BY <2>1 DEF StakesOf
    <3>2. IsFiniteSet(StakesOf(board, u)) /\ StakesOf(board, u) \subseteq Stakes(board)
      BY FieldsFinite, FS_Subset DEF StakesOf
    <3>. HIDE DEF P
    <3>. QED
      BY <2>1, <3>1, <3>2, SumEq
  <2>. QED
    BY <2>2 DEF Credits, AggregateStakes
<1>2. BoardOK => RefundPathsAgree
  BY <1>1 DEF RefundPathsAgree
<1>. QED
  BY <1>2, BoardAlwaysOK, PTL

-----------------------------------------------------------------------------
\* The same sums, over the rows of the reveal.
LEMMA RowSums ==
  ASSUME NEW w \in Wagers, NEW win
  PROVE  /\ SumFunctionOnSet(AggregateStakes(w), Bettors(w)) = TotalStaked(w)
         /\ SumFunctionOnSet(Credits(w, win), Bettors(w)) = Paid(w, win)
<1>1. DOMAIN AggregateStakes(w) = Users /\ \A u \in Users : AggregateStakes(w)[u] \in Int
  BY AggregateSums
<1>2. DOMAIN Credits(w, win) = Users /\ \A u \in Users : Credits(w, win)[u] \in Int
  BY CreditsSum
<1>3. SumFunctionOnSet(AggregateStakes(w), Users)
        = SumFunctionOnSet(AggregateStakes(w), Bettors(w))
  BY <1>1, FiniteBoard, OnlyBettorsCount, SumSubset
<1>4. SumFunctionOnSet(Credits(w, win), Users) = SumFunctionOnSet(Credits(w, win), Bettors(w))
  BY <1>2, FiniteBoard, OnlyBettorsCount, SumSubset
<1>5. SumFunctionOnSet(AggregateStakes(w), Users) = TotalStaked(w)
  BY <1>1, AggregateSums, SumDomain
<1>6. SumFunctionOnSet(Credits(w, win), Users) = Paid(w, win)
  BY <1>2, CreditsSum, SumDomain
<1>. QED
  BY <1>3, <1>4, <1>5, <1>6

(***************************************************************************)
(* playerResults in payout.go 23-37: what the rows of the reveal won and   *)
(* lost adds up to minus the dust, and what they staked to the pool.       *)
(***************************************************************************)
THEOREM RevealIsZeroSumTheorem == Spec => []RevealIsZeroSum
<1>1. ASSUME BoardOK
      PROVE  LET rows == PlayerResults(board, winner)
             IN  /\ Sum([u \in DOMAIN rows |-> rows[u].net]) = -Dust(board, winner)
                 /\ Sum([u \in DOMAIN rows |-> rows[u].staked]) = TotalStaked(board)
  <2>. DEFINE rows     == PlayerResults(board, winner)
              B        == Bettors(board)
              staked   == [u \in B |-> rows[u].staked]
              net      == [u \in B |-> rows[u].net]
              stakes   == AggregateStakes(board)
              credits  == Credits(board, winner)
  <2>1. DOMAIN rows = B
    BY DEF PlayerResults
  <2>2. IsFiniteSet(B) /\ B \subseteq Users
    BY <1>1, FiniteBoard, FS_Subset, OnlyBettorsCount DEF BoardOK
  <2>3. \A u \in B : /\ stakes[u] \in Int /\ credits[u] \in Int
                     /\ staked[u] = stakes[u]
                     /\ net[u] = credits[u] - stakes[u]
    <3>1. \A u \in B : stakes[u] \in Int /\ credits[u] \in Int
      BY <1>1, <2>2, AggregateSums, CreditsSum DEF BoardOK
    <3>2. \A u \in B : rows[u].staked = SumFunctionOnSet(board, StakesOf(board, u))
      BY DEF PlayerResults
    <3>3. \A u \in B : rows[u].net = credits[u] - SumFunctionOnSet(board, StakesOf(board, u))
      BY DEF PlayerResults
    <3>4. \A u \in B : stakes[u] = SumFunctionOnSet(board, StakesOf(board, u))
      BY <2>2 DEF AggregateStakes
    <3>. QED
      BY <3>1, <3>2, <3>3, <3>4
  <2>. HIDE DEF rows, staked, net, stakes, credits
  <2>4. SumFunctionOnSet(staked, B) = SumFunctionOnSet(stakes, B)
    BY <2>2, <2>3, SumEq
  <2>5. SumFunctionOnSet(credits, B)
          = SumFunctionOnSet(net, B) + SumFunctionOnSet(stakes, B)
    <3>1. \A u \in B : net[u] \in Int /\ stakes[u] \in Int /\ credits[u] = net[u] + stakes[u]
      BY <2>3
    <3>. QED
      BY <2>2, <3>1, SumPlus
  <2>6. SumFunctionOnSet(net, B) \in Int
    <3>1. \A u \in B : net[u] \in Int
      BY <2>3
    <3>. QED
      BY <2>2, <3>1, SumInt
  <2>7. /\ SumFunctionOnSet(stakes, B) = TotalStaked(board)
        /\ SumFunctionOnSet(credits, B) = Paid(board, winner)
    BY <1>1, RowSums DEF BoardOK, stakes, credits
  <2>8. TotalStaked(board) \in Nat /\ Paid(board, winner) \in Nat
    BY <1>1, TotalStakedNat, PayoutsNat DEF BoardOK
  <2>9. SumFunctionOnSet(net, B) = -Dust(board, winner)
    BY <2>5, <2>6, <2>7, <2>8 DEF Dust
  <2>10. /\ [u \in DOMAIN rows |-> rows[u].net] = net
         /\ [u \in DOMAIN rows |-> rows[u].staked] = staked
         /\ DOMAIN net = B /\ DOMAIN staked = B
    BY <2>1 DEF net, staked
  <2>11. Sum(net) = -Dust(board, winner) /\ Sum(staked) = TotalStaked(board)
    BY <2>4, <2>7, <2>9, <2>10, SumDomain DEF Sum
  <2>. QED
    BY <2>10, <2>11 DEF rows
<1>2. BoardOK => RevealIsZeroSum
  BY <1>1 DEF RevealIsZeroSum
<1>. QED
  BY <1>2, BoardAlwaysOK, PTL
=============================================================================
