-------------------------------- MODULE Store --------------------------------
(***************************************************************************)
(* What every model of the room's Redis state shares: the round statuses,  *)
(* the shape of the outbox entries, and the hash increment with which the  *)
(* Lua scripts credit wallets.                                             *)
(***************************************************************************)
EXTENDS Parimutuel, Sequences

CONSTANT None   \* "no such field"

\* domain.RoundStatus, plus "none" for a round nobody has created.
Statuses == {"none", "open", "locked", "resolved", "refunded"}

Terminal == {"resolved", "refunded"}
Live     == {"open", "locked"}

\* domain.validTransitions, plus the creation of an open round.
ValidTransitions ==
  {<<"none", "open">>, <<"open", "locked">>,
   <<"locked", "resolved">>, <<"locked", "refunded">>}

\* The outbox entry place_wager.lua appends.
WagerEvent(u, r, o, a, k) ==
  [type |-> "wager_placed", round |-> r, user |-> u, outcome |-> o,
   amount |-> a, key |-> k]

\* The outbox entry settle_round.lua and refund_round.lua append.
SettlementEvent(type, r, win, total, dust, credits) ==
  [type |-> type, round |-> r, winning |-> win, total |-> total,
   dust |-> dust, credits |-> credits]

IsWager(e)      == e.type = "wager_placed"
IsSettlement(e) == e.type \in {"round_settled", "round_refunded"}

\* Mutant: HSET, the payout replaces the balance.
HSetCredits(hash, credits) ==
  [u \in Users |-> IF credits[u] = 0 THEN hash[u] ELSE credits[u]]

\* HINCRBY of every credit: it creates a missing field, starting from zero.
\* A player with no payout is not touched.
HIncrBy(hash, credits) ==
  [u \in Users |->
     IF credits[u] = 0 THEN hash[u]
     ELSE IF hash[u] = None THEN credits[u] ELSE hash[u] + credits[u]]
=============================================================================
