---------------------------- MODULE AtomicRounds ----------------------------
(***************************************************************************)
(* What a room promises its players about money, with none of the          *)
(* machinery: rounds open, take wagers, lock, and end in one indivisible   *)
(* step that pays out exactly the wagers the round holds at that moment.   *)
(* Every accepted wager and every ended round is one entry of the outbox,  *)
(* and the outbox is the whole history of the room's money.                *)
(*                                                                         *)
(* There is no current-round index, no handler, no timer goroutine, no     *)
(* snapshot of stakes and no idempotency cache here.  Rounds.tla, the      *)
(* model of the code, implements this specification.                       *)
(***************************************************************************)
EXTENDS Store

CONSTANTS Host,      \* the user who controls the room's rounds
          RoundIDs,  \* round identifiers
          Keys,      \* wager idempotency keys
          Amounts,   \* stake sizes a wager may have
          Grants     \* session balances a join may be granted

VARIABLES status,    \* lifecycle state of each round
          wagers,    \* wagers[r]: the stakes round r holds
          wallets,   \* session balance of each user, None before joining
          opening,   \* balance each user joined with, None before joining
          outbox     \* the room's money movements, in order

vars == <<status, wagers, wallets, opening, outbox>>

-----------------------------------------------------------------------------
Init ==
  /\ status = [r \in RoundIDs |-> "none"]
  /\ wagers = [r \in RoundIDs |-> NoWagers]
  /\ wallets = [u \in Users |-> None]
  /\ opening = [u \in Users |-> None]
  /\ outbox = << >>

\* Both fields are set only if missing, so a rejoin changes nothing.
Join(u, b) ==
  /\ wallets' = [wallets EXCEPT ![u] = IF @ = None THEN b ELSE @]
  /\ opening' = [opening EXCEPT ![u] = IF @ = None THEN b ELSE @]
  /\ UNCHANGED <<status, wagers, outbox>>

Open(r) ==
  /\ status[r] = "none"
  /\ status' = [status EXCEPT ![r] = "open"]
  /\ UNCHANGED <<wagers, wallets, opening, outbox>>

\* A round takes a key once.  Another round may take it again.
Bet(u, r, o, a, k) ==
  /\ status[r] = "open"
  /\ u # Host
  /\ wallets[u] # None
  /\ wallets[u] >= a
  /\ \A i \in DOMAIN outbox :
       IsWager(outbox[i]) /\ outbox[i].round = r => outbox[i].key # k
  /\ wallets' = [wallets EXCEPT ![u] = @ - a]
  /\ wagers' = [wagers EXCEPT ![r][<<u, o>>] = @ + a]
  /\ outbox' = Append(outbox, WagerEvent(u, r, o, a, k))
  /\ UNCHANGED <<status, opening>>

Lock(r) ==
  /\ status[r] = "open"
  /\ status' = [status EXCEPT ![r] = "locked"]
  /\ UNCHANGED <<wagers, wallets, opening, outbox>>

\* The host declares win; if nobody backed it the round ends refunded.
Settle(r, win) ==
  /\ status[r] = "locked"
  /\ LET w == wagers[r]
         refund == IsRefund(w, win)
     IN  /\ status' = [status EXCEPT ![r] = IF refund THEN "refunded" ELSE "resolved"]
         /\ wallets' = HIncrBy(wallets, Credits(w, win))
         /\ outbox' = Append(outbox,
              SettlementEvent(IF refund THEN "round_refunded" ELSE "round_settled", r,
                              IF refund THEN None ELSE win,
                              TotalStaked(w), Dust(w, win), Credits(w, win)))
  /\ UNCHANGED <<wagers, opening>>

\* Nobody declared a winner in time.
Refund(r) ==
  /\ status[r] = "locked"
  /\ LET w == wagers[r]
     IN  /\ status' = [status EXCEPT ![r] = "refunded"]
         /\ wallets' = HIncrBy(wallets, AggregateStakes(w))
         /\ outbox' = Append(outbox,
              SettlementEvent("round_refunded", r, None, TotalStaked(w), 0, AggregateStakes(w)))
  /\ UNCHANGED <<wagers, opening>>

Next ==
  \/ \E u \in Users, b \in Grants : Join(u, b)
  \/ \E r \in RoundIDs : Open(r) \/ Lock(r) \/ Refund(r)
  \/ \E r \in RoundIDs, win \in Outcomes : Settle(r, win)
  \/ \E u \in Users, r \in RoundIDs, o \in Outcomes, a \in Amounts, k \in Keys :
       Bet(u, r, o, a, k)

Spec == Init /\ [][Next]_vars
=============================================================================
