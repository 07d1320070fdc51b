------------------------ MODULE RoomPagesProperties ------------------------
(***************************************************************************)
(* What a room page owes the people who look at it.                        *)
(***************************************************************************)
EXTENDS RoomPages

\* A resolve request names no round, and the server settles the current one
\* when it gets to it.  That this is the round the host answered for rests on
\* when the console offers its buttons, on one request at a time, and on the
\* order of the events that tell the page what is running; and so on a host
\* that does not reload and on locks that arrive before RefundGrace is over
\* (HostConsole.tsx, roundState.ts, service.go Resolve).
SettlesWhatTheHostSaw ==
  [][\A r \in RoundIDs :
       status[r] # "resolved" /\ status'[r] = "resolved" => job[Host].shown = r]_vars

\* The page never reads its balance again: it reconstructs it from the one it
\* had at round_opened and the player's net.  Once the page has caught up and
\* every end of a round with the player's stake has been announced, that is
\* the wallet, unless the page missed the order this relies on (roundState.ts
\* round_opened, wager_accepted, round_resolved, round_refunded).
CaughtUp(p) ==
  /\ conn[p] = "greeted" /\ inbox[p] = << >>
  /\ job[p] = NoJob
  /\ ~Unannounced(p)

PageShowsWallet ==
  \A p \in Players : CaughtUp(p) /\ missed[p] = "nothing" => page[p].balance = wallet[p]

\* The odds on a page are those of its own round: it never shows more in the
\* pool than was staked there, whatever comes late from an earlier round
\* (roundState.ts isStale; wager/service.go Place).
OddsAreThisRounds ==
  \A p \in Pages : page[p].round # None => page[p].total <= pool[page[p].round]

\* A round whose end nobody is told of, and which the page takes for running:
\* Resolve and the watch goroutine return when ClearCurrentRound fails.
WaitsInVain(p) == \E r \in unheard : page[p].round \in {r, None}

\* A page that shows a running round learns how it ended: from the host's
\* answer, or from the refund when the host never answers, unless the end is
\* one of those nobody is told of (timer.go watch, service.go Resolve,
\* roundState.ts).
PageLearnsTheEnd ==
  \A p \in Pages : []<>(page[p].phase \notin Live \/ WaitsInVain(p))
=============================================================================
