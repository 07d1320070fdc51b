----------------------------- MODULE RoomPages -----------------------------
(***************************************************************************)
(* The room pages of the browser against the server: what the host's and a *)
(* player's page show and offer, driven only by the events of their        *)
(* sockets, while rounds open, take wagers, lock, and are resolved or      *)
(* refunded.                                                               *)
(*                                                                         *)
(* The hub puts every broadcast into every connection's queue in one       *)
(* order; a page works through its own queue at its own pace.  Requests    *)
(* name no round: the server acts on the room's current one when it gets   *)
(* to them.  Rounds.tla has the server in finer steps and the money in     *)
(* detail; here a settlement gives a player some return on the stake,      *)
(* which is all the pages learn of it.                                     *)
(***************************************************************************)
EXTENDS Integers, Sequences, FiniteSets

CONSTANTS None,
          MaxRounds,   \* bound: rounds opened
          Host,        \* the host's page
          Players,     \* the players' pages, one per player
          Grant,       \* balance a player joined with, cached by the browser
          Amounts,     \* stake sizes tried
          PromptPages, \* TRUE: no event or request takes RefundGrace
          Reloaders,   \* bound: pages that may be reloaded
          MaxReloads,  \* bound: reloads
          MaxBehind,   \* bound: events on their way to a page
          MaxBets,     \* bound: wagers asked for
          MaxFaults    \* bound: calls of ClearCurrentRound that fail

RoundIDs == 1..MaxRounds

Pages == {Host} \cup Players

ASSUME RoomPagesAssumption ==
  /\ None \notin Int \cup Pages
  /\ Host \notin Players
  /\ MaxRounds \in Nat
  /\ PromptPages \in BOOLEAN
  /\ Grant \in Nat /\ Amounts \subseteq Nat \ {0}
  /\ Reloaders \subseteq Pages /\ MaxReloads \in Nat
  /\ MaxBehind \in Nat \ {0} /\ MaxBets \in Nat /\ MaxFaults \in Nat

VARIABLES
  \* the room in Redis
  status,     \* status of each round
  index,      \* room:{id}:round
  pool,       \* round:{id}:pools field "total"
  staked,     \* stake of each player in each round
  wallet,     \* session balance of each player
  \* the API process
  net,        \* each player's row of the settlement about to be revealed
  clock,      \* the watch goroutine of each round
  job,        \* the request each connection's ReadPump is handling
  announced,  \* rounds whose end has been broadcast
  unheard,    \* rounds whose end never will be: clearing the index failed
  \* the browsers
  conn,       \* whether a page's socket is away, joined or greeted
  inbox,      \* the events on their way to a page
  page,       \* the RoundState of a page
  reloads,    \* reloads so far
  asked,      \* wagers asked for so far
  missed      \* what a player's page got too late to reckon its balance

room == <<status, index, pool, staked, wallet, net>>
server == <<room, clock, job, announced, unheard>>
browsers == <<conn, inbox, page, missed, reloads, asked>>
vars == <<server, browsers>>

\* initialRoundState: the balance is the one cached when the room was joined.
InitialPage ==
  [phase |-> "idle", round |-> None, total |-> 0, balance |-> Grant,
   atOpen |-> None, known |-> FALSE]

NoJob == [at |-> "idle", shown |-> None, round |-> None, amount |-> 0, said |-> 0,
          lost |-> FALSE]

Event(type, r, n) == [type |-> type, round |-> r, n |-> n]

Init ==
  /\ status = [r \in RoundIDs |-> "none"]
  /\ index = None
  /\ pool = [r \in RoundIDs |-> 0]
  /\ staked = [r \in RoundIDs |-> [p \in Players |-> 0]]
  /\ wallet = [p \in Players |-> Grant]
  /\ net = [p \in Players |-> 0]
  /\ clock = [r \in RoundIDs |-> "off"]
  /\ job = [p \in Pages |-> NoJob]
  /\ announced = {}
  /\ unheard = {}
  /\ conn = [p \in Pages |-> "greeted"]
  /\ inbox = [p \in Pages |-> << >>]
  /\ page = [p \in Pages |-> [InitialPage EXCEPT !.known = TRUE]]
  /\ reloads = 0
  /\ asked = 0
  /\ missed = [p \in Players |-> "nothing"]

Live == {"open", "locked"}

-----------------------------------------------------------------------------
(* Events *)

\* Hub.Broadcast of one event, of which each page has its own row.  Nobody who
\* is away hears it.
Broadcast(rows) ==
  /\ \A p \in Pages : Len(inbox[p]) < MaxBehind
  /\ inbox' = [p \in Pages |-> IF conn[p] = "away" THEN inbox[p]
                               ELSE Append(inbox[p], rows[p])]

ToAll(e) == Broadcast([p \in Pages |-> e])

\* isStale
IsStale(s, e) == s.round # None /\ e.round # s.round

\* reduceRound, event by event.
OnOpened(s, e) ==
  [s EXCEPT !.phase = "open", !.round = e.round, !.total = 0, !.atOpen = s.balance]

\* Mutant: odds of any round are taken over.
OnOddsUnchecked(s, e) == [s EXCEPT !.total = e.n]

OnOdds(s, e) == IF IsStale(s, e) THEN s ELSE [s EXCEPT !.total = e.n]

BalanceAtOpen(s) == IF s.atOpen = None THEN s.balance ELSE s.atOpen

\* Mutant: the net is added to what is shown, stake already gone.
OnResolvedFromShown(s, e) ==
  IF IsStale(s, e) THEN s
  ELSE [s EXCEPT !.phase = "revealed",
                 !.balance = s.balance + (IF s.known THEN e.n ELSE 0)]

OnResolved(s, e) ==
  IF IsStale(s, e) THEN s
  ELSE [s EXCEPT !.phase = "revealed",
                 !.balance = BalanceAtOpen(s) + (IF s.known THEN e.n ELSE 0)]

OnRefunded(s, e) ==
  IF IsStale(s, e) THEN s
  ELSE [s EXCEPT !.phase = "revealed", !.balance = BalanceAtOpen(s)]

ReduceRound(s, e) ==
  CASE e.type = "connected" -> [s EXCEPT !.known = TRUE, !.balance = e.n]
    [] e.type = "round_opened" -> OnOpened(s, e)
    [] e.type = "odds_updated" -> OnOdds(s, e)
    [] e.type = "round_locked" -> IF IsStale(s, e) THEN s ELSE [s EXCEPT !.phase = "locked"]
    [] e.type = "wager_accepted" -> IF IsStale(s, e) THEN s ELSE [s EXCEPT !.balance = e.n]
    [] e.type = "round_resolved" -> OnResolved(s, e)
    [] e.type = "round_refunded" -> OnRefunded(s, e)

PageReceives(p) ==
  /\ inbox[p] # << >>
  /\ page' = [page EXCEPT ![p] = ReduceRound(@, Head(inbox[p]))]
  /\ inbox' = [inbox EXCEPT ![p] = Tail(@)]
  /\ UNCHANGED <<server, conn, missed, reloads, asked>>

-----------------------------------------------------------------------------
(* What a page offers *)

Ask(c, at, amount) ==
  /\ job[c] = NoJob
  /\ job' = [job EXCEPT ![c] = [NoJob EXCEPT !.at = at, !.amount = amount,
                                             !.shown = page[c].round]]
  /\ UNCHANGED <<room, clock, announced, unheard, conn, inbox, page, missed, reloads>>

\* HostConsole: the form is shown when no round is running.
HostAsksOpen ==
  /\ page[Host].known
  /\ page[Host].phase \in {"idle", "revealed"}
  /\ \E r \in RoundIDs : status[r] = "none"
  /\ Ask(Host, "open", 0)
  /\ UNCHANGED asked

\* Mutant: the console offers its buttons from the moment a round is open.
HostAsksResolveEarly ==
  /\ page[Host].known
  /\ page[Host].phase \in Live
  /\ page[Host].round # None
  /\ Ask(Host, "resolve", 0)
  /\ UNCHANGED asked

\* HostConsole: one button per outcome, none if the page missed round_opened.
HostAsksResolve ==
  /\ page[Host].known
  /\ page[Host].phase = "locked"
  /\ page[Host].round # None
  /\ Ask(Host, "resolve", 0)
  /\ UNCHANGED asked

\* WagerPad: enabled while the round is open, for no more than it shows.
PlayerAsksBet(p) ==
  /\ page[p].phase = "open"
  /\ asked < MaxBets
  /\ asked' = asked + 1
  /\ \E a \in Amounts : a <= page[p].balance /\ Ask(p, "bet", a)

-----------------------------------------------------------------------------
(* The host's requests *)

Handling(c, at) == job[c].at = at
Moves(c, at) == job' = [job EXCEPT ![c].at = at]
Done(c) == job' = [job EXCEPT ![c] = NoJob]

\* Service.Open up to CreateRound.
OpenCreates ==
  /\ Handling(Host, "open")
  /\ IF index # None /\ status[index] \in Live
     THEN Done(Host) /\ UNCHANGED room
     ELSE \E r \in RoundIDs :
            /\ status[r] = "none" /\ \A q \in 1..(r - 1) : status[q] # "none"
            /\ status' = [status EXCEPT ![r] = "open"]
            /\ index' = r
            /\ job' = [job EXCEPT ![Host].at = "opening", ![Host].round = r]
            /\ UNCHANGED <<pool, staked, wallet, net>>
  /\ UNCHANGED <<clock, announced, unheard, browsers>>

\* The room hears of the round before its clock starts.
OpenAnnounces ==
  /\ Handling(Host, "opening")
  /\ ToAll(Event("round_opened", job[Host].round, 0))
  /\ clock' = [clock EXCEPT ![job[Host].round] = "waiting"]
  /\ Done(Host)
  /\ UNCHANGED <<room, announced, unheard, conn, page, missed, reloads, asked>>

\* A stake comes back as nothing, itself (no winner) or more.
Returns(s) == IF s = 0 THEN {0} ELSE {0, s, 2 * s}

\* Service.Resolve up to SettleRound, which takes a locked round: the current
\* one, whichever that is by now.
ResolveSettles ==
  /\ Handling(Host, "resolve")
  /\ IF index # None /\ status[index] = "locked"
     THEN LET s == staked[index] IN
          /\ status' = [status EXCEPT ![index] = "resolved"]
          /\ \E back \in [Players -> UNION {Returns(s[p]) : p \in Players}] :
               /\ \A p \in Players : back[p] \in Returns(s[p])
               /\ wallet' = [p \in Players |-> wallet[p] + back[p]]
               /\ net' = [p \in Players |-> back[p] - s[p]]
          /\ job' = [job EXCEPT ![Host].at = "clearing", ![Host].round = index]
          /\ UNCHANGED <<index, pool, staked>>
     ELSE Done(Host) /\ UNCHANGED room
  /\ UNCHANGED <<clock, announced, unheard, browsers>>

\* ClearCurrentRound, whichever round the index names by now.
ResolveClears ==
  /\ Handling(Host, "clearing")
  /\ index' = None
  /\ Moves(Host, "revealing")
  /\ UNCHANGED <<status, pool, staked, wallet, net, clock, announced, unheard, browsers>>

\* A call that fails may have been carried out.  Whoever ends round r gives up
\* here, and the room is not told.
ClearFails(r) ==
  /\ Cardinality(unheard) < MaxFaults
  /\ unheard' = unheard \cup {r}
  /\ index' \in {index, None}
  /\ UNCHANGED <<status, pool, staked, wallet, net, announced, browsers>>

ResolveClearFails ==
  /\ Handling(Host, "clearing")
  /\ ClearFails(job[Host].round)
  /\ Done(Host)
  /\ UNCHANGED clock

\* The room hears of the settlement.
ResolveReveals ==
  LET r == job[Host].round
      rows == [p \in Pages |->
                Event("round_resolved", r, IF p \in Players THEN net[p] ELSE 0)]
  IN /\ Handling(Host, "revealing")
     /\ Broadcast(rows)
     /\ announced' = announced \cup {r}
     /\ net' = [p \in Players |-> 0]
     /\ Done(Host)
     /\ UNCHANGED <<status, index, pool, staked, wallet, clock, unheard>>
     /\ UNCHANGED <<conn, page, missed, reloads, asked>>

-----------------------------------------------------------------------------
(* Wagers *)

\* The preflight and place_wager.lua, whose reply is what the odds and the
\* answer will say.
BetPlaces(p) ==
  LET a == job[p].amount IN
  /\ Handling(p, "bet")
  /\ IF index # None /\ status[index] = "open" /\ wallet[p] >= a
     THEN /\ pool' = [pool EXCEPT ![index] = @ + a]
          /\ wallet' = [wallet EXCEPT ![p] = @ - a]
          /\ staked' = [staked EXCEPT ![index][p] = @ + a]
          /\ job' = [job EXCEPT ![p].at = "quoting", ![p].round = index,
                                ![p].said = pool'[index], ![p].amount = wallet'[p]]
          /\ UNCHANGED <<status, index, net>>
     ELSE Done(p) /\ UNCHANGED room
  /\ UNCHANGED <<clock, announced, unheard, browsers>>

\* odds_updated is broadcast some time after the script ran.
BetQuotes(p) ==
  /\ Handling(p, "quoting")
  /\ ToAll(Event("odds_updated", job[p].round, job[p].said))
  /\ Moves(p, "replying")
  /\ UNCHANGED <<room, clock, announced, unheard, conn, page, missed, reloads, asked>>

\* wager_accepted goes to the connection that asked, if it is still there.
BetReplies(p) ==
  /\ Handling(p, "replying")
  /\ inbox' = IF job[p].lost THEN inbox
              ELSE [inbox EXCEPT ![p] =
                     Append(@, Event("wager_accepted", job[p].round, job[p].amount))]
  /\ missed' = [missed EXCEPT ![p] = IF job[p].round \in announced THEN "answer" ELSE @]
  /\ Done(p)
  /\ UNCHANGED <<room, clock, announced, unheard, conn, page, reloads, asked>>

-----------------------------------------------------------------------------
(* The clock of round r: Service.watch *)

Ticks(r, from, to) == clock[r] = from /\ clock' = [clock EXCEPT ![r] = to]

ClockLocks(r) ==
  /\ IF status[r] = "open"
     THEN Ticks(r, "waiting", "locking") /\ status' = [status EXCEPT ![r] = "locked"]
     ELSE Ticks(r, "waiting", "done") /\ UNCHANGED status
  /\ UNCHANGED <<index, pool, staked, wallet, net, job, announced, unheard, browsers>>

ClockAnnouncesLock(r) ==
  /\ Ticks(r, "locking", "grace")
  /\ ToAll(Event("round_locked", r, 0))
  /\ UNCHANGED <<room, job, announced, unheard, conn, page, missed, reloads, asked>>

\* By the time a refund is due, the pages have dealt with the lock, and what
\* the host asked for while no round was running has been handled.
CaughtUpWith(r) ==
  /\ job[Host].at # "open"
  /\ \A p \in Pages : \A i \in DOMAIN inbox[p] :
       inbox[p][i] # Event("round_locked", r, 0)

\* RefundGrace is over; the check before it is repeated by the script.
ClockRefunds(r) ==
  /\ PromptPages => CaughtUpWith(r)
  /\ IF status[r] = "locked"
     THEN /\ Ticks(r, "grace", "clearing")
          /\ status' = [status EXCEPT ![r] = "refunded"]
          /\ wallet' = [p \in Players |-> wallet[p] + staked[r][p]]
     ELSE Ticks(r, "grace", "done") /\ UNCHANGED <<status, wallet>>
  /\ UNCHANGED <<index, pool, staked, net, job, announced, unheard, browsers>>

ClockClears(r) ==
  /\ Ticks(r, "clearing", "announcing")
  /\ index' = None
  /\ UNCHANGED <<status, pool, staked, wallet, net, job, announced, unheard, browsers>>

ClockClearFails(r) ==
  /\ Ticks(r, "clearing", "done")
  /\ ClearFails(r)
  /\ UNCHANGED job

\* Mutant: a refund tells nobody.
ClockEndsSilently(r) ==
  /\ Ticks(r, "announcing", "done")
  /\ announced' = announced \cup {r}
  /\ UNCHANGED <<room, job, unheard, browsers>>

\* The room hears of the refund.
ClockAnnouncesRefund(r) ==
  /\ Ticks(r, "announcing", "done")
  /\ ToAll(Event("round_refunded", r, 0))
  /\ announced' = announced \cup {r}
  /\ UNCHANGED <<room, job, unheard, conn, page, missed, reloads, asked>>

-----------------------------------------------------------------------------
(* A page is reloaded: its state and what was on its way to it are lost. *)

Reload(p) ==
  /\ p \in Reloaders
  /\ reloads < MaxReloads
  /\ conn[p] = "greeted"
  /\ reloads' = reloads + 1
  /\ conn' = [conn EXCEPT ![p] = "away"]
  /\ inbox' = [inbox EXCEPT ![p] = << >>]
  /\ page' = [page EXCEPT ![p] = InitialPage]
  /\ job' = [job EXCEPT ![p].lost = job[p] # NoJob]
  /\ UNCHANGED <<room, clock, announced, unheard, missed, asked>>

\* Hub.Join makes it a member before its balance is read.
Rejoin(p) ==
  /\ conn[p] = "away"
  /\ conn' = [conn EXCEPT ![p] = "joined"]
  /\ UNCHANGED <<server, inbox, page, missed, reloads, asked>>

\* A stake of p's that the page will yet hear the end of.
Unannounced(p) == \E r \in RoundIDs \ announced : staked[r][p] > 0

MissedOpening(p) ==
  \/ Unannounced(p)
  \/ page[p].round # None
  \/ \E i \in DOMAIN inbox[p] : inbox[p][i].type = "round_opened"

\* The handler reads the wallet and sends the connected event.
Greet(p) ==
  /\ conn[p] = "joined"
  /\ conn' = [conn EXCEPT ![p] = "greeted"]
  /\ LET b == IF p \in Players THEN wallet[p] ELSE Grant IN
       inbox' = [inbox EXCEPT ![p] = Append(@, Event("connected", None, b))]
  /\ missed' = [q \in Players |-> IF q # p THEN missed[q]
                                   ELSE IF MissedOpening(p) THEN "opening" ELSE "nothing"]
  /\ UNCHANGED <<server, page, reloads, asked>>

-----------------------------------------------------------------------------
HostHandler ==
  OpenCreates \/ OpenAnnounces \/ ResolveSettles \/ ResolveClears \/ ResolveReveals

BetHandler(p) == BetPlaces(p) \/ BetQuotes(p) \/ BetReplies(p)

Clock(r) ==
  \/ ClockLocks(r) \/ ClockAnnouncesLock(r) \/ ClockRefunds(r)
  \/ ClockClears(r) \/ ClockAnnouncesRefund(r)

Browser(p) == PageReceives(p) \/ Rejoin(p) \/ Greet(p)

Next ==
  \/ HostAsksOpen \/ HostAsksResolve \/ HostHandler \/ ResolveClearFails
  \/ \E p \in Players : PlayerAsksBet(p) \/ BetHandler(p)
  \/ \E r \in RoundIDs : Clock(r) \/ ClockClearFails(r)
  \/ \E p \in Pages : Browser(p) \/ Reload(p)

\* Handlers, clocks and browsers keep going; nobody owes a click, a reload or a
\* failing call.
Fairness ==
  /\ WF_vars(HostHandler)
  /\ \A p \in Players : WF_vars(BetHandler(p))
  /\ \A r \in RoundIDs : WF_vars(Clock(r))
  /\ \A p \in Pages : WF_vars(Browser(p))

Spec == Init /\ [][Next]_vars

FairSpec == Spec /\ Fairness
=============================================================================
