-------------------------- MODULE RoomPagesProofs --------------------------
(***************************************************************************)
(* Theorems about RoomPages, for any number of players, rounds, wagers and *)
(* reloads and queues of any length: the odds a page shows are odds its    *)
(* own round has had, whoever reloads; a resolve settles the round the     *)
(* host's page showed, and a page that has read everything shows the       *)
(* wallet, if the host's page is not reloaded and no request or lock is    *)
(* older than the grace of a refund.                                       *)
(***************************************************************************)
EXTENDS RoomPagesProperties, TLAPS

\* The states of the watch goroutine of a round (timer.go watch).
Clocks == {"off", "waiting", "locking", "grace", "clearing", "announcing", "done"}

\* The steps of a request, as the actions name them.
Steps ==
  {"idle", "open", "opening", "resolve", "clearing", "revealing", "bet", "quoting", "replying"}

\* Steps past a script, which know the round it dealt with.
Past == {"opening", "clearing", "revealing", "quoting", "replying"}

\* What a connection's ReadPump can be handling.
Jobs == [at : Steps, shown : RoundIDs \cup {None}, round : RoundIDs \cup {None},
         amount : Nat, said : Nat, lost : BOOLEAN]

\* Every event but connected names its round.
RoundEvents ==
  [type : {"round_opened", "odds_updated", "round_locked", "wager_accepted",
           "round_resolved", "round_refunded"},
   round : RoundIDs, n : Int]

\* What can be on its way to a page.
Events == RoundEvents \cup [type : {"connected"}, round : {None}, n : Int]

\* What a page can hold (roundState.ts RoundState).
PageStates ==
  [phase : {"idle", "open", "locked", "revealed"}, round : RoundIDs \cup {None},
   total : Int, balance : Int, atOpen : Int \cup {None}, known : BOOLEAN]

\* No wallet is ever negative, and nobody is at a step without what it needs.
TypeOK ==
  /\ status \in [RoundIDs -> {"none", "open", "locked", "resolved", "refunded"}]
  /\ index \in RoundIDs \cup {None}
  /\ pool \in [RoundIDs -> Nat]
  /\ staked \in [RoundIDs -> [Players -> Nat]]
  /\ wallet \in [Players -> Nat]
  /\ net \in [Players -> Int]
  /\ clock \in [RoundIDs -> Clocks]
  /\ job \in [Pages -> Jobs]
  /\ \A c \in Pages : job[c].at \in Past => job[c].round \in RoundIDs
  /\ announced \subseteq RoundIDs /\ unheard \subseteq RoundIDs
  /\ conn \in [Pages -> {"away", "joined", "greeted"}]
  /\ inbox \in [Pages -> Seq(Events)]
  /\ page \in [Pages -> PageStates]
  /\ reloads \in Nat /\ asked \in Nat
  /\ missed \in [Players -> {"nothing", "opening", "answer"}]

USE RoomPagesAssumption

-----------------------------------------------------------------------------
(***************************************************************************)
(* Events, queues and pages.                                               *)
(***************************************************************************)

\* What the model puts together is an event.
LEMMA EventTypes ==
  /\ \A type \in {"round_opened", "odds_updated", "round_locked", "wager_accepted",
                  "round_resolved", "round_refunded"}, r \in RoundIDs, n \in Int :
       /\ Event(type, r, n) \in Events
       /\ Event(type, r, n).type = type
       /\ Event(type, r, n).round = r
       /\ Event(type, r, n).n = n
  /\ \A n \in Int : /\ Event("connected", None, n) \in Events
                    /\ Event("connected", None, n).type = "connected"
                    /\ Event("connected", None, n).n = n
BY DEF Event, Events, RoundEvents

\* A queue and what Append and Tail make of it.
LEMMA QueueAppend ==
  ASSUME NEW s \in Seq(Events), NEW e \in Events
  PROVE  /\ Append(s, e) \in Seq(Events)
         /\ Len(s) \in Nat
         /\ DOMAIN s = 1..Len(s)
         /\ DOMAIN Append(s, e) = 1..(Len(s) + 1)
         /\ \A i \in 1..Len(s) : Append(s, e)[i] = s[i]
         /\ Append(s, e)[Len(s) + 1] = e
OBVIOUS

\* The same for a queue that loses its first event.
LEMMA QueueTail ==
  ASSUME NEW s \in Seq(Events), s # << >>
  PROVE  /\ Tail(s) \in Seq(Events)
         /\ Len(s) \in Nat \ {0}
         /\ DOMAIN s = 1..Len(s)
         /\ DOMAIN Tail(s) = 1..(Len(s) - 1)
         /\ \A i \in 1..(Len(s) - 1) : Tail(s)[i] = s[i + 1]
         /\ Head(s) = s[1] /\ Head(s) \in Events
OBVIOUS

\* reduceRound gives a page; how its phase, its round and its total change.
LEMMA Reduced ==
  ASSUME NEW s \in PageStates, NEW e \in Events
  PROVE  /\ ReduceRound(s, e) \in PageStates
         /\ e.type = "round_opened" =>
              /\ ReduceRound(s, e).phase = "open" /\ ReduceRound(s, e).round = e.round
              /\ ReduceRound(s, e).total = 0
         /\ e.type # "round_opened" => ReduceRound(s, e).round = s.round
         /\ e.type \notin {"round_opened", "odds_updated"} => ReduceRound(s, e).total = s.total
         /\ e.type = "odds_updated" =>
              /\ ReduceRound(s, e).phase = s.phase
              /\ \/ ReduceRound(s, e).total = s.total
                 \/ ReduceRound(s, e).total = e.n /\ (s.round = None \/ s.round = e.round)
         /\ e.type \in {"connected", "wager_accepted"} => ReduceRound(s, e).phase = s.phase
         /\ e.type = "round_locked" /\ s.round = e.round => ReduceRound(s, e).phase = "locked"
         /\ e.type \in {"round_resolved", "round_refunded"} /\ s.round = e.round =>
              ReduceRound(s, e).phase = "revealed"
<1>. USE DEF PageStates
<1>0. /\ e.n \in Int
      /\ e.type # "connected" => e.round \in RoundIDs
      /\ e.type \in {"connected", "round_opened", "odds_updated", "round_locked",
                     "wager_accepted", "round_resolved", "round_refunded"}
  BY DEF Events, RoundEvents
<1>1. CASE e.type = "connected"
  BY <1>0, <1>1 DEF ReduceRound
<1>2. CASE e.type = "round_opened"
  <2>1. ReduceRound(s, e) = [s EXCEPT !.phase = "open", !.round = e.round, !.total = 0,
                                      !.atOpen = s.balance]
    BY <1>2 DEF ReduceRound, OnOpened
  <2>2. ReduceRound(s, e) = [phase |-> "open", round |-> e.round, total |-> 0,
                             balance |-> s.balance, atOpen |-> s.balance, known |-> s.known]
    BY <2>1
  <2>3. e.round \in RoundIDs /\ s.balance \in Int /\ s.known \in BOOLEAN
    BY <1>0, <1>2
  <2>4. ReduceRound(s, e) \in PageStates
    BY <2>2, <2>3
  <2>. QED
    BY <1>2, <2>2, <2>4
<1>3. CASE e.type = "odds_updated"
  BY <1>0, <1>3 DEF ReduceRound, OnOdds, IsStale
<1>4. CASE e.type = "round_locked"
  BY <1>0, <1>4 DEF ReduceRound, IsStale
<1>5. CASE e.type = "wager_accepted"
  BY <1>0, <1>5 DEF ReduceRound
<1>6. CASE e.type = "round_resolved"
  <2>. DEFINE b == BalanceAtOpen(s) + (IF s.known THEN e.n ELSE 0)
  <2>1. BalanceAtOpen(s) \in Int
    BY DEF BalanceAtOpen
  <2>2. b \in Int
    BY <1>0, <2>1
  <2>3. ReduceRound(s, e) = IF IsStale(s, e) THEN s ELSE [s EXCEPT !.phase = "revealed", !.balance = b]
    BY <1>6 DEF ReduceRound, OnResolved
  <2>. HIDE DEF b
  <2>4. /\ ReduceRound(s, e) \in PageStates
        /\ ReduceRound(s, e).round = s.round /\ ReduceRound(s, e).total = s.total
    BY <2>2, <2>3
  <2>5. s.round = e.round => ReduceRound(s, e).phase = "revealed"
    BY <2>3 DEF IsStale
  <2>. QED
    BY <1>6, <2>4, <2>5
<1>7. CASE e.type = "round_refunded"
  <2>1. BalanceAtOpen(s) \in Int
    BY DEF BalanceAtOpen
  <2>2. ReduceRound(s, e) = IF IsStale(s, e) THEN s
                            ELSE [s EXCEPT !.phase = "revealed", !.balance = BalanceAtOpen(s)]
    BY <1>7 DEF ReduceRound, OnRefunded
  <2>3. /\ ReduceRound(s, e) \in PageStates
        /\ ReduceRound(s, e).round = s.round /\ ReduceRound(s, e).total = s.total
    BY <2>1, <2>2
  <2>4. s.round = e.round => ReduceRound(s, e).phase = "revealed"
    BY <2>2 DEF IsStale
  <2>. QED
    BY <1>7, <2>3, <2>4
<1>. QED
  BY <1>0, <1>1, <1>2, <1>3, <1>4, <1>5, <1>6, <1>7

\* A broadcast puts each page's row at the end of its queue, unless it is away.
LEMMA BroadcastType ==
  ASSUME TypeOK, NEW rows \in [Pages -> Events], Broadcast(rows)
  PROVE  /\ inbox' \in [Pages -> Seq(Events)]
         /\ \A p \in Pages : inbox'[p] \in {inbox[p], Append(inbox[p], rows[p])}
         /\ \A p \in Pages : conn[p] # "away" => inbox'[p] = Append(inbox[p], rows[p])
<1>1. \A p \in Pages : inbox[p] \in Seq(Events) /\ rows[p] \in Events
  BY DEF TypeOK
<1>2. \A p \in Pages : Append(inbox[p], rows[p]) \in Seq(Events)
  BY <1>1, QueueAppend
<1>. QED
  BY <1>1, <1>2 DEF Broadcast

\* The same when the rows are one event.
LEMMA ToAllType ==
  ASSUME TypeOK, NEW e \in Events, ToAll(e)
  PROVE  /\ inbox' \in [Pages -> Seq(Events)]
         /\ \A p \in Pages : inbox'[p] \in {inbox[p], Append(inbox[p], e)}
         /\ \A p \in Pages : conn[p] # "away" => inbox'[p] = Append(inbox[p], e)
<1>. DEFINE rows == [p \in Pages |-> e]
<1>1. rows \in [Pages -> Events] /\ Broadcast(rows) /\ \A p \in Pages : rows[p] = e
  BY DEF ToAll
<1>. HIDE DEF rows
<1>. QED
  BY <1>1, BroadcastType

-----------------------------------------------------------------------------
(***************************************************************************)
(* Type correctness.                                                       *)
(***************************************************************************)
\* A connection that handles nothing, and a page nobody has looked at yet.
LEMMA NoJobType == NoJob \in Jobs /\ NoJob.at = "idle" /\ NoJob.at \notin Past
BY DEF NoJob, Jobs, Steps, Past

\* The page as it is loaded, and as it is in Init.
LEMMA InitialPageType ==
  /\ InitialPage \in PageStates
  /\ [InitialPage EXCEPT !.known = TRUE] \in PageStates
<1>1. Grant \in Int
  OBVIOUS
<1>2. InitialPage \in PageStates
  BY <1>1 DEF InitialPage, PageStates
<1>3. \A s \in PageStates : [s EXCEPT !.known = TRUE] \in PageStates
  BY DEF PageStates
<1>. QED
  BY <1>2, <1>3

\* The initial states have their types.
LEMMA InitType == Init => TypeOK
<1>. SUFFICES ASSUME Init  PROVE TypeOK
  OBVIOUS
<1>1. InitialPage \in PageStates /\ [InitialPage EXCEPT !.known = TRUE] \in PageStates
  BY InitialPageType
<1>2. << >> \in Seq(Events)
  OBVIOUS
<1>. QED
  BY <1>1, <1>2, NoJobType DEF Init, TypeOK, Clocks

\* A connection moves on to a job that knows its round if it must.
LEMMA JobType ==
  ASSUME TypeOK, NEW c \in Pages, NEW j \in Jobs, j.at \in Past => j.round \in RoundIDs,
         job' = [job EXCEPT ![c] = j]
  PROVE  job' \in [Pages -> Jobs] /\ \A d \in Pages : job'[d].at \in Past => job'[d].round \in RoundIDs
BY DEF TypeOK

\* A request that is over.
LEMMA DoneType ==
  ASSUME TypeOK, NEW c \in Pages, Done(c)
  PROVE  job' \in [Pages -> Jobs] /\ \A d \in Pages : job'[d].at \in Past => job'[d].round \in RoundIDs
BY JobType, NoJobType DEF Done

\* A request that starts.
LEMMA AskType ==
  ASSUME TypeOK, NEW c \in Pages, NEW at \in {"open", "resolve", "bet"}, NEW a \in Nat, Ask(c, at, a),
         asked' \in Nat
  PROVE  TypeOK'
<1>. DEFINE j == [NoJob EXCEPT !.at = at, !.amount = a, !.shown = page[c].round]
<1>1. page[c].round \in RoundIDs \cup {None}
  BY DEF TypeOK, PageStates
<1>2. j \in Jobs /\ j.at \notin Past
  BY <1>1 DEF NoJob, Jobs, Steps, Past
<1>3. job' = [job EXCEPT ![c] = j]
  BY DEF Ask
<1>. HIDE DEF j
<1>4. job' \in [Pages -> Jobs] /\ \A d \in Pages : job'[d].at \in Past => job'[d].round \in RoundIDs
  BY <1>2, <1>3, JobType
<1>. QED
  BY <1>4 DEF Ask, room, TypeOK

\* The host's handler.
LEMMA HostType ==
  ASSUME TypeOK, HostAsksOpen \/ HostAsksResolve \/ HostHandler \/ ResolveClearFails
  PROVE  TypeOK'
<1>. USE DEF room, server, browsers
<1>0. Host \in Pages /\ job[Host] \in Jobs
  BY DEF Pages, TypeOK
<1>1. CASE HostAsksOpen
  BY <1>0, <1>1, AskType DEF HostAsksOpen, TypeOK
<1>2. CASE HostAsksResolve
  BY <1>0, <1>2, AskType DEF HostAsksResolve, TypeOK
<1>3. CASE OpenCreates
  <2>1. CASE Done(Host) /\ UNCHANGED room
    BY <1>0, <1>3, <2>1, DoneType DEF OpenCreates, TypeOK
  <2>2. CASE ~(Done(Host) /\ UNCHANGED room)
    <3>1. PICK r \in RoundIDs :
            /\ status' = [status EXCEPT ![r] = "open"]
            /\ index' = r
            /\ job' = [job EXCEPT ![Host].at = "opening", ![Host].round = r]
            /\ UNCHANGED <<pool, staked, wallet, net>>
      BY <1>3, <2>2 DEF OpenCreates
    <3>. DEFINE j == [job[Host] EXCEPT !.at = "opening", !.round = r]
    <3>2. j \in Jobs /\ j.round = r
      BY <1>0 DEF Jobs, Steps
    <3>3. job' = [job EXCEPT ![Host] = j]
      BY <1>0, <3>1 DEF TypeOK
    <3>. HIDE DEF j
    <3>4. job' \in [Pages -> Jobs] /\ \A d \in Pages : job'[d].at \in Past => job'[d].round \in RoundIDs
      BY <1>0, <3>2, <3>3, JobType
    <3>. QED
      BY <1>3, <3>1, <3>4 DEF OpenCreates, TypeOK
  <2>. QED
    BY <2>1, <2>2
<1>4. CASE OpenAnnounces
  <2>. DEFINE e == Event("round_opened", job[Host].round, 0)
  <2>1. job[Host].round \in RoundIDs
    BY <1>0, <1>4 DEF OpenAnnounces, Handling, TypeOK, Past
  <2>2. e \in Events
    BY <2>1, EventTypes
  <2>3. ToAll(e)
    BY <1>4 DEF OpenAnnounces
  <2>. HIDE DEF e
  <2>4. inbox' \in [Pages -> Seq(Events)]
    BY <2>2, <2>3, ToAllType
  <2>. QED
    BY <1>0, <1>4, <2>4, DoneType DEF OpenAnnounces, TypeOK, Clocks
<1>5. CASE ResolveSettles
  <2>1. CASE Done(Host) /\ UNCHANGED room
    BY <1>0, <1>5, <2>1, DoneType DEF ResolveSettles, TypeOK
  <2>2. CASE ~(Done(Host) /\ UNCHANGED room)
    <3>1. /\ index # None
          /\ status' = [status EXCEPT ![index] = "resolved"]
          /\ \E back \in [Players -> UNION {Returns(staked[index][p]) : p \in Players}] :
               /\ \A p \in Players : back[p] \in Returns(staked[index][p])
               /\ wallet' = [p \in Players |-> wallet[p] + back[p]]
               /\ net' = [p \in Players |-> back[p] - staked[index][p]]
          /\ job' = [job EXCEPT ![Host].at = "clearing", ![Host].round = index]
          /\ UNCHANGED <<index, pool, staked>>
      BY <1>5, <2>2 DEF ResolveSettles
    <3>2. PICK back : /\ \A p \in Players : back[p] \in Returns(staked[index][p])
                      /\ wallet' = [p \in Players |-> wallet[p] + back[p]]
                      /\ net' = [p \in Players |-> back[p] - staked[index][p]]
      BY <3>1
    <3>3. \A p \in Players : staked[index][p] \in Nat /\ wallet[p] \in Nat
      BY <3>1 DEF TypeOK
    <3>4. ASSUME NEW p \in Players  PROVE back[p] \in Nat
      <4>1. back[p] \in Returns(staked[index][p]) /\ staked[index][p] \in Nat
        BY <3>2, <3>3
      <4>2. \A s \in Nat : Returns(s) \subseteq Nat
        BY DEF Returns
      <4>. QED
        BY <4>1, <4>2
    <3>5. wallet' \in [Players -> Nat] /\ net' \in [Players -> Int]
      BY <3>2, <3>3, <3>4
    <3>. DEFINE j == [job[Host] EXCEPT !.at = "clearing", !.round = index]
    <3>6. j \in Jobs /\ j.round \in RoundIDs
      BY <1>0, <3>1 DEF Jobs, Steps, TypeOK
    <3>7. job' = [job EXCEPT ![Host] = j]
      BY <1>0, <3>1 DEF TypeOK
    <3>. HIDE DEF j
    <3>8. job' \in [Pages -> Jobs] /\ \A d \in Pages : job'[d].at \in Past => job'[d].round \in RoundIDs
      BY <1>0, <3>6, <3>7, JobType
    <3>9. status' \in [RoundIDs -> {"none", "open", "locked", "resolved", "refunded"}]
      BY <3>1 DEF TypeOK
    <3>. QED
      BY <1>5, <3>1, <3>5, <3>8, <3>9 DEF ResolveSettles, TypeOK
  <2>. QED
    BY <2>1, <2>2
<1>6. CASE ResolveReveals
  <2>. DEFINE rows == [p \in Pages |-> Event("round_resolved", job[Host].round,
                                             IF p \in Players THEN net[p] ELSE 0)]
  <2>1. job[Host].round \in RoundIDs
    BY <1>0, <1>6 DEF ResolveReveals, Handling, TypeOK, Past
  <2>2. rows \in [Pages -> Events]
    <3>1. ASSUME NEW p \in Pages
          PROVE  (IF p \in Players THEN net[p] ELSE 0) \in Int
      BY DEF TypeOK
    <3>. QED
      BY <2>1, <3>1, EventTypes
  <2>3. Broadcast(rows)
    BY <1>6 DEF ResolveReveals
  <2>. HIDE DEF rows
  <2>4. inbox' \in [Pages -> Seq(Events)]
    BY <2>2, <2>3, BroadcastType
  <2>. QED
    BY <1>0, <1>6, <2>1, <2>4, DoneType DEF ResolveReveals, TypeOK
<1>7. CASE ResolveClears
  <2>. DEFINE j == [job[Host] EXCEPT !.at = "revealing"]
  <2>1. job[Host].round \in RoundIDs
    BY <1>0, <1>7 DEF ResolveClears, Handling, TypeOK, Past
  <2>2. j \in Jobs /\ j.round \in RoundIDs
    BY <1>0, <2>1 DEF Jobs, Steps
  <2>3. job' = [job EXCEPT ![Host] = j]
    BY <1>0, <1>7 DEF ResolveClears, Moves, TypeOK
  <2>. HIDE DEF j
  <2>4. job' \in [Pages -> Jobs] /\ \A d \in Pages : job'[d].at \in Past => job'[d].round \in RoundIDs
    BY <1>0, <2>2, <2>3, JobType
  <2>. QED
    BY <1>7, <2>4 DEF ResolveClears, TypeOK
<1>8. CASE ResolveClearFails
  <2>1. job[Host].round \in RoundIDs
    BY <1>0, <1>8 DEF ResolveClearFails, Handling, TypeOK, Past
  <2>2. index' \in RoundIDs \cup {None} /\ unheard' \subseteq RoundIDs
    BY <1>8, <2>1 DEF ResolveClearFails, ClearFails, TypeOK
  <2>. QED
    BY <1>0, <1>8, <2>2, DoneType DEF ResolveClearFails, ClearFails, TypeOK
<1>. QED
  BY <1>1, <1>2, <1>3, <1>4, <1>5, <1>6, <1>7, <1>8 DEF HostHandler

\* Wagers.
LEMMA BetType ==
  ASSUME TypeOK, NEW p \in Players, PlayerAsksBet(p) \/ BetHandler(p)
  PROVE  TypeOK'
<1>. USE DEF room, server, browsers
<1>0. p \in Pages /\ job[p] \in Jobs
  BY DEF Pages, TypeOK
<1>1. CASE PlayerAsksBet(p)
  <2>1. PICK a \in Amounts : Ask(p, "bet", a)
    BY <1>1 DEF PlayerAsksBet
  <2>2. asked' \in Nat
    BY <1>1 DEF PlayerAsksBet, TypeOK
  <2>. QED
    BY <1>0, <2>1, <2>2, AskType
<1>2. CASE BetPlaces(p)
  <2>1. CASE Done(p) /\ UNCHANGED room
    BY <1>0, <1>2, <2>1, DoneType DEF BetPlaces, TypeOK
  <2>2. CASE ~(Done(p) /\ UNCHANGED room)
    <3>. DEFINE a == job[p].amount
                j == [job[p] EXCEPT !.at = "quoting", !.round = index, !.said = pool'[index],
                                    !.amount = wallet'[p]]
    <3>1. /\ index # None /\ wallet[p] >= a
          /\ pool' = [pool EXCEPT ![index] = @ + a]
          /\ wallet' = [wallet EXCEPT ![p] = @ - a]
          /\ staked' = [staked EXCEPT ![index][p] = @ + a]
          /\ job' = [job EXCEPT ![p].at = "quoting", ![p].round = index,
                                ![p].said = pool'[index], ![p].amount = wallet'[p]]
          /\ UNCHANGED <<status, index, net>>
      BY <1>2, <2>2 DEF BetPlaces
    <3>2. index \in RoundIDs /\ a \in Nat
      BY <1>0, <3>1 DEF TypeOK, Jobs
    <3>. HIDE DEF a
    <3>0. pool \in [RoundIDs -> Nat] /\ wallet \in [Players -> Nat]
          /\ staked \in [RoundIDs -> [Players -> Nat]]
      BY DEF TypeOK
    <3>3. pool' \in [RoundIDs -> Nat] /\ pool'[index] \in Nat
      <4>1. pool[index] + a \in Nat
        BY <3>2, <3>0
      <4>2. pool' = [pool EXCEPT ![index] = pool[index] + a]
        BY <3>1
      <4>. QED
        BY <3>2, <3>0, <4>1, <4>2
    <3>4. wallet' \in [Players -> Nat] /\ wallet'[p] \in Nat
      <4>1. wallet[p] - a \in Nat
        BY <3>1, <3>2, <3>0
      <4>2. wallet' = [wallet EXCEPT ![p] = wallet[p] - a]
        BY <3>1
      <4>. QED
        BY <3>0, <4>1, <4>2
    <3>5. staked' \in [RoundIDs -> [Players -> Nat]]
      <4>1. staked[index] \in [Players -> Nat] /\ staked[index][p] + a \in Nat
        BY <3>2, <3>0
      <4>2. [staked[index] EXCEPT ![p] = staked[index][p] + a] \in [Players -> Nat]
        BY <4>1
      <4>3. staked' = [staked EXCEPT ![index] = [staked[index] EXCEPT ![p] = staked[index][p] + a]]
        BY <3>1
      <4>. QED
        BY <3>2, <3>0, <4>2, <4>3
    <3>6. j \in Jobs /\ j.round \in RoundIDs
      BY <1>0, <3>2, <3>3, <3>4 DEF Jobs, Steps
    <3>7. job' = [job EXCEPT ![p] = j]
      BY <1>0, <3>1 DEF TypeOK
    <3>. HIDE DEF j
    <3>8. job' \in [Pages -> Jobs] /\ \A d \in Pages : job'[d].at \in Past => job'[d].round \in RoundIDs
      BY <1>0, <3>6, <3>7, JobType
    <3>. QED
      BY <1>2, <3>1, <3>3, <3>4, <3>5, <3>8 DEF BetPlaces, TypeOK
  <2>. QED
    BY <2>1, <2>2
<1>3. CASE BetQuotes(p)
  <2>. DEFINE e == Event("odds_updated", job[p].round, job[p].said)
              j == [job[p] EXCEPT !.at = "replying"]
  <2>1. job[p].round \in RoundIDs /\ job[p].said \in Int
    <3>1. job[p].at = "quoting" /\ job[p].said \in Nat
      BY <1>0, <1>3 DEF BetQuotes, Handling, Jobs
    <3>. QED
      BY <1>0, <3>1 DEF TypeOK, Past
  <2>2. e \in Events
    BY <2>1, EventTypes
  <2>3. ToAll(e)
    BY <1>3 DEF BetQuotes
  <2>4. j \in Jobs /\ j.round \in RoundIDs
    BY <1>0, <2>1 DEF Jobs, Steps
  <2>5. job' = [job EXCEPT ![p] = j]
    BY <1>0, <1>3 DEF BetQuotes, Moves, TypeOK
  <2>. HIDE DEF e, j
  <2>6. inbox' \in [Pages -> Seq(Events)]
    BY <2>2, <2>3, ToAllType
  <2>7. job' \in [Pages -> Jobs] /\ \A d \in Pages : job'[d].at \in Past => job'[d].round \in RoundIDs
    BY <1>0, <2>4, <2>5, JobType
  <2>. QED
    BY <1>3, <2>6, <2>7 DEF BetQuotes, TypeOK
<1>4. CASE BetReplies(p)
  <2>. DEFINE e == Event("wager_accepted", job[p].round, job[p].amount)
  <2>1. job[p].round \in RoundIDs /\ job[p].amount \in Int
    <3>1. job[p].at = "replying" /\ job[p].amount \in Nat
      BY <1>0, <1>4 DEF BetReplies, Handling, Jobs
    <3>. QED
      BY <1>0, <3>1 DEF TypeOK, Past
  <2>2. e \in Events /\ inbox[p] \in Seq(Events)
    BY <1>0, <2>1, EventTypes DEF TypeOK
  <2>3. inbox' = inbox \/ inbox' = [inbox EXCEPT ![p] = Append(inbox[p], e)]
    BY <1>4 DEF BetReplies
  <2>. HIDE DEF e
  <2>4. Append(inbox[p], e) \in Seq(Events)
    BY <2>2
  <2>5. inbox' \in [Pages -> Seq(Events)]
    BY <2>3, <2>4 DEF TypeOK
  <2>. QED
    BY <1>0, <1>4, <2>5, DoneType DEF BetReplies, TypeOK
<1>. QED
  BY <1>1, <1>2, <1>3, <1>4 DEF BetHandler

\* The clock of a round.
LEMMA ClockType ==
  ASSUME TypeOK, NEW r \in RoundIDs, Clock(r) \/ ClockClearFails(r)
  PROVE  TypeOK'
<1>. USE DEF room, server, browsers
<1>1. \A c \in Clocks : [clock EXCEPT ![r] = c] \in [RoundIDs -> Clocks]
  BY DEF TypeOK
<1>2. clock' \in [RoundIDs -> Clocks]
  BY <1>1 DEF Clock, ClockLocks, ClockAnnouncesLock, ClockRefunds, ClockClears, ClockClearFails,
              ClockAnnouncesRefund, Ticks, Clocks
<1>3. CASE ClockLocks(r)
  BY <1>2, <1>3 DEF ClockLocks, TypeOK
<1>4. CASE ClockAnnouncesLock(r)
  <2>1. Event("round_locked", r, 0) \in Events
    BY EventTypes
  <2>2. inbox' \in [Pages -> Seq(Events)]
    BY <1>4, <2>1, ToAllType DEF ClockAnnouncesLock
  <2>. QED
    BY <1>2, <1>4, <2>2 DEF ClockAnnouncesLock, TypeOK
<1>5. CASE ClockRefunds(r)
  <2>1. wallet' \in [Players -> Nat]
    BY <1>5 DEF ClockRefunds, TypeOK
  <2>2. status' \in [RoundIDs -> {"none", "open", "locked", "resolved", "refunded"}]
    <3>1. [status EXCEPT ![r] = "refunded"]
            \in [RoundIDs -> {"none", "open", "locked", "resolved", "refunded"}]
      BY DEF TypeOK
    <3>2. status' \in {status, [status EXCEPT ![r] = "refunded"]}
      BY <1>5 DEF ClockRefunds
    <3>. QED
      BY <3>1, <3>2 DEF TypeOK
  <2>3. UNCHANGED <<index, pool, staked, net, job, announced, unheard, browsers>>
    BY <1>5 DEF ClockRefunds
  <2>. QED
    BY <1>2, <2>1, <2>2, <2>3 DEF TypeOK
<1>6. CASE ClockAnnouncesRefund(r)
  <2>1. Event("round_refunded", r, 0) \in Events
    BY EventTypes
  <2>2. inbox' \in [Pages -> Seq(Events)]
    BY <1>6, <2>1, ToAllType DEF ClockAnnouncesRefund
  <2>. QED
    BY <1>2, <1>6, <2>2 DEF ClockAnnouncesRefund, TypeOK
<1>7. CASE ClockClears(r)
  BY <1>2, <1>7 DEF ClockClears, TypeOK
<1>8. CASE ClockClearFails(r)
  <2>1. index' \in RoundIDs \cup {None} /\ unheard' \subseteq RoundIDs
    BY <1>8 DEF ClockClearFails, ClearFails, TypeOK
  <2>. QED
    BY <1>2, <1>8, <2>1 DEF ClockClearFails, ClearFails, TypeOK
<1>. QED
  BY <1>3, <1>4, <1>5, <1>6, <1>7, <1>8 DEF Clock

\* What a browser does, and its connection.
LEMMA BrowserType ==
  ASSUME TypeOK, NEW p \in Pages, Browser(p) \/ Reload(p)
  PROVE  TypeOK'
<1>. USE DEF room, server, browsers
<1>0. inbox[p] \in Seq(Events) /\ page[p] \in PageStates
  BY DEF TypeOK
<1>1. CASE PageReceives(p)
  <2>1. Tail(inbox[p]) \in Seq(Events) /\ Head(inbox[p]) \in Events
    BY <1>0, <1>1, QueueTail DEF PageReceives
  <2>2. ReduceRound(page[p], Head(inbox[p])) \in PageStates
    BY <1>0, <2>1, Reduced
  <2>. QED
    BY <1>1, <2>1, <2>2 DEF PageReceives, TypeOK
<1>2. CASE Rejoin(p)
  BY <1>2 DEF Rejoin, TypeOK
<1>3. CASE Greet(p)
  <2>. DEFINE b == IF p \in Players THEN wallet[p] ELSE Grant
              e == Event("connected", None, b)
  <2>1. b \in Int
    BY DEF TypeOK
  <2>2. e \in Events
    BY <2>1, EventTypes
  <2>3. inbox' = [inbox EXCEPT ![p] = Append(inbox[p], e)]
    BY <1>3 DEF Greet
  <2>. HIDE DEF e
  <2>4. inbox' \in [Pages -> Seq(Events)]
    BY <1>0, <2>2, <2>3 DEF TypeOK
  <2>. QED
    BY <1>3, <2>4 DEF Greet, TypeOK
<1>4. CASE Reload(p)
  <2>1. InitialPage \in PageStates /\ << >> \in Seq(Events)
    BY InitialPageType
  <2>. DEFINE b == job[p] # NoJob
              j == [job[p] EXCEPT !.lost = b]
  <2>2. job' = [job EXCEPT ![p] = j]
    BY <1>4 DEF Reload, TypeOK
  <2>3. j \in Jobs /\ (j.at \in Past => j.round \in RoundIDs)
    <3>1. b \in BOOLEAN
      OBVIOUS
    <3>2. job[p] \in Jobs /\ (job[p].at \in Past => job[p].round \in RoundIDs)
      BY DEF TypeOK
    <3>. HIDE DEF b
    <3>3. j \in Jobs /\ j.at = job[p].at /\ j.round = job[p].round
      BY <3>1, <3>2 DEF Jobs
    <3>. QED
      BY <3>2, <3>3
  <2>. HIDE DEF j
  <2>4. job' \in [Pages -> Jobs] /\ \A d \in Pages : job'[d].at \in Past => job'[d].round \in RoundIDs
    BY <2>2, <2>3, JobType
  <2>. QED
    BY <1>4, <2>1, <2>4 DEF Reload, TypeOK
<1>. QED
  BY <1>1, <1>2, <1>3, <1>4 DEF Browser

\* Every step keeps the types.
LEMMA TypeStep == TypeOK /\ [Next]_vars => TypeOK'
<1>. SUFFICES ASSUME TypeOK, [Next]_vars  PROVE TypeOK'
  OBVIOUS
<1>1. CASE UNCHANGED vars
  BY <1>1 DEF vars, room, server, browsers, TypeOK
<1>. QED
  BY <1>1, HostType, BetType, ClockType, BrowserType DEF Next

(***************************************************************************)
(* No wallet is ever negative, whatever is wagered, settled and refunded;  *)
(* a request past its script knows the round the script dealt with; and    *)
(* a page is only ever sent events it knows (wager/service.go Place,       *)
(* round/service.go, roundState.ts).                                       *)
(***************************************************************************)
THEOREM TypeCorrect == Spec => []TypeOK
BY InitType, TypeStep, PTL DEF Spec

-----------------------------------------------------------------------------
(***************************************************************************)
(* Odds.  A pool only grows, and a total is quoted after it was in the     *)
(* pool: so what is on its way to a page, or about to be, is never more    *)
(* than the pool of the round it names.                                    *)
(***************************************************************************)
\* No total in a queue is more than the pools have.
Honest(s, pools) ==
  \A i \in DOMAIN s : s[i].type = "odds_updated" => s[i].n <= pools[s[i].round]

\* Nor is one about to be quoted, or shown.
OddsInv ==
  /\ \A p \in Pages : Honest(inbox[p], pool)
  /\ \A p \in Pages : job[p].at = "quoting" => job[p].said <= pool[job[p].round]
  /\ OddsAreThisRounds

\* Queues that take one more event, or lose their first one.
LEMMA HonestQueues ==
  ASSUME NEW s \in Seq(Events), NEW pools, Honest(s, pools)
  PROVE  /\ \A e \in Events : (e.type = "odds_updated" => e.n <= pools[e.round]) =>
               Honest(Append(s, e), pools)
         /\ s # << >> => Honest(Tail(s), pools)
<1>1. ASSUME NEW e \in Events, e.type = "odds_updated" => e.n <= pools[e.round]
      PROVE  Honest(Append(s, e), pools)
  <2>. SUFFICES ASSUME NEW i \in DOMAIN Append(s, e), Append(s, e)[i].type = "odds_updated"
                PROVE  Append(s, e)[i].n <= pools[Append(s, e)[i].round]
    BY DEF Honest
  <2>1. i \in 1..Len(s) \/ i = Len(s) + 1
    BY QueueAppend
  <2>2. CASE i \in 1..Len(s)
    BY <2>2, QueueAppend DEF Honest
  <2>3. CASE i = Len(s) + 1
    BY <1>1, <2>3, QueueAppend
  <2>. QED
    BY <2>1, <2>2, <2>3
<1>2. ASSUME s # << >>  PROVE Honest(Tail(s), pools)
  <2>. SUFFICES ASSUME NEW i \in DOMAIN Tail(s), Tail(s)[i].type = "odds_updated"
                PROVE  Tail(s)[i].n <= pools[Tail(s)[i].round]
    BY DEF Honest
  <2>1. i + 1 \in DOMAIN s /\ Tail(s)[i] = s[i + 1]
    BY <1>2, QueueTail
  <2>. QED
    BY <2>1 DEF Honest
<1>. QED
  BY <1>1, <1>2

\* While a pool grows, nothing that was said of it becomes too much.
LEMMA HonestGrows ==
  ASSUME NEW s \in Seq(Events), NEW old \in [RoundIDs -> Nat], NEW new \in [RoundIDs -> Nat],
         \A r \in RoundIDs : old[r] <= new[r], Honest(s, old)
  PROVE  Honest(s, new)
<1>. SUFFICES ASSUME NEW i \in DOMAIN s, s[i].type = "odds_updated"  PROVE s[i].n <= new[s[i].round]
  BY DEF Honest
<1>1. s[i] \in Events
  OBVIOUS
<1>2. s[i].round \in RoundIDs /\ s[i].n \in Int
  BY <1>1 DEF Events, RoundEvents
<1>3. s[i].n <= old[s[i].round]
  BY DEF Honest
<1>. QED
  BY <1>2, <1>3

\* Nothing is said and nothing is shown.
LEMMA OddsInit == Init => OddsInv
BY DEF Init, OddsInv, Honest, OddsAreThisRounds, NoJob, InitialPage

\* Steps that take nothing out of a pool, add at most one event to a queue, say
\* what is in the pool, and change no page.
LEMMA OddsKept ==
  ASSUME TypeOK, TypeOK', OddsInv, UNCHANGED page,
         \A r \in RoundIDs : pool[r] <= pool'[r],
         \A p \in Pages :
           \/ inbox'[p] = inbox[p]
           \/ \E e \in Events : /\ inbox'[p] = Append(inbox[p], e)
                                /\ e.type = "odds_updated" => e.n <= pool[e.round],
         \A p \in Pages : job'[p].at = "quoting" =>
           \/ job'[p].said <= pool'[job'[p].round]
           \/ job[p].at = "quoting" /\ job'[p].said = job[p].said /\ job'[p].round = job[p].round
  PROVE  OddsInv'
<1>0. /\ pool \in [RoundIDs -> Nat] /\ pool' \in [RoundIDs -> Nat]
      /\ \A p \in Pages : /\ inbox[p] \in Seq(Events) /\ inbox'[p] \in Seq(Events)
                          /\ job[p] \in Jobs /\ page[p] \in PageStates
  BY DEF TypeOK
<1>1. ASSUME NEW p \in Pages  PROVE Honest(inbox'[p], pool')
  <2>1. Honest(inbox'[p], pool)
    <3>1. Honest(inbox[p], pool)
      BY DEF OddsInv
    <3>2. ASSUME NEW e \in Events, inbox'[p] = Append(inbox[p], e),
                 e.type = "odds_updated" => e.n <= pool[e.round]
          PROVE  Honest(inbox'[p], pool)
      BY <1>0, <3>1, <3>2, HonestQueues
    <3>. QED
      BY <3>1, <3>2
  <2>. QED
    BY <1>0, <2>1, HonestGrows
<1>2. ASSUME NEW p \in Pages, job'[p].at = "quoting"
      PROVE  job'[p].said <= pool'[job'[p].round]
  <2>1. CASE job'[p].said <= pool'[job'[p].round]
    BY <2>1
  <2>2. CASE job[p].at = "quoting" /\ job'[p].said = job[p].said /\ job'[p].round = job[p].round
    <3>1. job[p].said <= pool[job[p].round] /\ job[p].round \in RoundIDs /\ job[p].said \in Nat
      BY <1>0, <2>2 DEF OddsInv, TypeOK, Past, Jobs
    <3>. QED
      BY <1>0, <2>2, <3>1
  <2>. QED
    BY <1>2, <2>1, <2>2
<1>3. ASSUME NEW p \in Pages, page[p].round # None
      PROVE  page[p].total <= pool'[page[p].round]
  <2>1. page[p].total <= pool[page[p].round] /\ page[p].round \in RoundIDs /\ page[p].total \in Int
    BY <1>0, <1>3 DEF OddsInv, OddsAreThisRounds, PageStates
  <2>. QED
    BY <1>0, <2>1
<1>. QED
  BY <1>1, <1>2, <1>3 DEF OddsInv, OddsAreThisRounds

\* The same for steps that leave the pools alone and quote nothing new.
LEMMA OddsUnmoved ==
  ASSUME TypeOK, TypeOK', OddsInv, UNCHANGED <<page, pool>>,
         \A p \in Pages :
           \/ inbox'[p] = inbox[p]
           \/ \E e \in Events : /\ inbox'[p] = Append(inbox[p], e)
                                /\ e.type = "odds_updated" => e.n <= pool[e.round],
         \A p \in Pages : job'[p] = job[p] \/ job'[p].at # "quoting"
  PROVE  OddsInv'
<1>1. \A r \in RoundIDs : pool[r] <= pool'[r]
  BY DEF TypeOK
<1>. QED
  BY <1>1, OddsKept

\* Whose job changes, and to what.
LEMMA JobMoves ==
  ASSUME TypeOK, NEW c \in Pages
  PROVE  /\ Done(c) => job'[c] = NoJob /\ \A p \in Pages \ {c} : job'[p] = job[p]
         /\ \A at, a : Ask(c, at, a) =>
              /\ job[c] = NoJob
              /\ job'[c].at = at /\ job'[c].shown = page[c].round
              /\ \A p \in Pages \ {c} : job'[p] = job[p]
         /\ \A at, r : job' = [job EXCEPT ![c].at = at, ![c].round = r] =>
              /\ job'[c].at = at /\ job'[c].round = r
              /\ \A p \in Pages \ {c} : job'[p] = job[p]
         /\ \A at : Moves(c, at) =>
              /\ job'[c].at = at /\ job'[c].round = job[c].round
              /\ \A p \in Pages \ {c} : job'[p] = job[p]
<1>0. job \in [Pages -> Jobs]
  BY DEF TypeOK
<1>1. Done(c) => job'[c] = NoJob /\ \A p \in Pages \ {c} : job'[p] = job[p]
  BY <1>0 DEF Done
<1>2. ASSUME NEW at, NEW a, Ask(c, at, a)
      PROVE  /\ job[c] = NoJob
             /\ job'[c].at = at /\ job'[c].shown = page[c].round
             /\ \A p \in Pages \ {c} : job'[p] = job[p]
  <2>1. job' = [job EXCEPT ![c] = [NoJob EXCEPT !.at = at, !.amount = a, !.shown = page[c].round]]
    BY <1>2 DEF Ask
  <2>2. job'[c] = [NoJob EXCEPT !.at = at, !.amount = a, !.shown = page[c].round]
    BY <1>0, <2>1
  <2>. QED
    BY <1>0, <1>2, <2>1, <2>2 DEF Ask, NoJob
<1>3. ASSUME NEW at, NEW r, job' = [job EXCEPT ![c].at = at, ![c].round = r]
      PROVE  /\ job'[c].at = at /\ job'[c].round = r
             /\ \A p \in Pages \ {c} : job'[p] = job[p]
  BY <1>0, <1>3 DEF Jobs
<1>4. ASSUME NEW at, Moves(c, at)
      PROVE  /\ job'[c].at = at /\ job'[c].round = job[c].round
             /\ \A p \in Pages \ {c} : job'[p] = job[p]
  BY <1>0, <1>4 DEF Moves, Jobs
<1>. QED
  BY <1>1, <1>2, <1>3, <1>4

\* The host's requests say nothing of a pool.
LEMMA OddsHost ==
  ASSUME TypeOK, TypeOK', OddsInv,
         HostAsksOpen \/ HostAsksResolve \/ HostHandler \/ ResolveClearFails
  PROVE  OddsInv'
<1>. USE DEF room, server, browsers
<1>0. Host \in Pages /\ NoJob.at # "quoting"
  BY DEF Pages, NoJob
<1>1. CASE HostAsksOpen \/ HostAsksResolve
  <2>1. PICK at \in {"open", "resolve"} : Ask(Host, at, 0)
    BY <1>1 DEF HostAsksOpen, HostAsksResolve
  <2>2. /\ job'[Host].at # "quoting"
        /\ \A p \in Pages \ {Host} : job'[p] = job[p]
    BY <1>0, <2>1, JobMoves
  <2>3. UNCHANGED <<page, pool, inbox>>
    BY <2>1 DEF Ask
  <2>. QED
    BY <2>2, <2>3, OddsUnmoved
<1>2. CASE OpenCreates
  <2>1. /\ UNCHANGED <<page, inbox, pool>>
        /\ \/ Done(Host)
           \/ \E r : job' = [job EXCEPT ![Host].at = "opening", ![Host].round = r]
    BY <1>2 DEF OpenCreates
  <2>2. /\ job'[Host].at # "quoting"
        /\ \A p \in Pages \ {Host} : job'[p] = job[p]
    BY <1>0, <2>1, JobMoves
  <2>. QED
    BY <1>0, <2>1, <2>2, OddsUnmoved
<1>3. CASE OpenAnnounces
  <2>. DEFINE e == Event("round_opened", job[Host].round, 0)
  <2>1. job[Host].round \in RoundIDs
    BY <1>0, <1>3 DEF OpenAnnounces, Handling, TypeOK, Past
  <2>2. e \in Events /\ e.type # "odds_updated"
    BY <2>1, EventTypes
  <2>3. ToAll(e)
    BY <1>3 DEF OpenAnnounces
  <2>. HIDE DEF e
  <2>4. Done(Host) /\ UNCHANGED <<page, pool>>
    BY <1>3 DEF OpenAnnounces
  <2>. QED
    BY <1>0, <2>2, <2>3, <2>4, ToAllType, JobMoves, OddsUnmoved
<1>4. CASE ResolveSettles
  <2>1. /\ UNCHANGED <<page, inbox, pool>>
        /\ \/ Done(Host)
           \/ \E r : job' = [job EXCEPT ![Host].at = "clearing", ![Host].round = r]
    BY <1>4 DEF ResolveSettles
  <2>. QED
    BY <1>0, <2>1, JobMoves, OddsUnmoved
<1>5. CASE ResolveReveals
  <2>. DEFINE rows == [p \in Pages |-> Event("round_resolved", job[Host].round,
                                             IF p \in Players THEN net[p] ELSE 0)]
  <2>1. job[Host].round \in RoundIDs
    BY <1>0, <1>5 DEF ResolveReveals, Handling, TypeOK, Past
  <2>2. rows \in [Pages -> Events] /\ \A p \in Pages : rows[p].type # "odds_updated"
    <3>1. ASSUME NEW p \in Pages
          PROVE  (IF p \in Players THEN net[p] ELSE 0) \in Int
      BY DEF TypeOK
    <3>. QED
      BY <2>1, <3>1, EventTypes
  <2>3. Broadcast(rows)
    BY <1>5 DEF ResolveReveals
  <2>. HIDE DEF rows
  <2>4. \A p \in Pages : \/ inbox'[p] = inbox[p]
                         \/ inbox'[p] = Append(inbox[p], rows[p]) /\ rows[p] \in Events
                            /\ rows[p].type # "odds_updated"
    BY <2>2, <2>3, BroadcastType
  <2>5. Done(Host) /\ UNCHANGED <<page, pool>>
    BY <1>5 DEF ResolveReveals
  <2>. QED
    BY <1>0, <2>4, <2>5, JobMoves, OddsUnmoved
<1>6. CASE ResolveClears \/ ResolveClearFails
  <2>1. UNCHANGED <<page, inbox, pool>> /\ (Done(Host) \/ Moves(Host, "revealing"))
    BY <1>6 DEF ResolveClears, ResolveClearFails, ClearFails
  <2>. QED
    BY <1>0, <2>1, JobMoves, OddsUnmoved
<1>. QED
  BY <1>1, <1>2, <1>3, <1>4, <1>5, <1>6 DEF HostHandler

\* A total is what the script left in the pool, and is quoted as such.
LEMMA OddsBet ==
  ASSUME TypeOK, TypeOK', OddsInv, NEW p \in Players, PlayerAsksBet(p) \/ BetHandler(p)
  PROVE  OddsInv'
<1>. USE DEF room, server, browsers
<1>0. p \in Pages /\ NoJob.at # "quoting" /\ job[p] \in Jobs /\ inbox[p] \in Seq(Events)
  BY DEF Pages, NoJob, TypeOK
<1>1. CASE PlayerAsksBet(p)
  <2>1. PICK a \in Amounts : Ask(p, "bet", a)
    BY <1>1 DEF PlayerAsksBet
  <2>2. job'[p].at = "bet" /\ \A c \in Pages \ {p} : job'[c] = job[c]
    BY <1>0, <2>1, JobMoves
  <2>3. UNCHANGED <<page, pool>> /\ \A c \in Pages : inbox'[c] = inbox[c]
    BY <2>1 DEF Ask
  <2>. QED
    BY <2>2, <2>3, OddsUnmoved
<1>2. CASE BetPlaces(p)
  <2>1. CASE Done(p) /\ UNCHANGED room
    BY <1>0, <1>2, <2>1, JobMoves, OddsUnmoved DEF BetPlaces
  <2>2. CASE ~(Done(p) /\ UNCHANGED room)
    <3>1. /\ index # None
          /\ pool' = [pool EXCEPT ![index] = @ + job[p].amount]
          /\ job' = [job EXCEPT ![p].at = "quoting", ![p].round = index,
                                ![p].said = pool'[index], ![p].amount = wallet'[p]]
          /\ UNCHANGED <<page, inbox>>
      BY <1>2, <2>2 DEF BetPlaces
    <3>2. \A r \in RoundIDs : pool[r] <= pool'[r]
      <4>1. job[p].amount \in Nat /\ pool \in [RoundIDs -> Nat]
        BY <1>0 DEF TypeOK, Jobs
      <4>2. ASSUME NEW r \in RoundIDs
            PROVE  pool'[r] = IF r = index THEN pool[r] + job[p].amount ELSE pool[r]
        BY <3>1, <4>1
      <4>3. ASSUME NEW r \in RoundIDs  PROVE pool[r] <= pool'[r]
        <5>1. pool[r] \in Nat
          BY <4>1
        <5>. QED
          BY <4>1, <4>2, <5>1
      <4>. QED
        BY <4>3
    <3>3. /\ job'[p].said = pool'[index] /\ job'[p].round = index
          /\ \A c \in Pages \ {p} : job'[c] = job[c]
      BY <1>0, <3>1 DEF TypeOK, Jobs
    <3>4. pool'[index] <= pool'[index]
      <4>1. job[p].amount \in Nat /\ pool \in [RoundIDs -> Nat] /\ index \in RoundIDs
        BY <1>0, <3>1 DEF TypeOK, Jobs
      <4>2. pool[index] \in Nat /\ pool'[index] = pool[index] + job[p].amount
        BY <3>1, <4>1
      <4>. QED
        BY <4>1, <4>2
    <3>5. \A c \in Pages : job'[c].at = "quoting" =>
            \/ job'[c].said <= pool'[job'[c].round]
            \/ job[c].at = "quoting" /\ job'[c].said = job[c].said /\ job'[c].round = job[c].round
      BY <3>3, <3>4
    <3>6. UNCHANGED page /\ \A c \in Pages : inbox'[c] = inbox[c]
      BY <3>1
    <3>. QED
      BY <3>2, <3>5, <3>6, OddsKept
  <2>. QED
    BY <2>1, <2>2
<1>3. CASE BetQuotes(p)
  <2>. DEFINE e == Event("odds_updated", job[p].round, job[p].said)
  <2>1. job[p].at = "quoting" /\ job[p].said \in Int
    BY <1>0, <1>3 DEF BetQuotes, Handling, Jobs
  <2>2. job[p].round \in RoundIDs /\ job[p].said <= pool[job[p].round]
    BY <1>0, <2>1 DEF TypeOK, Past, OddsInv
  <2>3. e \in Events /\ e.n <= pool[e.round]
    BY <2>1, <2>2, EventTypes
  <2>4. ToAll(e) /\ Moves(p, "replying") /\ UNCHANGED <<page, pool>>
    BY <1>3 DEF BetQuotes
  <2>. HIDE DEF e
  <2>5. \A c \in Pages : inbox'[c] \in {inbox[c], Append(inbox[c], e)}
    BY <2>3, <2>4, ToAllType
  <2>6. \A c \in Pages : job'[c] = job[c] \/ job'[c].at # "quoting"
    BY <1>0, <2>4, JobMoves
  <2>. QED
    BY <2>3, <2>4, <2>5, <2>6, OddsUnmoved
<1>4. CASE BetReplies(p)
  <2>. DEFINE e == Event("wager_accepted", job[p].round, job[p].amount)
  <2>1. job[p].at = "replying" /\ job[p].amount \in Int
    BY <1>0, <1>4 DEF BetReplies, Handling, Jobs
  <2>2. job[p].round \in RoundIDs
    BY <1>0, <2>1 DEF TypeOK, Past
  <2>3. e \in Events /\ e.type # "odds_updated"
    BY <2>1, <2>2, EventTypes
  <2>4. /\ inbox' = inbox \/ inbox' = [inbox EXCEPT ![p] = Append(inbox[p], e)]
        /\ Done(p) /\ UNCHANGED <<page, pool>>
    BY <1>4 DEF BetReplies
  <2>. HIDE DEF e
  <2>5. \A c \in Pages : inbox'[c] \in {inbox[c], Append(inbox[c], e)}
    BY <2>4 DEF TypeOK
  <2>6. \A c \in Pages : job'[c] = job[c] \/ job'[c].at # "quoting"
    BY <1>0, <2>4, JobMoves
  <2>. QED
    BY <2>3, <2>4, <2>5, <2>6, OddsUnmoved
<1>. QED
  BY <1>1, <1>2, <1>3, <1>4 DEF BetHandler

\* A clock says nothing of a pool.
LEMMA OddsClock ==
  ASSUME TypeOK, TypeOK', OddsInv, NEW r \in RoundIDs, Clock(r) \/ ClockClearFails(r)
  PROVE  OddsInv'
<1>. USE DEF room, server, browsers
<1>1. PICK e : /\ e \in Events /\ e.type # "odds_updated"
               /\ inbox' = inbox \/ ToAll(e)
  <2>1. CASE ClockLocks(r) \/ ClockRefunds(r) \/ ClockClears(r) \/ ClockClearFails(r)
    BY <2>1, EventTypes DEF ClockLocks, ClockRefunds, ClockClears, ClockClearFails, ClearFails
  <2>2. CASE ClockAnnouncesLock(r)
    BY <2>2, EventTypes DEF ClockAnnouncesLock
  <2>3. CASE ClockAnnouncesRefund(r)
    BY <2>3, EventTypes DEF ClockAnnouncesRefund
  <2>. QED
    BY <2>1, <2>2, <2>3 DEF Clock
<1>2. \A p \in Pages : \/ inbox'[p] = inbox[p]
                       \/ inbox'[p] = Append(inbox[p], e) /\ e \in Events
                          /\ e.type # "odds_updated"
  <2>1. CASE inbox' = inbox
    BY <2>1
  <2>2. CASE ToAll(e)
    <3>1. e \in Events /\ e.type # "odds_updated"
      BY <1>1
    <3>2. \A p \in Pages : inbox'[p] \in {inbox[p], Append(inbox[p], e)}
      BY <2>2, <3>1, ToAllType
    <3>. QED
      BY <3>1, <3>2
  <2>. QED
    BY <1>1, <2>1, <2>2
<1>3. UNCHANGED <<page, pool>> /\ \A p \in Pages : job'[p] = job[p]
  BY DEF Clock, ClockLocks, ClockAnnouncesLock, ClockRefunds, ClockClears, ClockClearFails,
         ClearFails, ClockAnnouncesRefund
<1>. QED
  BY <1>2, <1>3, OddsUnmoved

\* A page takes over the odds of its own round only, and opens one at nothing.
LEMMA OddsBrowser ==
  ASSUME TypeOK, TypeOK', OddsInv, NEW p \in Pages, Browser(p) \/ Reload(p)
  PROVE  OddsInv'
<1>. USE DEF room, server, browsers
<1>0. /\ inbox[p] \in Seq(Events) /\ page[p] \in PageStates
      /\ Honest(inbox[p], pool)
      /\ page[p].round # None => page[p].total <= pool[page[p].round]
      /\ \A r \in RoundIDs : 0 <= pool[r]
      /\ DOMAIN inbox = Pages /\ DOMAIN page = Pages /\ DOMAIN job = Pages
  BY DEF TypeOK, OddsInv, OddsAreThisRounds
<1>1. CASE PageReceives(p)
  <2>. DEFINE e == Head(inbox[p])
              s == ReduceRound(page[p], e)
  <2>1. /\ inbox[p] # << >>
        /\ inbox' = [inbox EXCEPT ![p] = Tail(inbox[p])]
        /\ page' = [page EXCEPT ![p] = s]
        /\ UNCHANGED <<pool, job>>
    BY <1>1 DEF PageReceives
  <2>2. e \in Events /\ e = inbox[p][1] /\ 1 \in DOMAIN inbox[p] /\ Honest(Tail(inbox[p]), pool)
    BY <1>0, <2>1, QueueTail, HonestQueues
  <2>3. e.type = "odds_updated" => e.n <= pool[e.round]
    BY <1>0, <2>2 DEF Honest
  <2>. HIDE DEF e
  <2>4. s.round # None => s.total <= pool[s.round]
    <3>1. CASE e.type = "round_opened"
      <4>1. e.round \in RoundIDs
        BY <2>2, <3>1 DEF Events, RoundEvents
      <4>. QED
        BY <1>0, <2>2, <3>1, <4>1, Reduced
    <3>2. CASE e.type # "round_opened"
      BY <1>0, <2>2, <2>3, <3>2, Reduced
    <3>. QED
      BY <3>1, <3>2
  <2>. HIDE DEF s
  <2>. QED
    BY <1>0, <2>1, <2>2, <2>4 DEF OddsInv, OddsAreThisRounds
<1>2. CASE Rejoin(p)
  BY <1>2, OddsUnmoved DEF Rejoin
<1>3. CASE Greet(p)
  <2>. DEFINE b == IF p \in Players THEN wallet[p] ELSE Grant
              e == Event("connected", None, b)
  <2>1. b \in Int
    BY DEF TypeOK
  <2>2. e \in Events /\ e.type # "odds_updated"
    BY <2>1, EventTypes
  <2>3. inbox' = [inbox EXCEPT ![p] = Append(inbox[p], e)] /\ UNCHANGED <<pool, page, job>>
    BY <1>3 DEF Greet
  <2>. HIDE DEF e
  <2>4. \A c \in Pages : inbox'[c] \in {inbox[c], Append(inbox[c], e)}
    BY <2>3 DEF TypeOK
  <2>. QED
    BY <2>2, <2>3, <2>4, OddsUnmoved
<1>4. CASE Reload(p)
  <2>1. /\ inbox' = [inbox EXCEPT ![p] = << >>]
        /\ page' = [page EXCEPT ![p] = InitialPage]
        /\ job' = [job EXCEPT ![p].lost = job[p] # NoJob]
        /\ UNCHANGED pool
    BY <1>4 DEF Reload
  <2>2. \A c \in Pages : Honest(inbox'[c], pool)
    BY <1>0, <2>1 DEF Honest, OddsInv
  <2>3. \A c \in Pages : page'[c].round # None => page'[c].total <= pool[page'[c].round]
    BY <1>0, <2>1 DEF InitialPage, OddsInv, OddsAreThisRounds
  <2>4. \A c \in Pages : job'[c].at = job[c].at /\ job'[c].said = job[c].said
                        /\ job'[c].round = job[c].round
    <3>1. job[p] \in Jobs
      BY DEF TypeOK
    <3>. QED
      BY <1>0, <2>1, <3>1 DEF Jobs
  <2>. QED
    BY <2>1, <2>2, <2>3, <2>4 DEF OddsInv, OddsAreThisRounds
<1>. QED
  BY <1>1, <1>2, <1>3, <1>4 DEF Browser

\* Every step keeps the odds honest.
LEMMA OddsStep ==
  ASSUME TypeOK, TypeOK', OddsInv, [Next]_vars
  PROVE  OddsInv'
<1>1. CASE UNCHANGED vars
  BY <1>1 DEF vars, room, server, browsers, OddsInv, Honest, OddsAreThisRounds
<1>. QED
  BY <1>1, OddsHost, OddsBet, OddsClock, OddsBrowser DEF Next

(***************************************************************************)
(* Whatever comes late, and however long pages and quotes lag behind, the  *)
(* odds a page shows are odds its own round has had (roundState.ts         *)
(* isStale; wager/service.go Place).                                       *)
(***************************************************************************)
THEOREM OddsCorrect == Spec => []OddsAreThisRounds
<1>1. OddsInv => OddsAreThisRounds
  BY DEF OddsInv
<1>2. TypeOK /\ TypeOK' /\ OddsInv /\ [Next]_vars => OddsInv'
  BY OddsStep
<1>. QED
  BY <1>1, <1>2, OddsInit, TypeCorrect, PTL DEF Spec

-----------------------------------------------------------------------------
(***************************************************************************)
(* What the host answers for.  One round at most has begun and not been    *)
(* heard to end; what the host's page shows, what is on its way to it and  *)
(* what the host has asked for are all about that round.  A request to     *)
(* resolve can then meet no other.                                         *)
(***************************************************************************)

\* Event i of the host's queue tells of a type of event, of a round.
Is(i, type, r) == inbox[Host][i].type = type /\ inbox[Host][i].round = r

\* Positions of that queue.
Queue == DOMAIN inbox[Host]

\* An event the host's page has yet to read.
Queued(type, r) == \E i \in Queue : Is(i, type, r)

\* Event i tells of the end of a round.
Ends(i) == inbox[Host][i].type \in {"round_resolved", "round_refunded"}

\* Rounds begun whose end the room has not heard of.
Unfinished == {r \in RoundIDs \ announced : status[r] # "none"}

\* There is one of them at most.
OneAtATime ==
  /\ \A r, s \in Unfinished : r = s
  /\ \A r \in announced : status[r] \in {"resolved", "refunded"}
  /\ \A r \in RoundIDs : status[r] \in Live => index = r

\* A clock runs from the announcement of its round, in step with its status.
ClockOK ==
  \A r \in RoundIDs :
    /\ status[r] = "none" => clock[r] = "off"
    /\ clock[r] = "off" /\ status[r] # "none" => job[Host].at = "opening" /\ job[Host].round = r
    /\ clock[r] = "waiting" => status[r] = "open"
    /\ clock[r] = "locking" => status[r] = "locked"
    /\ clock[r] \in {"clearing", "announcing"} => status[r] = "refunded" /\ r \notin announced

\* No round can have begun that a request to resolve was not meant for, and
\* none has ended unheard that a request to open would leave behind.
JobOK ==
  /\ job[Host].at = "open" => \A r \in Unfinished : status[r] \in Live
  /\ job[Host].at = "opening" => status[job[Host].round] = "open" /\ clock[job[Host].round] = "off"
  /\ job[Host].at = "resolve" =>
       /\ job[Host].shown # None
       /\ \A r \in Unfinished : r = job[Host].shown
       /\ clock[job[Host].shown] \in {"grace", "clearing", "announcing", "done"}
       /\ ~Queued("round_opened", job[Host].shown)
       /\ ~Queued("round_locked", job[Host].shown)
  /\ job[Host].at \in {"clearing", "revealing"} =>
       status[job[Host].round] = "resolved" /\ job[Host].round \notin announced

\* An opening the page has not read is of a round that runs, and its lock, if
\* it is over, comes after it.
OpeningsOK ==
  \A r \in RoundIDs : \A i \in Queue : Is(i, "round_opened", r) =>
    /\ status[r] \in Live
    /\ clock[r] \in {"waiting", "locking"} \/ \E k \in Queue : k > i /\ Is(k, "round_locked", r)

\* A lock the page has not read comes once, after the opening.
LocksOK ==
  \A r \in RoundIDs : \A i \in Queue : Is(i, "round_locked", r) =>
    /\ inbox[Host][i].n = 0
    /\ status[r] = "locked" /\ clock[r] = "grace"
    /\ \/ page[Host].phase \in Live /\ page[Host].round = r
       \/ \E k \in Queue : k < i /\ Is(k, "round_opened", r)
    /\ \A k \in Queue : Is(k, "round_locked", r) => k = i

\* An end the page has not read is of the round it shows, and nothing has
\* begun since.
EndsOK ==
  \A i \in Queue : Ends(i) =>
    /\ page[Host].phase \in Live /\ page[Host].round = inbox[Host][i].round
    /\ Unfinished = {}
    /\ job[Host].at \notin {"open", "opening"}
    /\ \A k \in Queue : Ends(k) => k = i

\* What the page shows running has begun, and the page will read of its end;
\* what it does not show it will read the opening of.
ViewOK ==
  /\ conn[Host] = "greeted"
  /\ page[Host].phase \in Live =>
       /\ page[Host].round # None
       /\ status[page[Host].round] # "none"
       /\ page[Host].round \in announced => \E i \in Queue : Ends(i)
  /\ page[Host].phase = "locked" =>
       /\ clock[page[Host].round] \in {"grace", "clearing", "announcing", "done"}
       /\ ~Queued("round_opened", page[Host].round)
       /\ ~Queued("round_locked", page[Host].round)
  /\ page[Host].phase \notin Live =>
       \A r \in Unfinished : \/ Queued("round_opened", r)
                             \/ job[Host].at = "opening" /\ job[Host].round = r

\* What the host is told and may ask for, in step with the round.
HostInv == OneAtATime /\ ClockOK /\ JobOK /\ OpeningsOK /\ LocksOK /\ EndsOK /\ ViewOK

\* What an event at the end of the queue does to it.
LEMMA QueueGrows ==
  ASSUME TypeOK, NEW e \in Events, inbox'[Host] = Append(inbox[Host], e)
  PROVE  \E n \in Nat :
           /\ Queue' = Queue \cup {n} /\ inbox'[Host][n] = e
           /\ \A i \in Queue : i \in Nat /\ i < n /\ inbox'[Host][i] = inbox[Host][i]
<1>1. inbox[Host] \in Seq(Events)
  BY DEF TypeOK, Pages
<1>. DEFINE n == Len(inbox[Host]) + 1
<1>2. /\ n \in Nat /\ Queue = 1..(n - 1) /\ Queue' = 1..n
      /\ inbox'[Host][n] = e /\ \A i \in 1..(n - 1) : inbox'[Host][i] = inbox[Host][i]
  BY <1>1, QueueAppend DEF Queue
<1>. HIDE DEF n
<1>3. n >= 1 /\ n \in Nat
  BY <1>1, <1>2 DEF n
<1>4. Queue' = Queue \cup {n}
  BY <1>2, <1>3
<1>5. ASSUME NEW i \in Queue
      PROVE  i \in Nat /\ i < n /\ inbox'[Host][i] = inbox[Host][i]
  <2>1. i \in 1..(n - 1)
    BY <1>2
  <2>2. i \in Nat /\ i < n
    BY <1>3, <2>1
  <2>. QED
    BY <1>2, <2>1, <2>2
<1>. QED
  BY <1>2, <1>3, <1>4, <1>5

\* What reading its first event does to it.
LEMMA QueueShrinks ==
  ASSUME TypeOK, inbox[Host] # << >>, inbox'[Host] = Tail(inbox[Host])
  PROVE  /\ 1 \in Queue /\ Head(inbox[Host]) = inbox[Host][1] /\ inbox[Host][1] \in Events
         /\ Queue \subseteq Nat \ {0} /\ Queue' \subseteq Nat
         /\ \A i \in Queue' : i + 1 \in Queue /\ inbox'[Host][i] = inbox[Host][i + 1]
         /\ \A i \in Queue \ {1} : i - 1 \in Queue' /\ inbox'[Host][i - 1] = inbox[Host][i]
<1>1. inbox[Host] \in Seq(Events)
  BY DEF TypeOK, Pages
<1>. DEFINE n == Len(inbox[Host])
<1>2. /\ n \in Nat \ {0} /\ Queue = 1..n /\ Queue' = 1..(n - 1)
      /\ \A i \in 1..(n - 1) : inbox'[Host][i] = inbox[Host][i + 1]
      /\ Head(inbox[Host]) = inbox[Host][1] /\ Head(inbox[Host]) \in Events
  BY <1>1, QueueTail DEF Queue
<1>. HIDE DEF n
<1>3. ASSUME NEW i \in Queue'
      PROVE  i \in Nat /\ i + 1 \in Queue /\ inbox'[Host][i] = inbox[Host][i + 1]
  <2>1. i \in 1..(n - 1)
    BY <1>2
  <2>2. i \in Nat /\ i + 1 \in 1..n
    BY <1>2, <2>1
  <2>. QED
    BY <1>2, <2>1, <2>2
<1>4. ASSUME NEW i \in Queue \ {1}
      PROVE  i - 1 \in Queue' /\ inbox'[Host][i - 1] = inbox[Host][i]
  <2>1. i - 1 \in 1..(n - 1) /\ (i - 1) + 1 = i
    BY <1>2
  <2>. QED
    BY <1>2, <2>1
<1>5. Queue \subseteq Nat \ {0} /\ 1 \in Queue
  BY <1>2
<1>. QED
  BY <1>2, <1>3, <1>4, <1>5

\* What the invariant says of the round that runs.
LEMMA Running ==
  ASSUME TypeOK, HostInv
  PROVE  /\ Host \in Pages
         /\ \A r \in RoundIDs : status[r] \in Live => r \in Unfinished /\ index = r
         /\ \A r \in Unfinished : /\ r \in RoundIDs /\ r \notin announced /\ status[r] # "none"
                                  /\ \A i \in Queue : ~Ends(i)
                                  /\ page[Host].phase \in Live => page[Host].round = r
                                  /\ status[r] \notin Live => page[Host].phase \in Live
         /\ page[Host].phase \in {"idle", "open", "locked", "revealed"}
         /\ page[Host].round \in RoundIDs \cup {None}
<1>1. Host \in Pages
  BY DEF Pages
<1>2. page[Host] \in PageStates
  BY <1>1 DEF TypeOK
<1>3. \A r \in RoundIDs : status[r] \in Live => r \in Unfinished /\ index = r
  BY DEF HostInv, OneAtATime, Unfinished, Live
<1>4. ASSUME NEW r \in Unfinished
      PROVE  /\ r \in RoundIDs /\ r \notin announced /\ status[r] # "none"
             /\ \A i \in Queue : ~Ends(i)
  BY DEF HostInv, EndsOK, Unfinished
<1>5. ASSUME NEW r \in Unfinished, page[Host].phase \in Live  PROVE page[Host].round = r
  <2>1. page[Host].round \in RoundIDs /\ page[Host].round \notin announced
    BY <1>2, <1>4, <1>5 DEF HostInv, ViewOK, PageStates
  <2>2. page[Host].round \in Unfinished
    BY <1>5, <2>1 DEF HostInv, ViewOK, Unfinished
  <2>. QED
    BY <2>2 DEF HostInv, OneAtATime
<1>6. ASSUME NEW r \in Unfinished, status[r] \notin Live  PROVE page[Host].phase \in Live
  <2>1. ~(job[Host].at = "opening" /\ job[Host].round = r)
    BY <1>6 DEF HostInv, JobOK, Live
  <2>2. ~Queued("round_opened", r)
    BY <1>4, <1>6 DEF HostInv, OpeningsOK, Queued
  <2>. QED
    BY <2>1, <2>2 DEF HostInv, ViewOK
<1>. QED
  BY <1>1, <1>2, <1>3, <1>4, <1>5, <1>6 DEF PageStates

\* Steps that are no business of the host's page.
LEMMA HostUntouched ==
  ASSUME HostInv, UNCHANGED <<status, index, clock, announced>>,
         job'[Host] = job[Host], inbox'[Host] = inbox[Host], page'[Host] = page[Host],
         conn'[Host] = conn[Host]
  PROVE  HostInv'
BY DEF HostInv, OneAtATime, ClockOK, JobOK, OpeningsOK, LocksOK, EndsOK, ViewOK,
       Unfinished, Queue, Queued, Is, Ends

\* The console asks to open when the page shows no round running: none has
\* ended unheard.
LEMMA AskOpenKeeps ==
  ASSUME TypeOK, HostInv, HostAsksOpen
  PROVE  HostInv'
<1>. USE DEF room, server, browsers
<1>1. Ask(Host, "open", 0) /\ page[Host].phase \notin Live
  BY DEF HostAsksOpen, Live
<1>2. /\ job[Host].at = "idle" /\ job'[Host].at = "open"
      /\ UNCHANGED <<status, index, clock, announced, inbox, page, conn>>
  <2>1. Host \in Pages
    BY Running
  <2>2. /\ job[Host] = NoJob /\ job'[Host].at = "open"
        /\ job'[Host].shown = page[Host].round
    BY <1>1, <2>1, JobMoves
  <2>3. UNCHANGED <<status, index, clock, announced, inbox, page, conn>>
    BY <1>1 DEF Ask
  <2>. QED
    BY <2>2, <2>3, NoJobType
<1>3. OneAtATime'
  BY <1>2 DEF HostInv, OneAtATime, Unfinished
<1>4. ClockOK'
  BY <1>2 DEF HostInv, ClockOK
<1>5. JobOK'
  <2>1. \A r \in Unfinished : status[r] \in Live
    BY <1>1, Running
  <2>. QED
    BY <1>2, <2>1 DEF JobOK, Unfinished
<1>6. OpeningsOK' /\ LocksOK'
  BY <1>2 DEF HostInv, OpeningsOK, LocksOK, Queue, Is
<1>7. EndsOK'
  BY <1>1, <1>2 DEF HostInv, EndsOK, Queue, Ends, Unfinished
<1>8. ViewOK'
  BY <1>2 DEF HostInv, ViewOK, Queue, Queued, Is, Ends, Unfinished
<1>. QED
  BY <1>3, <1>4, <1>5, <1>6, <1>7, <1>8 DEF HostInv

\* It asks to resolve what the page shows locked.
LEMMA AskResolveKeeps ==
  ASSUME TypeOK, HostInv, HostAsksResolve
  PROVE  HostInv'
<1>. USE DEF room, server, browsers
<1>1. Ask(Host, "resolve", 0) /\ page[Host].phase = "locked" /\ page[Host].phase \in Live
  BY DEF HostAsksResolve, Live
<1>2. /\ job[Host].at = "idle" /\ job'[Host].at = "resolve"
      /\ job'[Host].shown = page[Host].round
      /\ UNCHANGED <<status, index, clock, announced, inbox, page, conn>>
  <2>1. Host \in Pages
    BY Running
  <2>2. /\ job[Host] = NoJob /\ job'[Host].at = "resolve"
        /\ job'[Host].shown = page[Host].round
    BY <1>1, <2>1, JobMoves
  <2>3. UNCHANGED <<status, index, clock, announced, inbox, page, conn>>
    BY <1>1 DEF Ask
  <2>. QED
    BY <2>2, <2>3, NoJobType
<1>3. OneAtATime'
  BY <1>2 DEF HostInv, OneAtATime, Unfinished
<1>4. ClockOK'
  BY <1>2 DEF HostInv, ClockOK
<1>5. JobOK'
  <2>1. page[Host].round # None /\ \A r \in Unfinished : r = page[Host].round
    BY <1>1, Running DEF HostInv, ViewOK
  <2>2. /\ clock[page[Host].round] \in {"grace", "clearing", "announcing", "done"}
        /\ ~Queued("round_opened", page[Host].round)
        /\ ~Queued("round_locked", page[Host].round)
    BY <1>1 DEF HostInv, ViewOK
  <2>. QED
    BY <1>2, <2>1, <2>2 DEF JobOK, Unfinished, Queued, Queue, Is
<1>6. OpeningsOK' /\ LocksOK'
  BY <1>2 DEF HostInv, OpeningsOK, LocksOK, Queue, Is
<1>7. EndsOK'
  BY <1>1, <1>2 DEF HostInv, EndsOK, Queue, Ends, Unfinished
<1>8. ViewOK'
  BY <1>1, <1>2 DEF HostInv, ViewOK, Queue, Queued, Is, Ends, Unfinished
<1>. QED
  BY <1>3, <1>4, <1>5, <1>6, <1>7, <1>8 DEF HostInv

\* A request that is refused is over.
LEMMA DoneKeeps ==
  ASSUME TypeOK, HostInv, job[Host].at \in {"open", "resolve"}, Done(Host),
         UNCHANGED <<status, index, clock, announced, inbox, page, conn>>
  PROVE  HostInv'
<1>1. job'[Host].at = "idle"
  BY Running, JobMoves, NoJobType
<1>3. OneAtATime'
  BY <1>1 DEF HostInv, OneAtATime, Unfinished
<1>4. ClockOK' /\ JobOK'
  BY <1>1 DEF HostInv, ClockOK, JobOK
<1>6. OpeningsOK' /\ LocksOK'
  BY DEF HostInv, OpeningsOK, LocksOK, Queue, Is
<1>7. EndsOK'
  BY <1>1 DEF HostInv, EndsOK, Queue, Ends, Unfinished
<1>8. ViewOK'
  BY <1>1 DEF HostInv, ViewOK, Queue, Queued, Is, Ends, Unfinished
<1>. QED
  BY <1>3, <1>4, <1>6, <1>7, <1>8 DEF HostInv

\* A round begins only when there is none that runs, and the page will read of
\* it.
LEMMA OpenCreatesKeeps ==
  ASSUME TypeOK, HostInv, OpenCreates
  PROVE  HostInv'
<1>. USE DEF room, server, browsers
<1>0. job[Host].at = "open" /\ UNCHANGED <<clock, announced, inbox, page, conn>>
  BY DEF OpenCreates, Handling
<1>1. CASE Done(Host) /\ UNCHANGED room
  BY <1>0, <1>1, DoneKeeps
<1>2. CASE ~(Done(Host) /\ UNCHANGED room)
  <2>1. /\ ~(index # None /\ status[index] \in Live)
        /\ \E r \in RoundIDs :
             /\ status[r] = "none"
             /\ status' = [status EXCEPT ![r] = "open"]
             /\ index' = r
             /\ job' = [job EXCEPT ![Host].at = "opening", ![Host].round = r]
    BY <1>2 DEF OpenCreates
  <2>2. PICK r \in RoundIDs :
             /\ status[r] = "none"
             /\ status' = [status EXCEPT ![r] = "open"]
             /\ index' = r
             /\ job' = [job EXCEPT ![Host].at = "opening", ![Host].round = r]
    BY <2>1
  <2>3. /\ job'[Host].at = "opening" /\ job'[Host].round = r
        /\ status'[r] = "open" /\ \A s \in RoundIDs \ {r} : status'[s] = status[s]
    <3>0. Host \in Pages /\ job' = [job EXCEPT ![Host].at = "opening", ![Host].round = r]
      BY <2>2 DEF Pages
    <3>1. job'[Host].at = "opening" /\ job'[Host].round = r
      BY <3>0 DEF TypeOK, Jobs
    <3>2. status'[r] = "open" /\ \A s \in RoundIDs \ {r} : status'[s] = status[s]
      BY <2>2 DEF TypeOK
    <3>. QED
      BY <3>1, <3>2
  <2>4. ASSUME NEW s \in RoundIDs  PROVE status[s] \notin Live
    <3>1. s # None
      BY DEF RoundIDs
    <3>. QED
      BY <2>1, <3>1, Running
  <2>5. Unfinished = {}
    BY <1>0, <2>4 DEF HostInv, OneAtATime, JobOK, Unfinished
  <2>6. r \notin announced /\ Unfinished' = {r}
    BY <1>0, <2>2, <2>3, <2>5 DEF HostInv, OneAtATime, Unfinished
  <2>7. OneAtATime'
    BY <1>0, <2>2, <2>3, <2>4, <2>6 DEF HostInv, OneAtATime, Live
  <2>8. ClockOK'
    BY <1>0, <2>2, <2>3 DEF HostInv, ClockOK
  <2>9. JobOK'
    BY <1>0, <2>2, <2>3 DEF HostInv, ClockOK, JobOK
  <2>10. OpeningsOK' /\ LocksOK'
    BY <1>0, <2>4 DEF HostInv, OpeningsOK, LocksOK, Queue, Is, Live
  <2>11. EndsOK'
    BY <1>0 DEF HostInv, EndsOK, Queue, Ends
  <2>12. ViewOK'
    BY <1>0, <2>2, <2>3, <2>6, Running DEF HostInv, ViewOK, Queue, Queued, Is, Ends
  <2>. QED
    BY <2>7, <2>8, <2>9, <2>10, <2>11, <2>12 DEF HostInv
<1>. QED
  BY <1>1, <1>2

\* Its opening is announced before its clock starts.
LEMMA OpenAnnouncesKeeps ==
  ASSUME TypeOK, HostInv, OpenAnnounces
  PROVE  HostInv'
<1>. USE DEF room, server, browsers
<1>0. PICK r : r = job[Host].round
  OBVIOUS
<1>. DEFINE e == Event("round_opened", r, 0)
<1>1. /\ job[Host].at = "opening" /\ ToAll(e) /\ clock' = [clock EXCEPT ![r] = "waiting"]
      /\ Done(Host) /\ UNCHANGED <<status, index, announced, page, conn>>
  BY <1>0 DEF OpenAnnounces, Handling
<1>2. /\ r \in RoundIDs /\ status[r] = "open" /\ clock[r] = "off" /\ job'[Host].at = "idle"
      /\ e \in Events /\ e.type = "round_opened" /\ e.round = r
  <2>1. Host \in Pages
    BY Running
  <2>2. r \in RoundIDs
    BY <1>0, <1>1, <2>1 DEF TypeOK, Past
  <2>3. status[r] = "open" /\ clock[r] = "off"
    BY <1>0, <1>1 DEF HostInv, JobOK
  <2>4. job'[Host].at = "idle"
    BY <1>1, <2>1, JobMoves, NoJobType
  <2>5. e \in Events /\ e.type = "round_opened" /\ e.round = r
    BY <2>2, EventTypes
  <2>. QED
    BY <2>2, <2>3, <2>4, <2>5
<1>3. clock'[r] = "waiting" /\ \A s \in RoundIDs \ {r} : clock'[s] = clock[s]
  BY <1>1, <1>2 DEF TypeOK
<1>4. inbox'[Host] = Append(inbox[Host], e)
  BY <1>1, <1>2, Running, ToAllType DEF HostInv, ViewOK
<1>. HIDE DEF e
<1>5. PICK n \in Nat :
        /\ Queue' = Queue \cup {n} /\ inbox'[Host][n] = e
        /\ \A i \in Queue : i \in Nat /\ i < n /\ inbox'[Host][i] = inbox[Host][i]
  BY <1>2, <1>4, QueueGrows
<1>6. /\ \A i \in Queue' : i \in Queue \/ i = n
      /\ \A i \in Queue : \A type, s : Is(i, type, s)' <=> Is(i, type, s)
      /\ \A i \in Queue : Ends(i)' <=> Ends(i)
      /\ \A type, s : Is(n, type, s)' <=> type = "round_opened" /\ s = r
      /\ ~Ends(n)'
  BY <1>2, <1>5 DEF Is, Ends
<1>7. r \in Unfinished /\ \A i \in Queue : ~Ends(i)
  BY <1>2, Running DEF Live
<1>8. OneAtATime'
  BY <1>1, <1>2, <1>3 DEF HostInv, OneAtATime, Unfinished
<1>9. ClockOK'
  BY <1>1, <1>2, <1>3 DEF HostInv, ClockOK
<1>10. JobOK'
  BY <1>2 DEF JobOK
<1>11. OpeningsOK'
  BY <1>1, <1>2, <1>3, <1>5, <1>6 DEF HostInv, OpeningsOK, Live
<1>12. LocksOK'
  BY <1>1, <1>2, <1>3, <1>5, <1>6 DEF HostInv, LocksOK
<1>13. EndsOK'
  BY <1>6, <1>7 DEF EndsOK
<1>14. ViewOK'
  <2>1. page[Host].phase = "locked" => page[Host].round # r
    BY <1>2 DEF HostInv, ViewOK
  <2>2. \A type, s : s # r => (Queued(type, s)' <=> Queued(type, s))
    BY <1>5, <1>6 DEF Queued
  <2>3. Queued("round_opened", r)' /\ \A s : Queued("round_opened", s) => Queued("round_opened", s)'
    BY <1>5, <1>6 DEF Queued
  <2>4. page[Host].phase \in Live => page[Host].round = r /\ r \notin announced
    BY <1>7, Running
  <2>5. page[Host].phase \notin Live =>
          \A s \in Unfinished : Queued("round_opened", s) \/ s = r
    BY <1>0 DEF HostInv, ViewOK
  <2>6. Unfinished' = Unfinished /\ page' = page /\ conn' = conn /\ status' = status
    BY <1>1 DEF Unfinished
  <2>7. page[Host].phase = "locked" => /\ clock'[page[Host].round] \in {"grace", "clearing", "announcing", "done"}
                                      /\ ~Queued("round_opened", page[Host].round)'
                                      /\ ~Queued("round_locked", page[Host].round)'
    BY <1>2, <1>3, <2>1, <2>2, <2>4, <2>6 DEF HostInv, ViewOK, Live
  <2>8. page[Host].phase \in Live => page[Host].round # None /\ status[page[Host].round] # "none"
    BY DEF HostInv, ViewOK
  <2>9. conn[Host] = "greeted"
    BY DEF HostInv, ViewOK
  <2>. QED
    BY <2>3, <2>4, <2>5, <2>6, <2>7, <2>8, <2>9, <1>1 DEF ViewOK
<1>. QED
  BY <1>8, <1>9, <1>10, <1>11, <1>12, <1>13, <1>14 DEF HostInv

\* What is settled is the round the request was meant for: nothing else runs.
LEMMA SettlesShown ==
  ASSUME TypeOK, HostInv, ResolveSettles, ~(Done(Host) /\ UNCHANGED room)
  PROVE  /\ index \in RoundIDs /\ status[index] = "locked" /\ index = job[Host].shown
         /\ job[Host].at = "resolve"
         /\ status' = [status EXCEPT ![index] = "resolved"]
         /\ job' = [job EXCEPT ![Host].at = "clearing", ![Host].round = index]
         /\ UNCHANGED <<index, clock, announced, inbox, page, conn>>
<1>. USE DEF room, server, browsers
<1>1. /\ job[Host].at = "resolve" /\ index # None /\ status[index] = "locked"
      /\ status' = [status EXCEPT ![index] = "resolved"]
      /\ job' = [job EXCEPT ![Host].at = "clearing", ![Host].round = index]
      /\ UNCHANGED <<index, clock, announced, inbox, page, conn>>
  BY DEF ResolveSettles, Handling
<1>2. index \in RoundIDs
  BY <1>1 DEF TypeOK
<1>3. index \in Unfinished
  BY <1>1, <1>2, Running DEF Live
<1>. QED
  BY <1>1, <1>2, <1>3 DEF HostInv, JobOK

\* The settled round is the one that ran, and waits to be cleared and revealed.
LEMMA ResolveSettlesKeeps ==
  ASSUME TypeOK, HostInv, ResolveSettles
  PROVE  HostInv'
<1>. USE DEF room, server, browsers
<1>1. CASE Done(Host) /\ UNCHANGED room
  <2>1. job[Host].at = "resolve" /\ UNCHANGED <<clock, announced, inbox, page, conn>>
    BY DEF ResolveSettles, Handling
  <2>. QED
    BY <1>1, <2>1, DoneKeeps
<1>2. CASE ~(Done(Host) /\ UNCHANGED room)
  <2>1. /\ index \in RoundIDs /\ status[index] = "locked" /\ index = job[Host].shown
        /\ job[Host].at = "resolve"
        /\ UNCHANGED <<index, clock, announced, inbox, page, conn>>
    BY <1>2, SettlesShown
  <2>2. job'[Host].at = "clearing" /\ job'[Host].round = index
    <3>1. Host \in Pages
      BY Running
    <3>2. job' = [job EXCEPT ![Host].at = "clearing", ![Host].round = index]
      BY <1>2, SettlesShown
    <3>. QED
      BY <3>1, <3>2 DEF TypeOK, Jobs
  <2>3. status'[index] = "resolved" /\ \A s \in RoundIDs \ {index} : status'[s] = status[s]
    BY <1>2, <2>1, SettlesShown DEF TypeOK
  <2>4. /\ clock[index] \in {"grace", "clearing", "announcing", "done"}
        /\ ~Queued("round_opened", index) /\ ~Queued("round_locked", index)
    BY <2>1 DEF HostInv, JobOK
  <2>5. index \in Unfinished /\ (\A i \in Queue : ~Ends(i)) /\ Unfinished' = Unfinished
    BY <2>1, <2>3, Running DEF Live, Unfinished
  <2>6. \A s \in RoundIDs : status'[s] \notin Live
    BY <2>1, <2>3, Running DEF Live
  <2>7. OneAtATime'
    <3>1. \A s \in Unfinished : s = index
      BY <2>5 DEF HostInv, OneAtATime
    <3>2. \A s \in announced : s # index /\ s \in RoundIDs /\ status[s] \in {"resolved", "refunded"}
      BY <2>5, Running DEF HostInv, OneAtATime, TypeOK
    <3>. QED
      BY <2>1, <2>2, <2>3, <2>5, <2>6, <3>1, <3>2 DEF OneAtATime
  <2>8. ClockOK'
    BY <2>1, <2>2, <2>3, <2>4 DEF HostInv, ClockOK
  <2>9. JobOK'
    BY <2>1, <2>2, <2>3, <2>5, Running DEF JobOK
  <2>10. OpeningsOK' /\ LocksOK'
    BY <2>1, <2>3, <2>4 DEF HostInv, OpeningsOK, LocksOK, Queued, Queue, Is
  <2>11. EndsOK'
    BY <2>1, <2>5 DEF EndsOK, Queue, Ends
  <2>12. ViewOK'
    <3>1. page[Host].phase \in Live => page[Host].round = index /\ index \notin announced
      BY <2>5, Running
    <3>2. page[Host].phase \in Live
      <4>1. ~(job[Host].at = "opening" /\ job[Host].round = index)
        BY <2>1
      <4>. QED
        BY <2>4, <2>5, <4>1 DEF HostInv, ViewOK
    <3>3. page[Host].phase = "locked" =>
            /\ clock[page[Host].round] \in {"grace", "clearing", "announcing", "done"}
            /\ ~Queued("round_opened", page[Host].round)
            /\ ~Queued("round_locked", page[Host].round)
      BY DEF HostInv, ViewOK
    <3>4. conn[Host] = "greeted" /\ (page[Host].phase \in Live => page[Host].round # None)
      BY DEF HostInv, ViewOK
    <3>. QED
      BY <2>1, <2>3, <3>1, <3>2, <3>3, <3>4 DEF ViewOK, Queued, Queue, Is, Ends
  <2>. QED
    BY <2>7, <2>8, <2>9, <2>10, <2>11, <2>12 DEF HostInv
<1>. QED
  BY <1>1, <1>2

\* The end of the round that runs reaches the queue of a page that shows it.
LEMMA EndKeeps ==
  ASSUME TypeOK, HostInv, NEW r \in Unfinished, status[r] \notin Live,
         NEW e \in Events, e.type \in {"round_resolved", "round_refunded"}, e.round = r,
         inbox'[Host] = Append(inbox[Host], e), announced' = announced \cup {r},
         UNCHANGED <<status, page, conn>>,
         \/ job'[Host].at = "idle"
         \/ job'[Host] = job[Host] /\ job[Host].at # "open" /\ status[r] = "refunded",
         \/ UNCHANGED clock
         \/ clock[r] = "announcing" /\ clock' = [clock EXCEPT ![r] = "done"],
         clock'[r] \notin {"clearing", "announcing"}
  PROVE  HostInv'
<1>1. /\ r \in RoundIDs /\ r \notin announced /\ status[r] # "none"
      /\ \A i \in Queue : ~Ends(i)
      /\ page[Host].phase \in Live /\ page[Host].round = r
  BY Running
<1>2. PICK n \in Nat :
        /\ Queue' = Queue \cup {n} /\ inbox'[Host][n] = e
        /\ \A i \in Queue : i \in Nat /\ i < n /\ inbox'[Host][i] = inbox[Host][i]
  BY QueueGrows
<1>3. /\ n \in Queue'
      /\ \A i \in Queue' : i \in Queue \/ i = n
      /\ \A i \in Queue : \A type, s : Is(i, type, s)' <=> Is(i, type, s)
      /\ \A i \in Queue : Ends(i)' <=> Ends(i)
      /\ \A s : ~Is(n, "round_opened", s)' /\ ~Is(n, "round_locked", s)'
      /\ Ends(n)'
  BY <1>2 DEF Is, Ends
<1>4. \A s : /\ Queued("round_opened", s)' <=> Queued("round_opened", s)
             /\ Queued("round_locked", s)' <=> Queued("round_locked", s)
  BY <1>2, <1>3 DEF Queued
<1>5. \A s \in RoundIDs : status[s] \notin Live
  <2>1. \A s \in RoundIDs : status[s] \in Live => s = r
    BY Running DEF HostInv, OneAtATime
  <2>. QED
    BY <2>1
<1>6. Unfinished' = {}
  BY <1>1 DEF HostInv, OneAtATime, Unfinished
<1>7. /\ \A s \in RoundIDs \ {r} : clock'[s] = clock[s]
      /\ clock'[r] = clock[r] \/ (clock[r] = "announcing" /\ clock'[r] = "done")
  <2>1. clock \in [RoundIDs -> Clocks]
    BY DEF TypeOK
  <2>2. CASE UNCHANGED clock
    BY <2>2
  <2>3. CASE clock[r] = "announcing" /\ clock' = [clock EXCEPT ![r] = "done"]
    BY <1>1, <2>1, <2>3
  <2>. QED
    BY <2>2, <2>3
<1>8. status[r] \in {"resolved", "refunded"}
  BY <1>1 DEF TypeOK, Live
<1>9. ~(job[Host].at = "opening" /\ job'[Host] = job[Host])
  <2>1. job[Host].at = "opening" => status[job[Host].round] = "open" /\ job[Host].round \in RoundIDs
    BY Running DEF HostInv, JobOK, TypeOK, Past
  <2>. QED
    BY <1>5, <2>1 DEF Live
<1>10. OneAtATime'
  BY <1>5, <1>6, <1>8 DEF HostInv, OneAtATime
<1>11. ClockOK'
  <2>1. \A s \in RoundIDs : clock[s] = "off" => status[s] = "none"
    <3>1. ASSUME NEW s \in RoundIDs, clock[s] = "off", status[s] # "none"  PROVE FALSE
      <4>1. job[Host].at = "opening" /\ job[Host].round = s
        BY <3>1 DEF HostInv, ClockOK
      <4>2. status[s] = "open"
        BY <4>1 DEF HostInv, JobOK
      <4>. QED
        BY <1>5, <4>2 DEF Live
    <3>. QED
      BY <3>1
  <2>. QED
    BY <1>1, <1>7, <1>8, <2>1 DEF HostInv, ClockOK
<1>12. JobOK'
  <2>1. CASE job'[Host].at = "idle"
    BY <2>1 DEF JobOK
  <2>2. CASE job'[Host] = job[Host] /\ job[Host].at # "open" /\ status[r] = "refunded"
    <3>1. job[Host].at # "opening"
      BY <1>9, <2>2
    <3>2. job[Host].at = "resolve" =>
            /\ job[Host].shown # None
            /\ clock'[job[Host].shown] \in {"grace", "clearing", "announcing", "done"}
            /\ ~Queued("round_opened", job[Host].shown)'
            /\ ~Queued("round_locked", job[Host].shown)'
      <4>1. job[Host].shown \in RoundIDs \cup {None}
        BY Running DEF TypeOK, Jobs
      <4>. QED
        BY <1>4, <1>7, <2>2, <4>1 DEF HostInv, JobOK
    <3>3. job[Host].at \notin {"clearing", "revealing"}
      <4>1. ASSUME job[Host].at \in {"clearing", "revealing"}  PROVE FALSE
        <5>1. /\ status[job[Host].round] = "resolved" /\ job[Host].round \notin announced
              /\ job[Host].round \in RoundIDs
          BY <4>1, Running DEF HostInv, JobOK, TypeOK, Past
        <5>2. job[Host].round = r
          BY <5>1 DEF HostInv, OneAtATime, Unfinished
        <5>. QED
          BY <2>2, <4>1, <5>1, <5>2
      <4>. QED
        BY <4>1
    <3>. QED
      BY <1>6, <2>2, <3>1, <3>2, <3>3 DEF JobOK
  <2>. QED
    BY <2>1, <2>2
<1>13. OpeningsOK' /\ LocksOK'
  <2>1. \A s \in RoundIDs : \A i \in Queue : ~Is(i, "round_opened", s) /\ ~Is(i, "round_locked", s)
    BY <1>5 DEF HostInv, OpeningsOK, LocksOK, Live
  <2>2. \A s : \A i \in Queue' : Is(i, "round_opened", s)' \/ Is(i, "round_locked", s)' => i \in Queue
    BY <1>3
  <2>3. \A s \in RoundIDs : \A i \in Queue' : ~Is(i, "round_opened", s)' /\ ~Is(i, "round_locked", s)'
    BY <1>3, <2>1, <2>2
  <2>. QED
    BY <2>3 DEF OpeningsOK, LocksOK
<1>14. EndsOK'
  BY <1>1, <1>2, <1>3, <1>6, <1>9 DEF EndsOK
<1>15. ViewOK'
  <2>1. page[Host].phase = "locked" => /\ clock'[r] \in {"grace", "clearing", "announcing", "done"}
                                      /\ ~Queued("round_opened", r)'
                                      /\ ~Queued("round_locked", r)'
    BY <1>1, <1>4, <1>7 DEF HostInv, ViewOK
  <2>2. conn[Host] = "greeted" /\ r # None
    BY <1>1 DEF HostInv, ViewOK
  <2>. QED
    BY <1>1, <1>3, <1>6, <2>1, <2>2 DEF ViewOK
<1>. QED
  BY <1>10, <1>11, <1>12, <1>13, <1>14, <1>15 DEF HostInv

\* The settlement is revealed.
LEMMA ResolveRevealsKeeps ==
  ASSUME TypeOK, HostInv, ResolveReveals
  PROVE  HostInv'
<1>. USE DEF room, server, browsers
<1>0. PICK r : r = job[Host].round
  OBVIOUS
<1>. DEFINE rows == [p \in Pages |-> Event("round_resolved", r, IF p \in Players THEN net[p] ELSE 0)]
            e == Event("round_resolved", r, 0)
<1>1. /\ job[Host].at = "revealing" /\ Broadcast(rows) /\ announced' = announced \cup {r}
      /\ Done(Host) /\ UNCHANGED <<status, clock, page, conn>>
  BY <1>0 DEF ResolveReveals, Handling
<1>2. Host \in Pages /\ r \in RoundIDs /\ status[r] = "resolved" /\ r \notin announced
  BY <1>0, <1>1, Running DEF TypeOK, Past, HostInv, JobOK
<1>3. r \in Unfinished /\ status[r] \notin Live
  BY <1>2 DEF Unfinished, Live
<1>4. job'[Host].at = "idle" /\ clock[r] \notin {"clearing", "announcing"}
  BY <1>1, <1>2, JobMoves, NoJobType DEF HostInv, ClockOK
<1>5. rows \in [Pages -> Events]
  <2>1. \A p \in Pages : (IF p \in Players THEN net[p] ELSE 0) \in Int
    BY DEF TypeOK
  <2>. QED
    BY <1>2, <2>1, EventTypes
<1>6. rows[Host] = e /\ e \in Events /\ e.type = "round_resolved" /\ e.round = r
  BY <1>2, EventTypes
<1>. HIDE DEF rows, e
<1>7. inbox'[Host] = Append(inbox[Host], e)
  BY <1>1, <1>2, <1>5, <1>6, BroadcastType DEF HostInv, ViewOK
<1>. QED
  BY <1>1, <1>3, <1>4, <1>6, <1>7, EndKeeps

\* The refund is announced.
LEMMA ClockAnnouncesRefundKeeps ==
  ASSUME TypeOK, HostInv, NEW r \in RoundIDs, ClockAnnouncesRefund(r)
  PROVE  HostInv'
<1>. USE DEF room, server, browsers
<1>. DEFINE e == Event("round_refunded", r, 0)
<1>1. /\ clock[r] = "announcing" /\ clock' = [clock EXCEPT ![r] = "done"]
      /\ ToAll(e) /\ announced' = announced \cup {r}
      /\ UNCHANGED <<status, job, page, conn>>
  BY DEF ClockAnnouncesRefund, Ticks
<1>2. status[r] = "refunded" /\ r \notin announced
  BY <1>1 DEF HostInv, ClockOK
<1>3. r \in Unfinished /\ status[r] \notin Live
  BY <1>2 DEF Unfinished, Live
<1>4. job[Host].at # "open" /\ clock'[r] = "done"
  BY <1>1, <1>3 DEF HostInv, JobOK, TypeOK
<1>5. e \in Events /\ e.type = "round_refunded" /\ e.round = r
  BY EventTypes
<1>. HIDE DEF e
<1>6. inbox'[Host] = Append(inbox[Host], e)
  BY <1>1, <1>5, Running, ToAllType DEF HostInv, ViewOK
<1>. QED
  BY <1>1, <1>2, <1>3, <1>4, <1>5, <1>6, EndKeeps

\* What is cleared, or is not, is the index of the only round that could need
\* it, which has ended.
LEMMA ClearKeeps ==
  ASSUME TypeOK, HostInv, NEW r \in Unfinished, status[r] \notin Live,
         UNCHANGED <<status, announced, inbox, page, conn>>,
         \/ job'[Host] = job[Host]
         \/ job[Host].at = "clearing" /\ job'[Host].at = "idle"
         \/ /\ job[Host].at = "clearing" /\ job'[Host].at = "revealing"
            /\ job'[Host].round = job[Host].round,
         \/ UNCHANGED clock
         \/ /\ clock[r] = "clearing"
            /\ \E c \in {"announcing", "done"} : clock' = [clock EXCEPT ![r] = c]
  PROVE  HostInv'
<1>1. r \in RoundIDs /\ status[r] # "none" /\ \A i \in Queue : ~Ends(i)
  BY Running
<1>2. \A s \in RoundIDs : status[s] \notin Live
  <2>1. \A s \in RoundIDs : status[s] \in Live => s = r
    BY Running DEF HostInv, OneAtATime
  <2>. QED
    BY <2>1
<1>3. \A s \in RoundIDs :
        clock'[s] = clock[s] \/ (clock[s] = "clearing" /\ clock'[s] \in {"announcing", "done"})
  <2>1. clock \in [RoundIDs -> Clocks]
    BY DEF TypeOK
  <2>. QED
    BY <1>1, <2>1
<1>4. Unfinished' = Unfinished /\ Queue' = Queue
      /\ \A i, type, s : (Is(i, type, s)' <=> Is(i, type, s)) /\ (Ends(i)' <=> Ends(i))
  BY DEF Unfinished, Queue, Is, Ends
<1>5. OneAtATime'
  BY <1>2, <1>4 DEF HostInv, OneAtATime
<1>6. job[Host].at # "opening"
  <2>1. job[Host].at = "opening" => status[job[Host].round] = "open" /\ job[Host].round \in RoundIDs
    BY Running DEF HostInv, JobOK, TypeOK, Past
  <2>. QED
    BY <1>2, <2>1 DEF Live
<1>7. ClockOK'
  BY <1>3, <1>6 DEF HostInv, ClockOK
<1>8. JobOK'
  <2>1. job'[Host].at = "resolve" =>
          /\ job'[Host].shown # None
          /\ \A s \in Unfinished : s = job'[Host].shown
          /\ clock'[job'[Host].shown] \in {"grace", "clearing", "announcing", "done"}
          /\ ~Queued("round_opened", job'[Host].shown)
          /\ ~Queued("round_locked", job'[Host].shown)
    <3>1. ASSUME job'[Host].at = "resolve"  PROVE job'[Host] = job[Host]
      BY <3>1
    <3>2. job[Host].shown \in RoundIDs \cup {None}
      BY Running DEF TypeOK, Jobs
    <3>. QED
      BY <1>3, <3>1, <3>2 DEF HostInv, JobOK
  <2>2. job'[Host].at = "open" => \A s \in Unfinished : status[s] \in Live
    BY DEF HostInv, JobOK
  <2>3. job'[Host].at \in {"clearing", "revealing"} =>
          status[job'[Host].round] = "resolved" /\ job'[Host].round \notin announced
    BY DEF HostInv, JobOK
  <2>. QED
    BY <1>4, <1>6, <2>1, <2>2, <2>3 DEF JobOK, Queued
<1>9. OpeningsOK' /\ LocksOK'
  <2>1. \A s \in RoundIDs : \A i \in Queue : ~Is(i, "round_opened", s) /\ ~Is(i, "round_locked", s)
    BY <1>2 DEF HostInv, OpeningsOK, LocksOK, Live
  <2>. QED
    BY <1>4, <2>1 DEF OpeningsOK, LocksOK
<1>10. EndsOK'
  BY <1>1, <1>4 DEF EndsOK
<1>11. ViewOK'
  <2>1. page[Host].phase \in Live => page[Host].round \in RoundIDs
    BY Running DEF HostInv, ViewOK
  <2>2. page[Host].phase = "locked" =>
          clock'[page[Host].round] \in {"grace", "clearing", "announcing", "done"}
    BY <1>3, <2>1 DEF HostInv, ViewOK, Live
  <2>. QED
    BY <1>4, <1>6, <2>2 DEF HostInv, ViewOK, Queued
<1>. QED
  BY <1>5, <1>7, <1>8, <1>9, <1>10, <1>11 DEF HostInv

\* The host's handler clears the index of what it settled.
LEMMA ResolveClearsKeeps ==
  ASSUME TypeOK, HostInv, ResolveClears \/ ResolveClearFails
  PROVE  HostInv'
<1>. USE DEF room, server, browsers
<1>0. PICK r : r = job[Host].round
  OBVIOUS
<1>1. /\ job[Host].at = "clearing" /\ (Moves(Host, "revealing") \/ Done(Host))
      /\ UNCHANGED <<status, clock, announced, inbox, page, conn>>
  BY DEF ResolveClears, ResolveClearFails, ClearFails, Handling
<1>2. r \in RoundIDs /\ status[r] = "resolved" /\ r \notin announced
  BY <1>0, <1>1, Running DEF TypeOK, Past, HostInv, JobOK
<1>3. r \in Unfinished /\ status[r] \notin Live
  BY <1>2 DEF Unfinished, Live
<1>4. \/ job'[Host].at = "idle"
      \/ job'[Host].at = "revealing" /\ job'[Host].round = job[Host].round
  BY <1>1, Running, JobMoves, NoJobType
<1>. QED
  BY <1>1, <1>3, <1>4, ClearKeeps

\* The clock clears the index of what it refunded.
LEMMA ClockClearsKeeps ==
  ASSUME TypeOK, HostInv, NEW r \in RoundIDs, ClockClears(r) \/ ClockClearFails(r)
  PROVE  HostInv'
<1>. USE DEF room, server, browsers
<1>1. /\ clock[r] = "clearing"
      /\ \E c \in {"announcing", "done"} : clock' = [clock EXCEPT ![r] = c]
      /\ UNCHANGED <<status, job, announced, inbox, page, conn>>
  BY DEF ClockClears, ClockClearFails, ClearFails, Ticks
<1>2. status[r] = "refunded" /\ r \notin announced
  BY <1>1 DEF HostInv, ClockOK
<1>3. r \in Unfinished /\ status[r] \notin Live
  BY <1>2 DEF Unfinished, Live
<1>. QED
  BY <1>1, <1>3, ClearKeeps

\* A round locks: its opening is still to be read, or has been.
LEMMA ClockLocksKeeps ==
  ASSUME TypeOK, HostInv, NEW r \in RoundIDs, ClockLocks(r)
  PROVE  HostInv'
<1>. USE DEF room, server, browsers
<1>1. clock[r] = "waiting" /\ status[r] = "open"
  BY DEF ClockLocks, Ticks, HostInv, ClockOK
<1>2. /\ clock' = [clock EXCEPT ![r] = "locking"] /\ status' = [status EXCEPT ![r] = "locked"]
      /\ UNCHANGED <<index, job, announced, inbox, page, conn>>
  BY <1>1 DEF ClockLocks, Ticks
<1>3. /\ clock'[r] = "locking" /\ status'[r] = "locked"
      /\ \A s \in RoundIDs \ {r} : clock'[s] = clock[s] /\ status'[s] = status[s]
  BY <1>2 DEF TypeOK
<1>4. Unfinished' = Unfinished /\ r \in Unfinished
  BY <1>1, <1>2, <1>3, Running DEF Unfinished, Live
<1>5. OneAtATime'
  <2>1. \A s \in announced : s \in RoundIDs /\ s # r
    BY <1>4, Running DEF TypeOK
  <2>2. \A s \in Unfinished : s = r
    BY <1>4 DEF HostInv, OneAtATime
  <2>. QED
    BY <1>1, <1>2, <1>3, <1>4, <2>1, <2>2 DEF HostInv, OneAtATime, Live
<1>6. ClockOK'
  BY <1>1, <1>2, <1>3 DEF HostInv, ClockOK
<1>7. JobOK'
  <2>1. job[Host].shown \in RoundIDs \cup {None} /\ (job[Host].at \in Past => job[Host].round \in RoundIDs)
    BY Running DEF TypeOK, Jobs
  <2>2. job[Host].at = "open" => \A s \in Unfinished : status'[s] \in Live
    <3>1. \A s \in Unfinished : s \in RoundIDs
      BY Running
    <3>. QED
      BY <1>3, <3>1 DEF HostInv, JobOK, Live
  <2>3. job[Host].at = "opening" => status'[job[Host].round] = "open" /\ clock'[job[Host].round] = "off"
    BY <1>1, <1>3, <2>1 DEF HostInv, JobOK, Past
  <2>4. job[Host].at = "resolve" => /\ job[Host].shown # None
                                   /\ clock'[job[Host].shown] \in {"grace", "clearing", "announcing", "done"}
    BY <1>1, <1>3, <2>1 DEF HostInv, JobOK
  <2>5. job[Host].at \in {"clearing", "revealing"} => status'[job[Host].round] = "resolved"
    BY <1>1, <1>3, <2>1 DEF HostInv, JobOK, Past
  <2>. QED
    BY <1>2, <1>4, <2>2, <2>3, <2>4, <2>5 DEF HostInv, JobOK, Queued, Queue, Is
<1>8. OpeningsOK'
  BY <1>1, <1>2, <1>3 DEF HostInv, OpeningsOK, Queue, Is, Live
<1>9. LocksOK'
  BY <1>1, <1>2, <1>3 DEF HostInv, LocksOK, Queue, Is, Live
<1>10. EndsOK'
  BY <1>2, <1>4 DEF HostInv, EndsOK, Queue, Ends
<1>11. ViewOK'
  <2>1. page[Host].phase \in Live => /\ page[Host].round \in RoundIDs
                                    /\ status'[page[Host].round] # "none"
    BY <1>3, Running DEF HostInv, ViewOK
  <2>2. page[Host].phase = "locked" => clock'[page[Host].round] \in {"grace", "clearing", "announcing", "done"}
    BY <1>1, <1>3, <2>1 DEF HostInv, ViewOK, Live
  <2>. QED
    BY <1>2, <1>4, <2>1, <2>2 DEF HostInv, ViewOK, Queued, Queue, Is, Ends
<1>. QED
  BY <1>5, <1>6, <1>7, <1>8, <1>9, <1>10, <1>11 DEF HostInv

\* A refund is not before the page has read of the lock: no opening and no
\* lock of the round is left to read.
LEMMA ClockRefundsKeeps ==
  ASSUME PromptPages, TypeOK, HostInv, NEW r \in RoundIDs, ClockRefunds(r)
  PROVE  HostInv'
<1>. USE DEF room, server, browsers
<1>1. /\ CaughtUpWith(r) /\ clock[r] = "grace"
      /\ \/ /\ status[r] = "locked" /\ clock' = [clock EXCEPT ![r] = "clearing"]
            /\ status' = [status EXCEPT ![r] = "refunded"]
         \/ /\ status[r] # "locked" /\ clock' = [clock EXCEPT ![r] = "done"]
            /\ UNCHANGED status
      /\ UNCHANGED <<index, job, announced, inbox, page, conn>>
  BY DEF ClockRefunds, Ticks
<1>2. /\ \/ status[r] = "locked" /\ clock'[r] = "clearing" /\ status'[r] = "refunded"
         \/ status[r] # "locked" /\ clock'[r] = "done" /\ status'[r] = status[r]
      /\ \A s \in RoundIDs \ {r} : clock'[s] = clock[s] /\ status'[s] = status[s]
  BY <1>1 DEF TypeOK
<1>3. job[Host].at # "open" /\ Unfinished' = Unfinished
  BY <1>1, <1>2 DEF CaughtUpWith, Unfinished
<1>4. ~Queued("round_locked", r) /\ ~Queued("round_opened", r)
  <2>1. \A i \in Queue : inbox[Host][i] # Event("round_locked", r, 0)
    BY <1>1, Running DEF CaughtUpWith, Queue
  <2>2. ASSUME NEW i \in Queue, Is(i, "round_locked", r)  PROVE FALSE
    <3>1. inbox[Host][i] \in Events /\ inbox[Host][i].n = 0
      BY <2>2, Running DEF TypeOK, HostInv, LocksOK, Queue
    <3>2. inbox[Host][i] \in RoundEvents
      BY <2>2, <3>1 DEF Events, Is
    <3>3. inbox[Host][i] = Event("round_locked", r, 0)
      BY <2>2, <3>1, <3>2 DEF RoundEvents, Is, Event
    <3>. QED
      BY <2>1, <3>3
  <2>3. ~Queued("round_locked", r)
    BY <2>2 DEF Queued
  <2>. QED
    BY <1>1, <2>2, <2>3 DEF HostInv, OpeningsOK, Queued
<1>5. OneAtATime'
  <2>1. \A s \in announced : s \in RoundIDs /\ (status[s] = "locked" => s # r)
    BY DEF TypeOK, HostInv, OneAtATime
  <2>2. status[r] = "locked" => r \notin announced
    BY DEF HostInv, OneAtATime
  <2>3. \A s \in Unfinished : s \in RoundIDs /\ (s # r => status'[s] = status[s] /\ clock'[s] = clock[s])
    BY <1>2 DEF Unfinished
  <2>. QED
    BY <1>1, <1>2, <1>3, <2>1, <2>2, <2>3 DEF HostInv, OneAtATime, Live
<1>6. ClockOK'
  <2>1. status[r] = "locked" => r \notin announced
    BY DEF HostInv, OneAtATime
  <2>. QED
    BY <1>1, <1>2, <2>1 DEF HostInv, ClockOK
<1>7. JobOK'
  <2>1. job[Host].shown \in RoundIDs \cup {None} /\ (job[Host].at \in Past => job[Host].round \in RoundIDs)
    BY Running DEF TypeOK, Jobs
  <2>2. job[Host].at = "opening" => status'[job[Host].round] = "open" /\ clock'[job[Host].round] = "off"
    BY <1>1, <1>2, <2>1 DEF HostInv, JobOK, Past
  <2>3. job[Host].at = "resolve" => /\ job[Host].shown # None
                                   /\ clock'[job[Host].shown] \in {"grace", "clearing", "announcing", "done"}
    BY <1>1, <1>2, <2>1 DEF HostInv, JobOK
  <2>4. job[Host].at \in {"clearing", "revealing"} => status'[job[Host].round] = "resolved"
    BY <1>1, <1>2, <2>1 DEF HostInv, JobOK, Past
  <2>. QED
    BY <1>1, <1>3, <2>2, <2>3, <2>4 DEF HostInv, JobOK, Queued, Queue, Is
<1>8. OpeningsOK'
  BY <1>1, <1>2, <1>4 DEF HostInv, OpeningsOK, Queued, Queue, Is
<1>9. LocksOK'
  BY <1>1, <1>2, <1>4 DEF HostInv, LocksOK, Queued, Queue, Is
<1>10. EndsOK'
  BY <1>1, <1>3 DEF HostInv, EndsOK, Queue, Ends
<1>11. ViewOK'
  <2>1. page[Host].phase \in Live => /\ page[Host].round \in RoundIDs
                                    /\ status'[page[Host].round] # "none"
    BY <1>2, Running DEF HostInv, ViewOK
  <2>2. page[Host].phase = "locked" => clock'[page[Host].round] \in {"grace", "clearing", "announcing", "done"}
    BY <1>1, <1>2, <2>1 DEF HostInv, ViewOK, Live
  <2>. QED
    BY <1>1, <1>3, <2>1, <2>2 DEF HostInv, ViewOK, Queued, Queue, Is, Ends
<1>. QED
  BY <1>5, <1>6, <1>7, <1>8, <1>9, <1>10, <1>11 DEF HostInv

\* The lock is announced once, to a page that shows the round or will.
LEMMA ClockAnnouncesLockKeeps ==
  ASSUME TypeOK, HostInv, NEW r \in RoundIDs, ClockAnnouncesLock(r)
  PROVE  HostInv'
<1>. USE DEF room, server, browsers
<1>. DEFINE e == Event("round_locked", r, 0)
<1>1. /\ clock[r] = "locking" /\ clock' = [clock EXCEPT ![r] = "grace"] /\ ToAll(e)
      /\ UNCHANGED <<status, index, job, announced, page, conn>>
  BY DEF ClockAnnouncesLock, Ticks
<1>2. /\ status[r] = "locked" /\ clock'[r] = "grace"
      /\ \A s \in RoundIDs \ {r} : clock'[s] = clock[s]
  BY <1>1 DEF HostInv, ClockOK, TypeOK
<1>3. e \in Events /\ e.type = "round_locked" /\ e.round = r /\ e.n = 0
  BY EventTypes
<1>. HIDE DEF e
<1>4. inbox'[Host] = Append(inbox[Host], e)
  BY <1>1, <1>3, Running, ToAllType DEF HostInv, ViewOK
<1>5. PICK n \in Nat :
        /\ Queue' = Queue \cup {n} /\ inbox'[Host][n] = e
        /\ \A i \in Queue : i \in Nat /\ i < n /\ inbox'[Host][i] = inbox[Host][i]
  BY <1>3, <1>4, QueueGrows
<1>6. /\ n \in Queue'
      /\ \A i \in Queue' : i \in Queue \/ i = n
      /\ \A i \in Queue : \A type, s : Is(i, type, s)' <=> Is(i, type, s)
      /\ \A i \in Queue : Ends(i)' <=> Ends(i)
      /\ \A type, s : Is(n, type, s)' <=> type = "round_locked" /\ s = r
      /\ ~Ends(n)'
  BY <1>3, <1>5 DEF Is, Ends
<1>7. /\ r \in Unfinished /\ \A i \in Queue : ~Ends(i)
      /\ page[Host].phase \in Live => page[Host].round = r
      /\ \A i \in Queue : ~Is(i, "round_locked", r)
  BY <1>1, <1>2, Running DEF Live, HostInv, LocksOK
<1>8. page[Host].phase \notin Live => Queued("round_opened", r)
  <2>1. ~(job[Host].at = "opening" /\ job[Host].round = r)
    BY <1>1 DEF HostInv, JobOK
  <2>. QED
    BY <1>7, <2>1 DEF HostInv, ViewOK
<1>9. OneAtATime'
  BY <1>1, <1>2 DEF HostInv, OneAtATime, Unfinished, Live
<1>10. ClockOK'
  BY <1>1, <1>2 DEF HostInv, ClockOK
<1>11. \A type, s : s # r \/ type # "round_locked" => (Queued(type, s)' <=> Queued(type, s))
  BY <1>5, <1>6 DEF Queued
<1>12. JobOK'
  <2>1. job[Host].shown \in RoundIDs \cup {None} /\ (job[Host].at \in Past => job[Host].round \in RoundIDs)
    BY Running DEF TypeOK, Jobs
  <2>2. job[Host].at = "opening" => status[job[Host].round] = "open" /\ clock'[job[Host].round] = "off"
    BY <1>1, <1>2, <2>1 DEF HostInv, JobOK, Past
  <2>3. job[Host].at = "resolve" =>
          /\ job[Host].shown # None /\ job[Host].shown # r
          /\ clock'[job[Host].shown] \in {"grace", "clearing", "announcing", "done"}
    BY <1>1, <1>2, <2>1 DEF HostInv, JobOK
  <2>4. job[Host].at = "open" => \A s \in Unfinished : status[s] \in Live
    BY DEF HostInv, JobOK
  <2>. QED
    BY <1>1, <1>11, <2>2, <2>3, <2>4 DEF HostInv, JobOK, Unfinished
<1>13. OpeningsOK'
  BY <1>1, <1>2, <1>5, <1>6 DEF HostInv, OpeningsOK
<1>14. LocksOK'
  <2>1. \A s \in RoundIDs : \A i \in Queue : Is(i, "round_locked", s) =>
          /\ inbox'[Host][i].n = 0 /\ s # r /\ status[s] = "locked" /\ clock'[s] = "grace"
          /\ \/ page[Host].phase \in Live /\ page[Host].round = s
             \/ \E k \in Queue : k < i /\ Is(k, "round_opened", s)
          /\ \A k \in Queue : Is(k, "round_locked", s) => k = i
    BY <1>2, <1>5, <1>7 DEF HostInv, LocksOK
  <2>2. \/ page[Host].phase \in Live /\ page[Host].round = r
        \/ \E k \in Queue : k < n /\ Is(k, "round_opened", r)
    BY <1>5, <1>7, <1>8 DEF Queued
  <2>. QED
    BY <1>1, <1>2, <1>3, <1>5, <1>6, <1>7, <2>1, <2>2 DEF LocksOK
<1>15. EndsOK'
  BY <1>6, <1>7 DEF EndsOK
<1>16. ViewOK'
  <2>1. page[Host].phase = "locked" => page[Host].round # r
    BY <1>1 DEF HostInv, ViewOK
  <2>2. page[Host].phase # "locked"
    BY <1>7, <2>1 DEF Live
  <2>3. r \notin announced
    BY <1>7, Running
  <2>. QED
    BY <1>1, <1>7, <1>11, <2>2, <2>3 DEF HostInv, ViewOK, Unfinished
<1>. QED
  BY <1>9, <1>10, <1>12, <1>13, <1>14, <1>15, <1>16 DEF HostInv

\* The page hears something else than an opening, a lock or an end.
LEMMA OtherKeeps ==
  ASSUME TypeOK, HostInv, NEW e \in Events, e.type \in {"odds_updated", "wager_accepted", "connected"},
         inbox'[Host] = Append(inbox[Host], e), job'[Host] = job[Host],
         UNCHANGED <<status, index, clock, announced, page, conn>>
  PROVE  HostInv'
<1>1. PICK n \in Nat :
        /\ Queue' = Queue \cup {n} /\ inbox'[Host][n] = e
        /\ \A i \in Queue : i \in Nat /\ i < n /\ inbox'[Host][i] = inbox[Host][i]
  BY QueueGrows
<1>2. /\ \A i \in Queue' : i \in Queue \/ i = n
      /\ \A i \in Queue : i \in Queue'
      /\ \A i \in Queue : \A type, s : Is(i, type, s)' <=> Is(i, type, s)
      /\ \A i \in Queue : Ends(i)' <=> Ends(i)
      /\ \A s : ~Is(n, "round_opened", s)' /\ ~Is(n, "round_locked", s)'
      /\ ~Ends(n)'
  BY <1>1 DEF Is, Ends
<1>3. \A s : /\ Queued("round_opened", s)' <=> Queued("round_opened", s)
             /\ Queued("round_locked", s)' <=> Queued("round_locked", s)
  BY <1>1, <1>2 DEF Queued
<1>4. OneAtATime' /\ ClockOK'
  BY DEF HostInv, OneAtATime, ClockOK, Unfinished
<1>5. JobOK'
  BY <1>3 DEF HostInv, JobOK, Unfinished
<1>6. OpeningsOK'
  BY <1>2 DEF HostInv, OpeningsOK
<1>7. LocksOK'
  <2>1. \A s \in RoundIDs : \A i \in Queue : Is(i, "round_locked", s) =>
          /\ inbox'[Host][i].n = 0 /\ status[s] = "locked" /\ clock[s] = "grace"
          /\ \/ page[Host].phase \in Live /\ page[Host].round = s
             \/ \E k \in Queue : k < i /\ Is(k, "round_opened", s)
          /\ \A k \in Queue : Is(k, "round_locked", s) => k = i
    <3>1. LocksOK /\ \A i \in Queue : inbox'[Host][i] = inbox[Host][i]
      BY <1>1 DEF HostInv
    <3>. QED
      BY <3>1 DEF LocksOK
  <2>. SUFFICES ASSUME NEW s \in RoundIDs, NEW i \in Queue', Is(i, "round_locked", s)'
                PROVE  /\ inbox'[Host][i].n = 0 /\ status'[s] = "locked" /\ clock'[s] = "grace"
                       /\ \/ page'[Host].phase \in Live /\ page'[Host].round = s
                          \/ \E k \in Queue' : k < i /\ Is(k, "round_opened", s)'
                       /\ \A k \in Queue' : Is(k, "round_locked", s)' => k = i
    BY DEF LocksOK
  <2>2. i \in Queue /\ Is(i, "round_locked", s)
    BY <1>2
  <2>3. \A k \in Queue' : Is(k, "round_locked", s)' => k = i
    BY <1>2, <2>1, <2>2
  <2>4. (\E k \in Queue : k < i /\ Is(k, "round_opened", s)) =>
          \E k \in Queue' : k < i /\ Is(k, "round_opened", s)'
    BY <1>2
  <2>. QED
    BY <2>1, <2>2, <2>3, <2>4
<1>8. EndsOK'
  <2>1. EndsOK /\ \A i \in Queue : inbox'[Host][i] = inbox[Host][i]
    BY <1>1 DEF HostInv
  <2>2. \A i \in Queue' : Ends(i)' => i \in Queue /\ Ends(i)
    BY <1>2
  <2>3. Unfinished' = Unfinished
    BY DEF Unfinished
  <2>. QED
    BY <2>1, <2>2, <2>3 DEF EndsOK
<1>9. ViewOK'
  BY <1>2, <1>3 DEF HostInv, ViewOK, Unfinished
<1>. QED
  BY <1>4, <1>5, <1>6, <1>7, <1>8, <1>9 DEF HostInv

\* The page reads the first event of its queue.  What it thinks of the rest is
\* left to show.
LEMMA ReadKeeps ==
  ASSUME TypeOK, HostInv, inbox[Host] # << >>, inbox'[Host] = Tail(inbox[Host]),
         UNCHANGED <<status, index, clock, job, announced, conn>>,
         \A r \in RoundIDs : \A i \in Queue \ {1} : Is(i, "round_locked", r) =>
           \/ page'[Host].phase \in Live /\ page'[Host].round = r
           \/ \E k \in Queue \ {1} : k < i /\ Is(k, "round_opened", r),
         \A i \in Queue \ {1} : Ends(i) =>
           page'[Host].phase \in Live /\ page'[Host].round = inbox[Host][i].round,
         page'[Host].phase \in Live =>
           /\ page'[Host].round # None
           /\ status[page'[Host].round] # "none"
           /\ page'[Host].round \in announced => \E i \in Queue \ {1} : Ends(i),
         page'[Host].phase = "locked" =>
           /\ clock[page'[Host].round] \in {"grace", "clearing", "announcing", "done"}
           /\ \A i \in Queue \ {1} : /\ ~Is(i, "round_opened", page'[Host].round)
                                     /\ ~Is(i, "round_locked", page'[Host].round),
         page'[Host].phase \notin Live =>
           \A r \in Unfinished : \/ \E i \in Queue \ {1} : Is(i, "round_opened", r)
                                 \/ job[Host].at = "opening" /\ job[Host].round = r
  PROVE  HostInv'
<1>1. /\ Queue \subseteq Nat \ {0} /\ Queue' \subseteq Nat
      /\ \A i \in Queue' : i + 1 \in Queue /\ inbox'[Host][i] = inbox[Host][i + 1]
      /\ \A i \in Queue \ {1} : i - 1 \in Queue' /\ inbox'[Host][i - 1] = inbox[Host][i]
  BY QueueShrinks
<1>2. ASSUME NEW i \in Queue'
      PROVE  /\ i \in Nat /\ i + 1 \in Queue \ {1} /\ inbox'[Host][i] = inbox[Host][i + 1]
             /\ \A type, s : Is(i, type, s)' <=> Is(i + 1, type, s)
             /\ Ends(i)' <=> Ends(i + 1)
  <2>1. i + 1 \in Queue /\ i \in Nat /\ i + 1 # 1
    <3>1. i + 1 \in Nat \ {0} /\ i \in Nat
      BY <1>1
    <3>2. i # 0
      <4>1. inbox[Host] \in Seq(Events) /\ inbox'[Host] \in Seq(Events)
        BY Running, QueueTail DEF TypeOK
      <4>2. Queue' = 1..Len(inbox'[Host]) /\ Len(inbox'[Host]) \in Nat
        BY <4>1 DEF Queue
      <4>. QED
        BY <4>2
    <3>. QED
      BY <1>1, <3>1, <3>2
  <2>. QED
    BY <1>1, <2>1 DEF Is, Ends
<1>3. ASSUME NEW i \in Queue \ {1}
      PROVE  /\ i \in Nat /\ i - 1 \in Queue' /\ inbox'[Host][i - 1] = inbox[Host][i]
             /\ \A type, s : Is(i - 1, type, s)' <=> Is(i, type, s)
             /\ Ends(i - 1)' <=> Ends(i)
  BY <1>1 DEF Is, Ends
<1>4. \A type, s : Queued(type, s)' <=> \E i \in Queue \ {1} : Is(i, type, s)
  <2>1. ASSUME NEW type, NEW s, NEW i \in Queue', Is(i, type, s)'
        PROVE  \E k \in Queue \ {1} : Is(k, type, s)
    BY <1>2, <2>1
  <2>2. ASSUME NEW type, NEW s, NEW i \in Queue \ {1}, Is(i, type, s)
        PROVE  \E k \in Queue' : Is(k, type, s)'
    BY <1>3, <2>2
  <2>. QED
    BY <2>1, <2>2 DEF Queued
<1>5. Unfinished' = Unfinished
  BY DEF Unfinished
<1>6. OneAtATime' /\ ClockOK'
  BY <1>5 DEF HostInv, OneAtATime, ClockOK
<1>7. JobOK'
  BY <1>4, <1>5 DEF HostInv, JobOK, Queued
<1>8. OpeningsOK'
  <2>. SUFFICES ASSUME NEW r \in RoundIDs, NEW i \in Queue', Is(i, "round_opened", r)'
                PROVE  /\ status[r] \in Live
                       /\ \/ clock[r] \in {"waiting", "locking"}
                          \/ \E k \in Queue' : k > i /\ Is(k, "round_locked", r)'
    BY DEF OpeningsOK
  <2>1. i \in Nat /\ i + 1 \in Queue /\ Is(i + 1, "round_opened", r)
    BY <1>2
  <2>2. ASSUME NEW k \in Queue, k > i + 1, Is(k, "round_locked", r)
        PROVE  \E j \in Queue' : j > i /\ Is(j, "round_locked", r)'
    <3>1. k \in Queue \ {1} /\ k \in Nat
      BY <1>1, <2>1, <2>2
    <3>2. k - 1 \in Queue' /\ Is(k - 1, "round_locked", r)' /\ k - 1 > i
      BY <1>3, <2>1, <2>2, <3>1
    <3>. QED
      BY <3>2
  <2>. QED
    BY <2>1, <2>2 DEF HostInv, OpeningsOK
<1>9. LocksOK'
  <2>. SUFFICES ASSUME NEW r \in RoundIDs, NEW i \in Queue', Is(i, "round_locked", r)'
                PROVE  /\ inbox'[Host][i].n = 0 /\ status[r] = "locked" /\ clock[r] = "grace"
                       /\ \/ page'[Host].phase \in Live /\ page'[Host].round = r
                          \/ \E k \in Queue' : k < i /\ Is(k, "round_opened", r)'
                       /\ \A k \in Queue' : Is(k, "round_locked", r)' => k = i
    BY DEF LocksOK
  <2>1. /\ i \in Nat /\ i + 1 \in Queue \ {1} /\ Is(i + 1, "round_locked", r)
        /\ inbox'[Host][i] = inbox[Host][i + 1]
    BY <1>2
  <2>2. ASSUME NEW k \in Queue \ {1}, k < i + 1, Is(k, "round_opened", r)
        PROVE  \E j \in Queue' : j < i /\ Is(j, "round_opened", r)'
    <3>1. k - 1 \in Queue' /\ Is(k - 1, "round_opened", r)' /\ k - 1 < i
      BY <1>3, <2>1, <2>2
    <3>. QED
      BY <3>1
  <2>3. ASSUME NEW k \in Queue', Is(k, "round_locked", r)'  PROVE k = i
    <3>1. k \in Nat /\ k + 1 \in Queue /\ Is(k + 1, "round_locked", r)
      BY <1>2, <2>3
    <3>2. k + 1 = i + 1
      BY <2>1, <3>1 DEF HostInv, LocksOK
    <3>. QED
      BY <2>1, <3>1, <3>2
  <2>4. inbox[Host][i + 1].n = 0 /\ status[r] = "locked" /\ clock[r] = "grace"
    BY <2>1 DEF HostInv, LocksOK
  <2>. QED
    BY <2>1, <2>2, <2>3, <2>4
<1>10. EndsOK'
  <2>. SUFFICES ASSUME NEW i \in Queue', Ends(i)'
                PROVE  /\ page'[Host].phase \in Live /\ page'[Host].round = inbox'[Host][i].round
                       /\ Unfinished = {}
                       /\ job[Host].at \notin {"open", "opening"}
                       /\ \A k \in Queue' : Ends(k)' => k = i
    BY <1>5 DEF EndsOK
  <2>1. /\ i \in Nat /\ i + 1 \in Queue \ {1} /\ Ends(i + 1)
        /\ inbox'[Host][i] = inbox[Host][i + 1]
    BY <1>2
  <2>2. ASSUME NEW k \in Queue', Ends(k)'  PROVE k = i
    <3>1. k \in Nat /\ k + 1 \in Queue /\ Ends(k + 1)
      BY <1>2, <2>2
    <3>2. k + 1 = i + 1
      BY <2>1, <3>1 DEF HostInv, EndsOK
    <3>. QED
      BY <2>1, <3>1, <3>2
  <2>. QED
    BY <2>1, <2>2 DEF HostInv, EndsOK
<1>11. ViewOK'
  <2>1. (\E i \in Queue \ {1} : Ends(i)) => \E i \in Queue' : Ends(i)'
    BY <1>3
  <2>. QED
    BY <1>4, <1>5, <2>1 DEF HostInv, ViewOK
<1>. QED
  BY <1>6, <1>7, <1>8, <1>9, <1>10, <1>11 DEF HostInv

\* What says nothing of how the round stands changes nothing of it.
LEMMA ReadsOther ==
  ASSUME TypeOK, HostInv, PageReceives(Host),
         inbox[Host][1].type \in {"odds_updated", "wager_accepted", "connected"}
  PROVE  HostInv'
<1>. USE DEF room, server, browsers
<1>1. /\ inbox[Host] # << >> /\ inbox'[Host] = Tail(inbox[Host])
      /\ page'[Host] = ReduceRound(page[Host], Head(inbox[Host]))
      /\ UNCHANGED <<status, index, clock, job, announced, conn>>
  BY Running DEF PageReceives, TypeOK
<1>2. /\ 1 \in Queue /\ Head(inbox[Host]) = inbox[Host][1] /\ inbox[Host][1] \in Events
      /\ page[Host] \in PageStates
  BY <1>1, Running, QueueShrinks DEF TypeOK
<1>3. page'[Host].phase = page[Host].phase /\ page'[Host].round = page[Host].round
  BY <1>1, <1>2, Reduced
<1>4. ~Ends(1) /\ \A r : ~Is(1, "round_opened", r) /\ ~Is(1, "round_locked", r)
  BY DEF Ends, Is
<1>5. \A r \in RoundIDs : \A i \in Queue \ {1} : Is(i, "round_locked", r) =>
        \/ page'[Host].phase \in Live /\ page'[Host].round = r
        \/ \E k \in Queue \ {1} : k < i /\ Is(k, "round_opened", r)
  BY <1>3, <1>4 DEF HostInv, LocksOK
<1>6. \A i \in Queue \ {1} : Ends(i) =>
        page'[Host].phase \in Live /\ page'[Host].round = inbox[Host][i].round
  BY <1>3 DEF HostInv, EndsOK
<1>7. page'[Host].phase \in Live =>
        /\ page'[Host].round # None
        /\ status[page'[Host].round] # "none"
        /\ page'[Host].round \in announced => \E i \in Queue \ {1} : Ends(i)
  BY <1>3, <1>4 DEF HostInv, ViewOK
<1>8. page'[Host].phase = "locked" =>
        /\ clock[page'[Host].round] \in {"grace", "clearing", "announcing", "done"}
        /\ \A i \in Queue \ {1} : /\ ~Is(i, "round_opened", page'[Host].round)
                                  /\ ~Is(i, "round_locked", page'[Host].round)
  BY <1>3 DEF HostInv, ViewOK, Queued
<1>9. page'[Host].phase \notin Live =>
        \A r \in Unfinished : \/ \E i \in Queue \ {1} : Is(i, "round_opened", r)
                              \/ job[Host].at = "opening" /\ job[Host].round = r
  BY <1>3, <1>4 DEF HostInv, ViewOK, Queued
<1>. QED
  BY <1>1, <1>5, <1>6, <1>7, <1>8, <1>9, ReadKeeps

\* An opening it reads is of the round that runs: the page shows it.
LEMMA ReadsOpening ==
  ASSUME TypeOK, HostInv, PageReceives(Host), inbox[Host][1].type = "round_opened"
  PROVE  HostInv'
<1>. USE DEF room, server, browsers
<1>1. /\ inbox[Host] # << >> /\ inbox'[Host] = Tail(inbox[Host])
      /\ page'[Host] = ReduceRound(page[Host], Head(inbox[Host]))
      /\ UNCHANGED <<status, index, clock, job, announced, conn>>
  BY Running DEF PageReceives, TypeOK
<1>2. /\ 1 \in Queue /\ Head(inbox[Host]) = inbox[Host][1] /\ inbox[Host][1] \in Events
      /\ page[Host] \in PageStates
  BY <1>1, Running, QueueShrinks DEF TypeOK
<1>3. PICK r \in RoundIDs : r = inbox[Host][1].round
  BY <1>2 DEF Events, RoundEvents
<1>4. page'[Host].phase = "open" /\ page'[Host].round = r
  BY <1>1, <1>2, <1>3, Reduced
<1>5. Is(1, "round_opened", r)
  BY <1>3 DEF Is
<1>6. /\ status[r] \in Live /\ r \in Unfinished /\ r # None /\ status[r] # "none" /\ r \notin announced
      /\ \A i \in Queue : ~Ends(i)
  <2>1. status[r] \in Live
    BY <1>2, <1>3, <1>5 DEF HostInv, OpeningsOK
  <2>. QED
    BY <1>3, <2>1, Running DEF RoundIDs
<1>7. \A s \in RoundIDs : \A i \in Queue : Is(i, "round_locked", s) => s = r
  <2>1. \A s \in RoundIDs : \A i \in Queue : Is(i, "round_locked", s) => status[s] \in Live
    BY DEF HostInv, LocksOK, Live
  <2>. QED
    BY <1>3, <1>6, <2>1, Running
<1>. QED
  BY <1>1, <1>4, <1>6, <1>7, ReadKeeps DEF Live

\* A lock it reads is of the round it shows, of which nothing but the end is
\* left to read.
LEMMA ReadsLock ==
  ASSUME TypeOK, HostInv, PageReceives(Host), inbox[Host][1].type = "round_locked"
  PROVE  HostInv'
<1>. USE DEF room, server, browsers
<1>1. /\ inbox[Host] # << >> /\ inbox'[Host] = Tail(inbox[Host])
      /\ page'[Host] = ReduceRound(page[Host], Head(inbox[Host]))
      /\ UNCHANGED <<status, index, clock, job, announced, conn>>
  BY Running DEF PageReceives, TypeOK
<1>2. /\ 1 \in Queue /\ Head(inbox[Host]) = inbox[Host][1] /\ inbox[Host][1] \in Events
      /\ page[Host] \in PageStates /\ Queue \subseteq Nat \ {0}
  BY <1>1, Running, QueueShrinks DEF TypeOK
<1>3. PICK r \in RoundIDs : r = inbox[Host][1].round
  BY <1>2 DEF Events, RoundEvents
<1>4. Is(1, "round_locked", r)
  BY <1>3 DEF Is
<1>5. /\ status[r] = "locked" /\ clock[r] = "grace"
      /\ \A i \in Queue : Is(i, "round_locked", r) => i = 1
      /\ \/ page[Host].phase \in Live /\ page[Host].round = r
         \/ \E k \in Queue : k < 1 /\ Is(k, "round_opened", r)
  <2>1. LocksOK /\ 1 \in Queue
    BY <1>2 DEF HostInv
  <2>. QED
    BY <1>4, <2>1 DEF LocksOK
<1>6. page[Host].round = r
  <2>1. ASSUME NEW k \in Queue  PROVE ~(k < 1)
    <3>1. k \in Nat \ {0}
      BY <1>2
    <3>. QED
      BY <3>1
  <2>. QED
    BY <1>5, <2>1
<1>7. page'[Host].phase = "locked" /\ page'[Host].round = r
  BY <1>1, <1>2, <1>3, <1>6, Reduced
<1>8. /\ r \in Unfinished /\ r # None /\ status[r] # "none" /\ r \notin announced
      /\ \A i \in Queue : ~Ends(i)
  BY <1>3, <1>5, Running DEF RoundIDs, Live
<1>9. \A s \in RoundIDs : \A i \in Queue \ {1} : ~Is(i, "round_locked", s)
  <2>1. \A s \in RoundIDs : \A i \in Queue : Is(i, "round_locked", s) => status[s] \in Live
    BY DEF HostInv, LocksOK, Live
  <2>2. \A s \in RoundIDs : status[s] \in Live => s = r
    BY <1>5, Running DEF Live
  <2>. QED
    BY <1>5, <2>1, <2>2
<1>10. \A i \in Queue : ~Is(i, "round_opened", r)
  <2>1. ASSUME NEW i \in Queue, Is(i, "round_opened", r)  PROVE FALSE
    <3>1. PICK k \in Queue : k > i /\ Is(k, "round_locked", r)
      BY <1>3, <1>5, <2>1 DEF HostInv, OpeningsOK
    <3>2. k = 1 /\ i \in Nat \ {0}
      BY <1>2, <1>5, <3>1
    <3>. QED
      BY <3>1, <3>2
  <2>. QED
    BY <2>1
<1>. QED
  BY <1>1, <1>5, <1>7, <1>8, <1>9, <1>10, ReadKeeps DEF Live

\* An end it reads is of the round it shows, and nothing runs.
LEMMA ReadsEnd ==
  ASSUME TypeOK, HostInv, PageReceives(Host),
         inbox[Host][1].type \in {"round_resolved", "round_refunded"}
  PROVE  HostInv'
<1>. USE DEF room, server, browsers
<1>1. /\ inbox[Host] # << >> /\ inbox'[Host] = Tail(inbox[Host])
      /\ page'[Host] = ReduceRound(page[Host], Head(inbox[Host]))
      /\ UNCHANGED <<status, index, clock, job, announced, conn>>
  BY Running DEF PageReceives, TypeOK
<1>2. /\ 1 \in Queue /\ Head(inbox[Host]) = inbox[Host][1] /\ inbox[Host][1] \in Events
      /\ page[Host] \in PageStates
  BY <1>1, Running, QueueShrinks DEF TypeOK
<1>3. Ends(1)
  BY DEF Ends
<1>4. /\ page[Host].round = inbox[Host][1].round /\ Unfinished = {}
      /\ \A i \in Queue : Ends(i) => i = 1
  BY <1>2, <1>3 DEF HostInv, EndsOK
<1>5. page'[Host].phase = "revealed"
  BY <1>1, <1>2, <1>4, Reduced
<1>6. \A r \in RoundIDs : status[r] \notin Live
  BY <1>4, Running
<1>7. \A r \in RoundIDs : \A i \in Queue : ~Is(i, "round_locked", r)
  BY <1>6 DEF HostInv, LocksOK, Live
<1>. QED
  BY <1>1, <1>4, <1>5, <1>7, ReadKeeps DEF Live

\* What the players do is heard by the host's page as odds.
LEMMA BetKeeps ==
  ASSUME TypeOK, HostInv, NEW p \in Players, PlayerAsksBet(p) \/ BetHandler(p)
  PROVE  HostInv'
<1>. USE DEF room, server, browsers
<1>1. p \in Pages /\ Host \in Pages /\ p # Host /\ job \in [Pages -> Jobs]
      /\ inbox \in [Pages -> Seq(Events)]
  BY DEF Pages, TypeOK
<1>2. CASE PlayerAsksBet(p)
  <2>1. UNCHANGED <<status, index, clock, announced, inbox, page, conn>>
    BY <1>2 DEF PlayerAsksBet, Ask
  <2>2. job'[Host] = job[Host]
    BY <1>1, <1>2 DEF PlayerAsksBet, Ask
  <2>. QED
    BY <2>1, <2>2, HostUntouched
<1>3. CASE BetPlaces(p)
  <2>1. UNCHANGED <<status, index, clock, announced, inbox, page, conn>>
    BY <1>3 DEF BetPlaces
  <2>2. job'[Host] = job[Host]
    BY <1>1, <1>3 DEF BetPlaces, Done
  <2>. QED
    BY <2>1, <2>2, HostUntouched
<1>4. CASE BetQuotes(p)
  <2>. DEFINE e == Event("odds_updated", job[p].round, job[p].said)
  <2>1. job[p].round \in RoundIDs /\ job[p].said \in Int
    <3>1. job[p].at = "quoting" /\ job[p].said \in Nat
      BY <1>1, <1>4 DEF BetQuotes, Handling, Jobs
    <3>. QED
      BY <1>1, <3>1 DEF TypeOK, Past
  <2>2. e \in Events /\ e.type = "odds_updated"
    BY <2>1, EventTypes
  <2>3. ToAll(e) /\ UNCHANGED <<status, index, clock, announced, page, conn>>
    BY <1>4 DEF BetQuotes
  <2>4. job'[Host] = job[Host]
    BY <1>1, <1>4 DEF BetQuotes, Moves
  <2>. HIDE DEF e
  <2>5. inbox'[Host] = Append(inbox[Host], e)
    BY <1>1, <2>2, <2>3, ToAllType DEF HostInv, ViewOK
  <2>. QED
    BY <2>2, <2>3, <2>4, <2>5, OtherKeeps
<1>5. CASE BetReplies(p)
  <2>1. UNCHANGED <<status, index, clock, announced, page, conn>>
    BY <1>5 DEF BetReplies
  <2>2. job'[Host] = job[Host]
    BY <1>1, <1>5 DEF BetReplies, Done
  <2>3. inbox'[Host] = inbox[Host]
    BY <1>1, <1>5 DEF BetReplies
  <2>. QED
    BY <2>1, <2>2, <2>3, HostUntouched
<1>. QED
  BY <1>2, <1>3, <1>4, <1>5 DEF BetHandler

\* The browsers, of which the host's is not reloaded.
LEMMA BrowserKeeps ==
  ASSUME Host \notin Reloaders, TypeOK, HostInv, NEW p \in Pages, Browser(p) \/ Reload(p)
  PROVE  HostInv'
<1>. USE DEF room, server, browsers
<1>1. CASE p = Host
  <2>1. PageReceives(Host)
    BY <1>1 DEF Browser, Rejoin, Greet, Reload, HostInv, ViewOK
  <2>2. inbox[Host][1].type \in {"connected", "round_opened", "odds_updated", "round_locked",
                                 "wager_accepted", "round_resolved", "round_refunded"}
    <3>1. inbox[Host] \in Seq(Events) /\ inbox[Host] # << >>
      BY <2>1, Running DEF PageReceives, TypeOK
    <3>2. inbox[Host][1] \in Events
      BY <3>1, QueueTail
    <3>. QED
      BY <3>2 DEF Events, RoundEvents
  <2>. QED
    BY <2>1, <2>2, ReadsOther, ReadsOpening, ReadsLock, ReadsEnd
<1>2. CASE p # Host
  <2>1. UNCHANGED <<status, index, clock, announced>>
    BY DEF Browser, PageReceives, Rejoin, Greet, Reload
  <2>2. inbox'[Host] = inbox[Host] /\ page'[Host] = page[Host] /\ conn'[Host] = conn[Host]
    <3>1. /\ Host \in DOMAIN inbox /\ Host \in DOMAIN page /\ Host \in DOMAIN conn
      BY Running DEF TypeOK
    <3>2. CASE PageReceives(p)
      BY <1>2, <3>1, <3>2 DEF PageReceives
    <3>3. CASE Rejoin(p)
      BY <1>2, <3>1, <3>3 DEF Rejoin
    <3>4. CASE Greet(p)
      BY <1>2, <3>1, <3>4 DEF Greet
    <3>5. CASE Reload(p)
      BY <1>2, <3>1, <3>5 DEF Reload
    <3>. QED
      BY <3>2, <3>3, <3>4, <3>5 DEF Browser
  <2>3. job'[Host] = job[Host]
    <3>1. CASE Browser(p)
      BY <3>1 DEF Browser, PageReceives, Rejoin, Greet
    <3>2. CASE Reload(p)
      BY <1>2, <3>2, Running DEF Reload, TypeOK
    <3>. QED
      BY <3>1, <3>2
  <2>. QED
    BY <2>1, <2>2, <2>3, HostUntouched
<1>. QED
  BY <1>1, <1>2

\* Nothing runs and nothing is shown.
LEMMA HostInit == Init => HostInv
BY NoJobType DEF Init, HostInv, OneAtATime, ClockOK, JobOK, OpeningsOK, LocksOK, EndsOK, ViewOK,
   Unfinished, Queue, Queued, Is, Ends, Live, InitialPage, Pages

\* Every step keeps it, unless the host's page is reloaded or a refund comes
\* before the page has read of the lock.
LEMMA HostStep ==
  ASSUME PromptPages, Host \notin Reloaders, TypeOK, HostInv, [Next]_vars
  PROVE  HostInv'
<1>1. CASE UNCHANGED vars
  BY <1>1, HostUntouched DEF vars, room, server, browsers
<1>2. CASE HostAsksOpen \/ HostAsksResolve \/ HostHandler \/ ResolveClearFails
  BY <1>2, AskOpenKeeps, AskResolveKeeps, OpenCreatesKeeps, OpenAnnouncesKeeps,
     ResolveSettlesKeeps, ResolveClearsKeeps, ResolveRevealsKeeps DEF HostHandler
<1>3. ASSUME NEW r \in RoundIDs, Clock(r) \/ ClockClearFails(r)  PROVE HostInv'
  BY <1>3, ClockLocksKeeps, ClockAnnouncesLockKeeps, ClockRefundsKeeps, ClockClearsKeeps,
     ClockAnnouncesRefundKeeps DEF Clock
<1>. QED
  BY <1>1, <1>2, <1>3, BetKeeps, BrowserKeeps DEF Next

\* Only the host's handler settles, and only what the page showed.
LEMMA HostSettles ==
  ASSUME TypeOK, HostInv, [Next]_vars, NEW r \in RoundIDs,
         status[r] # "resolved", status'[r] = "resolved"
  PROVE  job[Host].shown = r
<1>. USE DEF room, server, browsers
<1>1. CASE ResolveSettles
  <2>1. ~(Done(Host) /\ UNCHANGED room)
    OBVIOUS
  <2>2. index = job[Host].shown /\ status' = [status EXCEPT ![index] = "resolved"]
    BY <1>1, <2>1, SettlesShown
  <2>. QED
    BY <2>2 DEF TypeOK
<1>2. CASE UNCHANGED vars
  BY <1>2 DEF vars
<1>3. CASE \/ HostAsksOpen \/ HostAsksResolve \/ OpenCreates \/ OpenAnnounces
           \/ ResolveClears \/ ResolveClearFails \/ ResolveReveals
  BY <1>3 DEF HostAsksOpen, HostAsksResolve, Ask, OpenCreates, OpenAnnounces,
              ResolveClears, ResolveClearFails, ClearFails, ResolveReveals, TypeOK
<1>4. ASSUME NEW p \in Players, PlayerAsksBet(p) \/ BetHandler(p)  PROVE FALSE
  BY <1>4 DEF PlayerAsksBet, Ask, BetHandler, BetPlaces, BetQuotes, BetReplies
<1>5. ASSUME NEW s \in RoundIDs, Clock(s) \/ ClockClearFails(s)  PROVE FALSE
  BY <1>5 DEF Clock, ClockLocks, ClockAnnouncesLock, ClockRefunds, ClockClears, ClockClearFails,
              ClearFails, ClockAnnouncesRefund, TypeOK
<1>6. ASSUME NEW p \in Pages, Browser(p) \/ Reload(p)  PROVE FALSE
  BY <1>6 DEF Browser, PageReceives, Rejoin, Greet, Reload
<1>. QED
  BY <1>1, <1>2, <1>3, <1>4, <1>5, <1>6 DEF Next, HostHandler

(***************************************************************************)
(* A request to resolve names no round.  Whatever the players, clocks and  *)
(* reloaded player pages do meanwhile, the round it settles is the one the *)
(* host's page showed when the host answered, provided that page is not    *)
(* reloaded and no lock or request is older than RefundGrace               *)
(* (HostConsole.tsx, roundState.ts, round/service.go Resolve).             *)
(***************************************************************************)
THEOREM SettlesCorrect ==
  PromptPages /\ Host \notin Reloaders => (Spec => SettlesWhatTheHostSaw)
<1>. SUFFICES ASSUME PromptPages, Host \notin Reloaders
              PROVE  Spec => SettlesWhatTheHostSaw
  OBVIOUS
<1>. DEFINE Settles == \A r \in RoundIDs :
                         status[r] # "resolved" /\ status'[r] = "resolved" => job[Host].shown = r
<1>1. TypeOK /\ HostInv /\ [Next]_vars => HostInv'
  BY HostStep
<1>2. TypeOK /\ HostInv /\ [Next]_vars => [Settles]_vars
  BY HostSettles
<1>. QED
  BY <1>1, <1>2, HostInit, TypeCorrect, PTL DEF Spec, SettlesWhatTheHostSaw
-----------------------------------------------------------------------------
(***************************************************************************)
(* The balance.  A page is not what counts, but what it will be once it    *)
(* has read what is on its way: that shows, or keeps for the end of the    *)
(* round that runs, what the wallet was before the round's stakes.         *)
(***************************************************************************)

\* g[i] is the page once it has read the first i events of its queue.
Reads(p, g) ==
  /\ g \in [0..Len(inbox[p]) -> PageStates]
  /\ g[0] = page[p]
  /\ \A i \in 1..Len(inbox[p]) : g[i] = ReduceRound(g[i - 1], inbox[p][i])

\* v is what it shows once it has read them all.
Expects(p, v) == \E g : Reads(p, g) /\ v = g[Len(inbox[p])]

\* The page shows no round and is not about to.
Unseen(p) ==
  /\ page[p].round = None
  /\ \A i \in DOMAIN inbox[p] : inbox[p][i].type # "round_opened"

\* No answer to p's wager will be heard by its page.
Silent(p) == job[p].at = "idle" \/ job[p].lost

\* Round u is created and the room has not heard of it.
Opening(u) == job[Host].at = "opening" /\ job[Host].round = u

\* The wallet p had, or would have, without its stake in a round that has
\* begun and not been heard to end.
Before(u, p) ==
  CASE status[u] \in Live -> wallet[p] + staked[u][p]
    [] status[u] = "resolved" -> wallet[p] - net[p]
    [] OTHER -> wallet[p]

\* Stakes and nets are of rounds that have begun, and a wager is of something.
StakesOK ==
  /\ \A r \in RoundIDs : \A p \in Players :
       /\ status[r] = "none" => staked[r][p] = 0
       /\ status[r] = "resolved" /\ r \notin announced /\ staked[r][p] = 0 => net[p] = 0
  /\ \A p \in Players :
       /\ job[p].at = "bet" => job[p].amount # 0
       /\ job[p].at \in {"quoting", "replying"} =>
            status[job[p].round] # "none" /\ staked[job[p].round][p] # 0
       /\ page[p].phase = "open" => page[p].round # None

\* A page that hears of rounds hears of each: what it will show is the round
\* that runs, unless that is yet to be announced or it will show none at all.
Sees(p, v) ==
  /\ v.round # None => /\ status[v.round] # "none" /\ ~Opening(v.round)
                       /\ \A u \in Unfinished : v.round = u \/ Opening(u)
  /\ v.round = None => v.atOpen = None /\ Silent(p) /\ Unseen(p)
  /\ Unseen(p) => v.round = None
  /\ conn[p] = "away" => v.round = None

\* What it will show is, or was when the round that runs opened, what the
\* wallet is or was without the stake.
Owes(p, v) ==
  conn[p] = "greeted" /\ missed[p] = "nothing" =>
    /\ v.known
    /\ Unfinished = {} => v.balance = wallet[p]
    /\ \A u \in Unfinished :
         /\ v.round = u => v.atOpen = Before(u, p)
         /\ v.round # u \/ staked[u][p] = 0 => v.balance = Before(u, p)

\* There is for each player one thing its page will show that is so.
PageInv == \A p \in Players : \E v \in PageStates : Expects(p, v) /\ Sees(p, v) /\ Owes(p, v)

\* What reduceRound does to the balance and what it is reckoned from.
LEMMA ReducedBalance ==
  ASSUME NEW s \in PageStates, NEW e \in Events, NEW w, w = ReduceRound(s, e)
  PROVE  /\ e.type = "connected" =>
              w.round = s.round /\ w.atOpen = s.atOpen /\ w.balance = e.n /\ w.known
         /\ e.type = "round_opened" =>
              w.round = e.round /\ w.atOpen = s.balance /\ w.balance = s.balance /\ w.known = s.known
         /\ e.type \in {"odds_updated", "round_locked"} =>
              w.round = s.round /\ w.atOpen = s.atOpen /\ w.balance = s.balance /\ w.known = s.known
         /\ e.type = "wager_accepted" =>
              /\ w.round = s.round /\ w.atOpen = s.atOpen /\ w.known = s.known
              /\ s.round # None /\ s.round # e.round => w.balance = s.balance
         /\ e.type \in {"round_resolved", "round_refunded"} =>
              /\ w.round = s.round /\ w.atOpen = s.atOpen /\ w.known = s.known
              /\ s.round = None \/ s.round = e.round =>
                   w.balance = BalanceAtOpen(s) + (IF s.known /\ e.type = "round_resolved" THEN e.n ELSE 0)
<1>. USE DEF PageStates
<1>0. /\ e.n \in Int
      /\ e.type # "connected" => e.round \in RoundIDs
      /\ e.type \in {"connected", "round_opened", "odds_updated", "round_locked",
                     "wager_accepted", "round_resolved", "round_refunded"}
  BY DEF Events, RoundEvents
<1>b. BalanceAtOpen(s) \in Int
  BY DEF BalanceAtOpen
<1>1. CASE e.type = "connected"
  BY <1>0, <1>1 DEF ReduceRound
<1>2. CASE e.type = "round_opened"
  BY <1>0, <1>2 DEF ReduceRound, OnOpened
<1>3. CASE e.type = "odds_updated"
  BY <1>0, <1>3 DEF ReduceRound, OnOdds, IsStale
<1>4. CASE e.type = "round_locked"
  BY <1>0, <1>4 DEF ReduceRound, IsStale
<1>5. CASE e.type = "wager_accepted"
  BY <1>0, <1>5 DEF ReduceRound, IsStale
<1>6. CASE e.type = "round_resolved"
  <2>. DEFINE b == BalanceAtOpen(s) + (IF s.known THEN e.n ELSE 0)
  <2>1. ReduceRound(s, e) = IF IsStale(s, e) THEN s ELSE [s EXCEPT !.phase = "revealed", !.balance = b]
    BY <1>6 DEF ReduceRound, OnResolved
  <2>2. b = BalanceAtOpen(s) + (IF s.known /\ e.type = "round_resolved" THEN e.n ELSE 0)
    BY <1>6
  <2>. HIDE DEF b
  <2>. QED
    BY <1>6, <2>1, <2>2 DEF IsStale
<1>7. CASE e.type = "round_refunded"
  <2>1. ReduceRound(s, e) = IF IsStale(s, e) THEN s
                            ELSE [s EXCEPT !.phase = "revealed", !.balance = BalanceAtOpen(s)]
    BY <1>7 DEF ReduceRound, OnRefunded
  <2>. QED
    BY <1>b, <1>7, <2>1 DEF IsStale
<1>. QED
  BY <1>0, <1>1, <1>2, <1>3, <1>4, <1>5, <1>6, <1>7

\* A page that has read everything is what it will be.
LEMMA ExpectsNow ==
  ASSUME NEW p \in Pages, inbox[p] = << >>
  PROVE  \A v : Expects(p, v) => v = page[p]
BY DEF Expects, Reads

\* Nothing came and nothing was read.
LEMMA ExpectsSame ==
  ASSUME NEW p \in Pages, inbox'[p] = inbox[p], page'[p] = page[p], NEW v, Expects(p, v)
  PROVE  Expects(p, v)' /\ (Unseen(p)' <=> Unseen(p))
BY DEF Expects, Reads, Unseen

\* One more event to read.
LEMMA ExpectsMore ==
  ASSUME TypeOK, NEW p \in Pages, NEW e \in Events, inbox'[p] = Append(inbox[p], e),
         page'[p] = page[p], NEW v \in PageStates, Expects(p, v),
         NEW w, w = ReduceRound(v, e)
  PROVE  /\ w \in PageStates /\ Expects(p, w)'
         /\ Unseen(p)' <=> Unseen(p) /\ e.type # "round_opened"
<1>0. inbox[p] \in Seq(Events) /\ w \in PageStates
  BY Reduced DEF TypeOK
<1>1. PICK g : Reads(p, g) /\ v = g[Len(inbox[p])]
  BY DEF Expects
<1>2. PICK n \in Nat : n = Len(inbox[p])
  BY <1>0
<1>3. /\ Len(inbox'[p]) = n + 1 /\ DOMAIN inbox[p] = 1..n /\ DOMAIN inbox'[p] = 1..(n + 1)
      /\ \A i \in 1..n : inbox'[p][i] = inbox[p][i]
      /\ inbox'[p][n + 1] = e
  BY <1>0, <1>2, QueueAppend
<1>. DEFINE h == [i \in 0..(n + 1) |-> IF i = n + 1 THEN w ELSE g[i]]
<1>4. /\ g \in [0..n -> PageStates] /\ g[0] = page[p] /\ v = g[n]
      /\ \A i \in 1..n : g[i] = ReduceRound(g[i - 1], inbox[p][i])
  BY <1>1, <1>2 DEF Reads
<1>5. h \in [0..(n + 1) -> PageStates] /\ h[0] = page[p] /\ h[n + 1] = w
      /\ \A i \in 0..n : h[i] = g[i]
  BY <1>0, <1>2, <1>4
<1>. HIDE DEF h
<1>6. ASSUME NEW i \in 1..(n + 1)  PROVE h[i] = ReduceRound(h[i - 1], inbox'[p][i])
  <2>1. CASE i = n + 1
    <3>1. i - 1 = n /\ n \in 0..n
      BY <1>2, <2>1
    <3>. QED
      BY <1>3, <1>4, <1>5, <2>1, <3>1
  <2>2. CASE i # n + 1
    <3>1. i \in 1..n /\ i \in 0..n /\ i - 1 \in 0..n
      BY <1>2, <2>2
    <3>. QED
      BY <1>3, <1>4, <1>5, <3>1
  <2>. QED
    BY <2>1, <2>2
<1>7. Expects(p, w)'
  BY <1>3, <1>5, <1>6 DEF Expects, Reads
<1>8. Unseen(p)' <=> Unseen(p) /\ e.type # "round_opened"
  <2>1. n + 1 \in 1..(n + 1) /\ \A i \in 1..(n + 1) : i \in 1..n \/ i = n + 1
    BY <1>2
  <2>2. \A i \in 1..n : i \in 1..(n + 1)
    BY <1>2
  <2>. QED
    BY <1>3, <2>1, <2>2 DEF Unseen
<1>. QED
  BY <1>0, <1>7, <1>8

\* Reading changes nothing of what the page is going to be.
LEMMA ExpectsRead ==
  ASSUME TypeOK, NEW p \in Pages, inbox[p] # << >>, inbox'[p] = Tail(inbox[p]),
         page'[p] = ReduceRound(page[p], Head(inbox[p])), NEW v, Expects(p, v)
  PROVE  Expects(p, v)' /\ (Unseen(p)' <=> Unseen(p))
<1>0. inbox[p] \in Seq(Events) /\ page[p] \in PageStates
  BY DEF TypeOK
<1>1. PICK g : Reads(p, g) /\ v = g[Len(inbox[p])]
  BY DEF Expects
<1>2. PICK n \in Nat \ {0} : n = Len(inbox[p])
  BY <1>0
<1>3. /\ Len(inbox'[p]) = n - 1 /\ DOMAIN inbox[p] = 1..n /\ DOMAIN inbox'[p] = 1..(n - 1)
      /\ \A i \in 1..(n - 1) : inbox'[p][i] = inbox[p][i + 1]
      /\ Head(inbox[p]) = inbox[p][1] /\ inbox[p][1] \in Events
  BY <1>0, <1>2, QueueTail
<1>. DEFINE h == [i \in 0..(n - 1) |-> g[i + 1]]
<1>4. /\ g \in [0..n -> PageStates] /\ g[0] = page[p] /\ v = g[n]
      /\ \A i \in 1..n : g[i] = ReduceRound(g[i - 1], inbox[p][i])
  BY <1>1, <1>2 DEF Reads
<1>5. ASSUME NEW i \in 0..(n - 1)  PROVE h[i] = g[i + 1] /\ i + 1 \in 0..n /\ i + 1 \in 1..n
  BY <1>2
<1>6. h \in [0..(n - 1) -> PageStates]
  <2>1. \A i \in 0..(n - 1) : g[i + 1] \in PageStates
    BY <1>4, <1>5
  <2>. QED
    BY <2>1
<1>7. h[0] = page'[p] /\ h[n - 1] = v
  <2>1. 0 \in 0..(n - 1) /\ n - 1 \in 0..(n - 1) /\ 0 + 1 = 1 /\ (n - 1) + 1 = n /\ 1 \in 1..n /\ 1 - 1 = 0
    BY <1>2
  <2>2. h[0] = g[1] /\ h[n - 1] = g[n]
    BY <1>5, <2>1
  <2>3. g[1] = ReduceRound(g[0], inbox[p][1])
    BY <1>4, <2>1
  <2>. QED
    BY <1>3, <1>4, <2>2, <2>3
<1>8. ASSUME NEW i \in 1..(n - 1)  PROVE h[i] = ReduceRound(h[i - 1], inbox'[p][i])
  <2>1. i \in 0..(n - 1) /\ i - 1 \in 0..(n - 1) /\ (i - 1) + 1 = i /\ (i + 1) - 1 = i /\ i + 1 \in 1..n
    BY <1>2
  <2>2. h[i] = g[i + 1] /\ h[i - 1] = g[i]
    BY <1>5, <2>1
  <2>3. g[i + 1] = ReduceRound(g[i], inbox[p][i + 1])
    BY <1>4, <2>1
  <2>. QED
    BY <1>3, <2>2, <2>3
<1>. HIDE DEF h
<1>9. Expects(p, v)'
  BY <1>3, <1>6, <1>7, <1>8 DEF Expects, Reads
<1>10. Unseen(p)' <=> Unseen(p)
  <2>1. CASE inbox[p][1].type = "round_opened"
    <3>1. page'[p].round \in RoundIDs
      <4>1. inbox[p][1].round \in RoundIDs
        BY <1>3, <2>1 DEF Events, RoundEvents
      <4>2. page'[p] = ReduceRound(page[p], inbox[p][1])
        BY <1>3
      <4>3. ReduceRound(page[p], inbox[p][1]).round = inbox[p][1].round
        BY <1>0, <1>3, <2>1, Reduced
      <4>. QED
        BY <4>1, <4>2, <4>3
    <3>2. page'[p].round # None
      BY <3>1 DEF RoundIDs
    <3>3. 1 \in 1..n
      BY <1>2
    <3>. QED
      BY <1>3, <2>1, <3>2, <3>3 DEF Unseen
  <2>2. CASE inbox[p][1].type # "round_opened"
    <3>1. page'[p].round = page[p].round
      <4>1. /\ page[p] \in PageStates /\ inbox[p][1] \in Events
            /\ page'[p] = ReduceRound(page[p], inbox[p][1])
        BY <1>0, <1>3
      <4>. QED
        BY <2>2, <4>1, Reduced
    <3>2. \A i \in 1..(n - 1) : i + 1 \in 1..n
      BY <1>2
    <3>3. ASSUME NEW i \in 1..n, i # 1  PROVE i - 1 \in 1..(n - 1) /\ (i - 1) + 1 = i
      BY <1>2, <3>3
    <3>4. (\A i \in 1..(n - 1) : inbox'[p][i].type # "round_opened")
            <=> \A i \in 1..n : inbox[p][i].type # "round_opened"
      <4>1. ASSUME \A i \in 1..(n - 1) : inbox'[p][i].type # "round_opened", NEW i \in 1..n
            PROVE  inbox[p][i].type # "round_opened"
        <5>1. CASE i = 1
          BY <2>2, <5>1
        <5>2. CASE i # 1
          <6>1. inbox'[p][i - 1] = inbox[p][i] /\ i - 1 \in 1..(n - 1)
            BY <1>3, <3>3, <5>2
          <6>. QED
            BY <4>1, <6>1
        <5>. QED
          BY <5>1, <5>2
      <4>2. ASSUME \A i \in 1..n : inbox[p][i].type # "round_opened", NEW i \in 1..(n - 1)
            PROVE  inbox'[p][i].type # "round_opened"
        BY <1>3, <3>2, <4>2
      <4>. QED
        BY <4>1, <4>2
    <3>. QED
      BY <1>3, <3>1, <3>4 DEF Unseen
  <2>. QED
    BY <2>1, <2>2
<1>. QED
  BY <1>9, <1>10

\* A page that was just loaded.
LEMMA ExpectsReset ==
  ASSUME NEW p \in Pages, inbox'[p] = << >>, page'[p] \in PageStates, NEW v, v = page'[p]
  PROVE  Expects(p, v)'
<1>. DEFINE h == [i \in 0..0 |-> v]
<1>1. Len(inbox'[p]) = 0
  OBVIOUS
<1>2. h \in [0..0 -> PageStates] /\ h[0] = v /\ \A i \in 1..0 : FALSE
  OBVIOUS
<1>. HIDE DEF h
<1>. QED
  BY <1>1, <1>2 DEF Expects, Reads

\* Steps that leave p what it had without its stake, and tell its page nothing
\* of a balance or a round.
LEMMA Stays ==
  ASSUME NEW p \in Players, NEW v, NEW w, Sees(p, v), Owes(p, v), Expects(p, w)',
         w.round = v.round, w.balance = v.balance, w.atOpen = v.atOpen, w.known = v.known,
         Unseen(p)' <=> Unseen(p),
         conn'[p] = "away" => conn[p] = "away",
         conn'[p] = "greeted" => conn[p] = "greeted",
         missed'[p] = "nothing" => missed[p] = "nothing",
         v.round \in RoundIDs \cup {None}, Unfinished \subseteq RoundIDs,
         \A r \in RoundIDs : status[r] # "none" => status'[r] # "none",
         \A r \in RoundIDs : Opening(r)' <=> Opening(r),
         v.round = None /\ Silent(p) => Silent(p)',
         Unfinished' = Unfinished,
         Unfinished = {} => wallet'[p] = wallet[p],
         \A u \in Unfinished : /\ Before(u, p)' = Before(u, p)
                               /\ staked'[u][p] = 0 => staked[u][p] = 0
  PROVE  Expects(p, w)' /\ Sees(p, w)' /\ Owes(p, w)'
<1>1. Sees(p, w)'
  BY DEF Sees
<1>2. Owes(p, w)'
  BY DEF Owes
<1>. QED
  BY <1>1, <1>2

\* What the host's invariant says of the rounds that run.
LEMMA Runs ==
  ASSUME TypeOK, HostInv
  PROVE  /\ Unfinished \subseteq RoundIDs
         /\ \A u, r \in Unfinished : u = r
         /\ \A u \in Unfinished : u \notin announced /\ status[u] \in {"open", "locked", "resolved", "refunded"}
         /\ \A r \in RoundIDs : status[r] \in Live => r \in Unfinished
         /\ \A u \in RoundIDs : Opening(u) => status[u] = "open"
         /\ job[Host].at = "opening" => job[Host].round \in RoundIDs
<1>1. \A r \in RoundIDs : status[r] \in Live => r \in Unfinished
  BY Running
<1>2. job[Host].at = "opening" => job[Host].round \in RoundIDs
  BY Running DEF TypeOK, Past
<1>3. \A u \in RoundIDs : Opening(u) => status[u] = "open"
  BY DEF HostInv, JobOK, Opening
<1>4. \A u, r \in Unfinished : u = r
  BY DEF HostInv, OneAtATime
<1>5. \A u \in Unfinished : u \notin announced /\ status[u] \in {"open", "locked", "resolved", "refunded"}
  BY DEF Unfinished, TypeOK
<1>. QED
  BY <1>1, <1>2, <1>3, <1>4, <1>5 DEF Unfinished

\* The console's requests.
LEMMA AskOwes ==
  ASSUME TypeOK, HostInv, PageInv, HostAsksOpen \/ HostAsksResolve
  PROVE  PageInv'
<1>. USE DEF room, server, browsers
<1>1. PICK at \in {"open", "resolve"} : Ask(Host, at, 0)
  BY DEF HostAsksOpen, HostAsksResolve
<1>2. /\ UNCHANGED <<status, announced, wallet, staked, net, inbox, page, conn, missed>>
      /\ job[Host].at = "idle" /\ job'[Host].at = at
      /\ \A p \in Pages \ {Host} : job'[p] = job[p]
  <2>1. Host \in Pages
    BY Running
  <2>2. UNCHANGED <<status, announced, wallet, staked, net, inbox, page, conn, missed>>
    BY <1>1 DEF Ask
  <2>3. /\ job[Host] = NoJob /\ job'[Host].at = at
        /\ \A p \in Pages \ {Host} : job'[p] = job[p]
    BY <1>1, <2>1, JobMoves
  <2>. QED
    BY <2>2, <2>3, NoJobType
<1>3. ASSUME NEW p \in Players, NEW v \in PageStates, Expects(p, v), Sees(p, v), Owes(p, v)
      PROVE  Expects(p, v)' /\ Sees(p, v)' /\ Owes(p, v)'
  <2>1. p \in Pages /\ p # Host
    BY DEF Pages
  <2>2. Expects(p, v)' /\ (Unseen(p)' <=> Unseen(p))
    BY <1>2, <1>3, <2>1, ExpectsSame
  <2>3. Silent(p)' <=> Silent(p)
    BY <1>2, <2>1 DEF Silent
  <2>4. \A r \in RoundIDs : ~Opening(r) /\ ~Opening(r)'
    BY <1>1, <1>2 DEF Opening
  <2>5. Unfinished' = Unfinished /\ \A u \in Unfinished : Before(u, p)' = Before(u, p)
    BY <1>2 DEF Unfinished, Before
  <2>. QED
    BY <1>2, <1>3, <2>2, <2>3, <2>4, <2>5, Runs, Stays DEF PageStates
<1>. QED
  BY <1>3 DEF PageInv

\* Steps of others, as far as p's page and what it will show are concerned.
LEMMA Quiet ==
  ASSUME TypeOK, HostInv, NEW p \in Players, NEW v \in PageStates,
         Expects(p, v), Sees(p, v), Owes(p, v),
         inbox'[p] = inbox[p], page'[p] = page[p],
         conn'[p] = "away" => conn[p] = "away",
         conn'[p] = "greeted" => conn[p] = "greeted",
         missed'[p] = "nothing" => missed[p] = "nothing",
         \A r \in RoundIDs : status[r] # "none" => status'[r] # "none",
         \A r \in RoundIDs : Opening(r)' <=> Opening(r),
         v.round = None /\ Silent(p) => Silent(p)',
         Unfinished' = Unfinished,
         Unfinished = {} => wallet'[p] = wallet[p],
         \A u \in Unfinished : /\ Before(u, p)' = Before(u, p)
                               /\ staked'[u][p] = 0 => staked[u][p] = 0
  PROVE  Expects(p, v)' /\ Sees(p, v)' /\ Owes(p, v)'
<1>1. Expects(p, v)' /\ (Unseen(p)' <=> Unseen(p))
  BY ExpectsSame DEF Pages
<1>2. v.round \in RoundIDs \cup {None} /\ Unfinished \subseteq RoundIDs
  BY Runs DEF PageStates
<1>. QED
  BY <1>1, <1>2, Stays

\* Everybody who is there hears of odds or of a lock.
LEMMA Hears ==
  ASSUME TypeOK, HostInv, NEW p \in Players, NEW v \in PageStates,
         Expects(p, v), Sees(p, v), Owes(p, v),
         NEW e \in Events, e.type \in {"odds_updated", "round_locked"}, ToAll(e),
         UNCHANGED <<status, announced, wallet, staked, net, page, conn, missed>>,
         \A r \in RoundIDs : Opening(r)' <=> Opening(r),
         Silent(p) => Silent(p)'
  PROVE  \E w \in PageStates : Expects(p, w)' /\ Sees(p, w)' /\ Owes(p, w)'
<1>1. Unfinished' = Unfinished /\ \A u \in Unfinished : Before(u, p)' = Before(u, p)
  BY DEF Unfinished, Before
<1>2. CASE inbox'[p] = inbox[p]
  BY <1>1, <1>2, Quiet
<1>3. CASE inbox'[p] = Append(inbox[p], e)
  <2>1. PICK w : w = ReduceRound(v, e)
    OBVIOUS
  <2>2. w \in PageStates /\ Expects(p, w)' /\ (Unseen(p)' <=> Unseen(p))
    BY <1>3, <2>1, ExpectsMore DEF Pages
  <2>3. w.round = v.round /\ w.balance = v.balance /\ w.atOpen = v.atOpen /\ w.known = v.known
    BY <2>1, ReducedBalance
  <2>4. v.round \in RoundIDs \cup {None} /\ Unfinished \subseteq RoundIDs
    BY Runs DEF PageStates
  <2>5. Expects(p, w)' /\ Sees(p, w)' /\ Owes(p, w)'
    BY <1>1, <2>2, <2>3, <2>4, Stays
  <2>. QED
    BY <2>2, <2>5
<1>. QED
  BY <1>2, <1>3, ToAllType DEF Pages

\* A round that begins takes no stake yet, and no page shows it yet.
LEMMA CreatesOwes ==
  ASSUME TypeOK, TypeOK', HostInv, HostInv', StakesOK, PageInv, OpenCreates
  PROVE  PageInv'
<1>. USE DEF room, server, browsers
<1>0. job[Host].at = "open" /\ UNCHANGED <<clock, announced, inbox, page, conn, missed>>
  BY DEF OpenCreates, Handling
<1>1. CASE Done(Host) /\ UNCHANGED room
  <2>1. job'[Host].at = "idle" /\ \A p \in Pages \ {Host} : job'[p] = job[p]
    BY <1>1, Running, JobMoves, NoJobType
  <2>2. ASSUME NEW p \in Players, NEW v \in PageStates, Expects(p, v), Sees(p, v), Owes(p, v)
        PROVE  Expects(p, v)' /\ Sees(p, v)' /\ Owes(p, v)'
    <3>1. p \in Pages /\ p # Host
      BY DEF Pages
    <3>2. Silent(p)' <=> Silent(p)
      BY <2>1, <3>1 DEF Silent
    <3>3. \A r \in RoundIDs : ~Opening(r) /\ ~Opening(r)'
      BY <1>0, <2>1 DEF Opening
    <3>4. Unfinished' = Unfinished /\ \A u \in Unfinished : Before(u, p)' = Before(u, p)
      BY <1>0, <1>1 DEF Unfinished, Before
    <3>. QED
      BY <1>0, <1>1, <2>2, <3>2, <3>3, <3>4, Quiet
  <2>. QED
    BY <2>2 DEF PageInv
<1>2. CASE ~(Done(Host) /\ UNCHANGED room)
  <2>1. PICK r \in RoundIDs :
          /\ status[r] = "none" /\ status' = [status EXCEPT ![r] = "open"]
          /\ job' = [job EXCEPT ![Host].at = "opening", ![Host].round = r]
          /\ UNCHANGED <<pool, staked, wallet, net>>
    BY <1>2 DEF OpenCreates
  <2>2. Host \in Pages /\ job \in [Pages -> Jobs]
    BY DEF Pages, TypeOK
  <2>3. /\ job'[Host].at = "opening" /\ job'[Host].round = r
        /\ \A p \in Pages \ {Host} : job'[p] = job[p]
    BY <2>1, <2>2 DEF Jobs
  <2>4. status'[r] = "open" /\ \A s \in RoundIDs \ {r} : status'[s] = status[s]
    BY <2>1 DEF TypeOK
  <2>5. r \in Unfinished'
    BY <1>0, <2>1, <2>4 DEF Unfinished, HostInv, OneAtATime
  <2>6. r \notin Unfinished /\ Unfinished \subseteq Unfinished'
    BY <1>0, <2>1, <2>4 DEF Unfinished
  <2>7. \A u, s \in Unfinished' : u = s
    BY DEF HostInv, OneAtATime
  <2>8. Unfinished = {} /\ Unfinished' = {r}
    BY <2>5, <2>6, <2>7
  <2>9. ASSUME NEW p \in Players, NEW v \in PageStates, Expects(p, v), Sees(p, v), Owes(p, v)
        PROVE  Expects(p, v)' /\ Sees(p, v)' /\ Owes(p, v)'
    <3>1. p \in Pages /\ p # Host
      BY DEF Pages
    <3>2. Expects(p, v)' /\ (Unseen(p)' <=> Unseen(p))
      BY <1>0, <2>9, <3>1, ExpectsSame
    <3>3. v.round \in RoundIDs \cup {None} /\ (v.round # None => v.round # r)
      BY <2>1, <2>9 DEF Sees, PageStates
    <3>4. Silent(p)' <=> Silent(p)
      BY <2>3, <3>1 DEF Silent
    <3>5. Sees(p, v)'
      <4>1. \A u \in RoundIDs : Opening(u)' <=> u = r
        BY <2>3 DEF Opening
      <4>. QED
        BY <1>0, <2>4, <2>8, <2>9, <3>2, <3>3, <3>4, <4>1 DEF Sees
    <3>6. Before(r, p)' = wallet[p]
      <4>1. staked[r][p] = 0 /\ wallet[p] \in Nat
        BY <2>1 DEF StakesOK, TypeOK
      <4>. QED
        BY <2>1, <2>4, <4>1 DEF Before, Live
    <3>7. Owes(p, v)'
      <4>1. r # None
        BY DEF RoundIDs
      <4>. QED
        BY <1>0, <2>1, <2>8, <2>9, <3>3, <3>6, <4>1 DEF Owes
    <3>. QED
      BY <3>2, <3>5, <3>7
  <2>. QED
    BY <2>9 DEF PageInv
<1>. QED
  BY <1>1, <1>2

\* The page that hears of it reckons from what it shows, which is what p had.
LEMMA AnnouncesOwes ==
  ASSUME TypeOK, HostInv, PageInv, OpenAnnounces
  PROVE  PageInv'
<1>. USE DEF room, server, browsers
<1>0. PICK r : r = job[Host].round
  OBVIOUS
<1>1. PICK e : e = Event("round_opened", r, 0)
  OBVIOUS
<1>2. /\ job[Host].at = "opening" /\ ToAll(e) /\ Done(Host)
      /\ UNCHANGED <<status, announced, wallet, staked, net, page, conn, missed>>
  BY <1>0, <1>1 DEF OpenAnnounces, Handling
<1>3. r \in RoundIDs /\ Opening(r) /\ status[r] = "open" /\ r \in Unfinished /\ r # None
  <2>1. r \in RoundIDs /\ Opening(r) /\ status[r] = "open"
    BY <1>0, <1>2, Runs DEF Opening
  <2>. QED
    BY <2>1, Runs DEF Live, RoundIDs
<1>4. e \in Events /\ e.type = "round_opened" /\ e.round = r
  BY <1>1, <1>3, EventTypes
<1>5. job'[Host].at = "idle" /\ \A p \in Pages \ {Host} : job'[p] = job[p]
  BY <1>2, Running, JobMoves, NoJobType
<1>6. /\ \A u \in RoundIDs : ~Opening(u)' /\ (Opening(u) <=> u = r)
      /\ Unfinished' = Unfinished /\ \A u \in Unfinished : u = r
  BY <1>0, <1>2, <1>3, <1>5, Runs DEF Opening, Unfinished
<1>7. ASSUME NEW p \in Players, NEW v \in PageStates, Expects(p, v), Sees(p, v), Owes(p, v)
      PROVE  \E w \in PageStates : Expects(p, w)' /\ Sees(p, w)' /\ Owes(p, w)'
  <2>1. p \in Pages /\ p # Host
    BY DEF Pages
  <2>2. (Silent(p)' <=> Silent(p)) /\ Before(r, p)' = Before(r, p)
    BY <1>2, <1>5, <2>1 DEF Silent, Before
  <2>3. v.round # r
    BY <1>3, <1>7 DEF Sees
  <2>4. CASE conn[p] = "away"
    <3>1. v.round = None /\ inbox'[p] = inbox[p] /\ page'[p] = page[p]
      BY <1>2, <1>7, <2>1, <2>4 DEF Sees, ToAll, Broadcast
    <3>2. Expects(p, v)' /\ (Unseen(p)' <=> Unseen(p))
      BY <1>7, <2>1, <3>1, ExpectsSame
    <3>3. Sees(p, v)'
      BY <1>2, <1>7, <2>2, <3>1, <3>2 DEF Sees
    <3>4. Owes(p, v)'
      BY <1>2, <2>4 DEF Owes
    <3>. QED
      BY <3>2, <3>3, <3>4
  <2>5. CASE conn[p] # "away"
    <3>1. PICK w : w = ReduceRound(v, e)
      OBVIOUS
    <3>2. inbox'[p] = Append(inbox[p], e) /\ page'[p] = page[p]
      BY <1>2, <1>4, <2>1, <2>5, ToAllType
    <3>3. w \in PageStates /\ Expects(p, w)' /\ ~Unseen(p)'
      BY <1>4, <1>7, <2>1, <3>1, <3>2, ExpectsMore
    <3>4. w.round = r /\ w.atOpen = v.balance /\ w.balance = v.balance /\ w.known = v.known
      BY <1>4, <3>1, ReducedBalance
    <3>5. Sees(p, w)'
      BY <1>2, <1>3, <1>6, <2>5, <3>3, <3>4 DEF Sees
    <3>6. Owes(p, w)'
      BY <1>2, <1>3, <1>6, <1>7, <2>2, <2>3, <3>4 DEF Owes
    <3>. QED
      BY <3>3, <3>5, <3>6
  <2>. QED
    BY <2>4, <2>5
<1>. QED
  BY <1>7 DEF PageInv

\* Nobody has staked anything.
LEMMA StakesInit == Init => StakesOK
<1>. SUFFICES ASSUME Init  PROVE StakesOK
  OBVIOUS
<1>1. \A p \in Players : job[p].at = "idle" /\ page[p].phase = "idle"
  BY DEF Init, NoJob, InitialPage, Pages
<1>2. \A r \in RoundIDs : \A p \in Players : staked[r][p] = 0 /\ net[p] = 0
  BY DEF Init
<1>. QED
  BY <1>1, <1>2 DEF StakesOK

\* Steps that place and settle nothing.
LEMMA StakesKept ==
  ASSUME TypeOK, StakesOK, UNCHANGED <<staked, net>>,
         \A r \in RoundIDs : status'[r] \in {"none", "resolved"} => status'[r] = status[r],
         announced \subseteq announced',
         \A p \in Players :
           \/ job'[p].at = "idle"
           \/ /\ job'[p].round = job[p].round /\ job'[p].amount = job[p].amount
              /\ \/ job'[p].at = job[p].at
                 \/ job[p].at = "quoting" /\ job'[p].at = "replying",
         \A p \in Players : \/ page'[p] = page[p]
                            \/ page'[p].phase = "open" => page'[p].round # None
  PROVE  StakesOK'
<1>1. ASSUME NEW p \in Players, job[p].at \in {"quoting", "replying"}
      PROVE  status'[job[p].round] # "none" /\ staked'[job[p].round][p] # 0
  <2>1. job[p].round \in RoundIDs
    BY <1>1 DEF TypeOK, Past, Pages
  <2>. QED
    BY <1>1, <2>1 DEF StakesOK
<1>2. ASSUME NEW p \in Players
      PROVE  /\ job'[p].at = "bet" => job'[p].amount # 0
             /\ job'[p].at \in {"quoting", "replying"} =>
                  status'[job'[p].round] # "none" /\ staked'[job'[p].round][p] # 0
  <2>1. CASE job'[p].at = "idle"
    BY <2>1
  <2>2. CASE job'[p].at # "idle"
    <3>1. /\ job'[p].round = job[p].round /\ job'[p].amount = job[p].amount
          /\ \/ job'[p].at = job[p].at
             \/ job[p].at = "quoting" /\ job'[p].at = "replying"
      BY <2>2
    <3>. QED
      BY <1>1, <3>1 DEF StakesOK
  <2>. QED
    BY <2>1, <2>2
<1>3. \A p \in Players : page'[p].phase = "open" => page'[p].round # None
  BY DEF StakesOK
<1>4. ASSUME NEW r \in RoundIDs, NEW p \in Players
      PROVE  /\ status'[r] = "none" => staked'[r][p] = 0
             /\ status'[r] = "resolved" /\ r \notin announced' /\ staked'[r][p] = 0 => net'[p] = 0
  <2>1. /\ status'[r] = "none" => status[r] = "none"
        /\ status'[r] = "resolved" => status[r] = "resolved"
        /\ r \notin announced' => r \notin announced
    OBVIOUS
  <2>. QED
    BY <2>1 DEF StakesOK
<1>. QED
  BY <1>2, <1>3, <1>4 DEF StakesOK

\* A page shows a round open once it has read of the opening.
LEMMA ReducedOpen ==
  ASSUME NEW s \in PageStates, NEW e \in Events, s.phase = "open" => s.round # None,
         ReduceRound(s, e).phase = "open"
  PROVE  ReduceRound(s, e).round # None
<1>1. /\ e.type \in {"connected", "round_opened", "odds_updated", "round_locked",
                     "wager_accepted", "round_resolved", "round_refunded"}
      /\ e.type # "connected" => e.round \in RoundIDs
  BY DEF Events, RoundEvents
<1>2. CASE e.type = "round_opened"
  BY <1>1, <1>2, Reduced DEF RoundIDs
<1>3. CASE e.type # "round_opened"
  <2>1. ReduceRound(s, e).round = s.round
    BY <1>3, Reduced
  <2>2. CASE e.type \in {"connected", "odds_updated", "wager_accepted"}
    BY <2>1, <2>2, Reduced
  <2>3. CASE e.type = "round_locked"
    BY <2>1, <2>3 DEF ReduceRound, PageStates
  <2>4. CASE e.type = "round_resolved"
    BY <2>1, <2>4 DEF ReduceRound, OnResolved, PageStates
  <2>5. CASE e.type = "round_refunded"
    BY <2>1, <2>5 DEF ReduceRound, OnRefunded, PageStates
  <2>. QED
    BY <1>1, <1>3, <2>2, <2>3, <2>4, <2>5
<1>. QED
  BY <1>2, <1>3

\* The host's requests, of which one settles a round.
LEMMA StakesHost ==
  ASSUME TypeOK, HostInv, StakesOK,
         HostAsksOpen \/ HostAsksResolve \/ HostHandler \/ ResolveClearFails
  PROVE  StakesOK'
<1>. USE DEF room, server, browsers
<1>0. Host \in Pages /\ \A p \in Players : p \in Pages /\ p # Host
  BY DEF Pages
<1>1. CASE HostAsksOpen \/ HostAsksResolve
  <2>1. PICK at \in {"open", "resolve"} : Ask(Host, at, 0)
    BY <1>1 DEF HostAsksOpen, HostAsksResolve
  <2>2. \A p \in Players : job'[p] = job[p]
    BY <1>0, <2>1, JobMoves
  <2>3. UNCHANGED <<staked, net, status, announced, page>>
    BY <2>1 DEF Ask
  <2>. QED
    BY <2>2, <2>3, StakesKept
<1>2. CASE OpenCreates
  <2>1. /\ UNCHANGED <<staked, net, announced, page>>
        /\ UNCHANGED status \/ \E r \in RoundIDs : status' = [status EXCEPT ![r] = "open"]
        /\ \/ Done(Host)
           \/ \E r : job' = [job EXCEPT ![Host].at = "opening", ![Host].round = r]
    BY <1>2 DEF OpenCreates
  <2>2. \A p \in Players : job'[p] = job[p]
    BY <1>0, <2>1, JobMoves
  <2>3. \A r \in RoundIDs : status'[r] \in {"none", "resolved"} => status'[r] = status[r]
    BY <2>1 DEF TypeOK
  <2>. QED
    BY <2>1, <2>2, <2>3, StakesKept
<1>3. CASE OpenAnnounces
  <2>1. UNCHANGED <<staked, net, status, announced, page>> /\ Done(Host)
    BY <1>3 DEF OpenAnnounces
  <2>2. \A p \in Players : job'[p] = job[p]
    BY <1>0, <2>1, JobMoves
  <2>. QED
    BY <2>1, <2>2, StakesKept
<1>4. CASE ResolveSettles
  <2>1. CASE Done(Host) /\ UNCHANGED room
    <3>1. UNCHANGED <<staked, net, status, announced, page>>
      BY <1>4, <2>1 DEF ResolveSettles
    <3>2. \A p \in Players : job'[p] = job[p]
      BY <1>0, <2>1, JobMoves
    <3>. QED
      BY <3>1, <3>2, StakesKept
  <2>2. CASE ~(Done(Host) /\ UNCHANGED room)
    <3>1. /\ index \in RoundIDs /\ status[index] = "locked"
          /\ status' = [status EXCEPT ![index] = "resolved"]
          /\ job' = [job EXCEPT ![Host].at = "clearing", ![Host].round = index]
          /\ UNCHANGED <<announced, page>>
      BY <1>4, <2>2, SettlesShown
    <3>2. \A p \in Players : job'[p] = job[p]
      BY <1>0, <3>1, JobMoves
    <3>3. staked' = staked /\ \A p \in Players : staked[index][p] = 0 => net'[p] = 0
      <4>1. PICK back :
              /\ \A p \in Players : back[p] \in Returns(staked[index][p])
              /\ net' = [p \in Players |-> back[p] - staked[index][p]]
              /\ staked' = staked
        BY <1>4, <2>2 DEF ResolveSettles
      <4>2. ASSUME NEW p \in Players, staked[index][p] = 0  PROVE net'[p] = 0
        <5>1. back[p] = 0
          BY <4>1, <4>2 DEF Returns
        <5>2. net'[p] = back[p] - staked[index][p]
          BY <4>1
        <5>. QED
          BY <4>2, <5>1, <5>2
      <4>. QED
        BY <4>1, <4>2
    <3>4. status'[index] = "resolved" /\ \A s \in RoundIDs \ {index} : status'[s] = status[s]
      BY <3>1 DEF TypeOK
    <3>5. \A r \in RoundIDs \ announced : status[r] # "none" => r = index
      BY <3>1, Running DEF HostInv, OneAtATime, Unfinished, Live
    <3>6. \A p \in Players : job[p].at \in Past => job[p].round \in RoundIDs
      BY <1>0 DEF TypeOK
    <3>7. ASSUME NEW r \in RoundIDs, NEW p \in Players
          PROVE  /\ status'[r] = "none" => staked'[r][p] = 0
                 /\ status'[r] = "resolved" /\ r \notin announced' /\ staked'[r][p] = 0 => net'[p] = 0
      BY <3>1, <3>3, <3>4, <3>5 DEF StakesOK
    <3>8. ASSUME NEW p \in Players
          PROVE  /\ job'[p].at = "bet" => job'[p].amount # 0
                 /\ job'[p].at \in {"quoting", "replying"} =>
                      status'[job'[p].round] # "none" /\ staked'[job'[p].round][p] # 0
                 /\ page'[p].phase = "open" => page'[p].round # None
      <4>1. job'[p] = job[p] /\ page'[p] = page[p]
        BY <3>1, <3>2
      <4>2. /\ job[p].at = "bet" => job[p].amount # 0
            /\ job[p].at \in {"quoting", "replying"} =>
                 status[job[p].round] # "none" /\ staked[job[p].round][p] # 0
            /\ page[p].phase = "open" => page[p].round # None
        BY DEF StakesOK
      <4>3. job[p].at \in {"quoting", "replying"} =>
              status'[job[p].round] # "none" /\ staked'[job[p].round][p] # 0
        BY <3>3, <3>4, <3>6, <4>2 DEF Past
      <4>. QED
        BY <4>1, <4>2, <4>3
    <3>. QED
      BY <3>7, <3>8 DEF StakesOK
  <2>. QED
    BY <2>1, <2>2
<1>5. CASE ResolveReveals
  <2>1. /\ UNCHANGED <<staked, status, page>> /\ Done(Host)
        /\ net' = [p \in Players |-> 0]
    BY <1>5 DEF ResolveReveals
  <2>2. \A p \in Players : job'[p] = job[p]
    BY <1>0, <2>1, JobMoves
  <2>3. \A p \in Players : net'[p] = 0
    BY <2>1
  <2>. QED
    BY <2>1, <2>2, <2>3 DEF StakesOK
<1>6. CASE ResolveClears \/ ResolveClearFails
  <2>1. /\ UNCHANGED <<staked, net, status, announced, page>>
        /\ Moves(Host, "revealing") \/ Done(Host)
    BY <1>6 DEF ResolveClears, ResolveClearFails, ClearFails
  <2>2. \A p \in Players : job'[p] = job[p]
    BY <1>0, <2>1, JobMoves
  <2>. QED
    BY <2>1, <2>2, StakesKept
<1>. QED
  BY <1>1, <1>2, <1>3, <1>4, <1>5, <1>6 DEF HostHandler

\* The players' requests, of which one stakes something in an open round.
LEMMA StakesBet ==
  ASSUME TypeOK, StakesOK, NEW q \in Players, PlayerAsksBet(q) \/ BetHandler(q)
  PROVE  StakesOK'
<1>. USE DEF room, server, browsers
<1>0. q \in Pages /\ (\A p \in Players : p \in Pages) /\ job \in [Pages -> Jobs] /\ NoJob.at = "idle"
  BY DEF Pages, TypeOK, NoJob
<1>1. CASE PlayerAsksBet(q)
  <2>1. PICK a \in Amounts : Ask(q, "bet", a)
    BY <1>1 DEF PlayerAsksBet
  <2>2. job'[q].at = "bet" /\ job'[q].amount = a /\ a # 0
    BY <1>0, <2>1 DEF Ask, NoJob
  <2>3. /\ \A p \in Players \ {q} : job'[p] = job[p]
        /\ UNCHANGED <<staked, net, status, announced, page>>
    BY <1>0, <2>1 DEF Ask
  <2>. QED
    BY <2>2, <2>3 DEF StakesOK
<1>2. CASE BetPlaces(q)
  <2>1. CASE Done(q) /\ UNCHANGED room
    <3>1. UNCHANGED <<staked, net, status, announced, page>>
      BY <1>2, <2>1 DEF BetPlaces
    <3>2. \A p \in Players : job'[p] = job[p] \/ job'[p].at = "idle"
      BY <1>0, <2>1 DEF Done
    <3>. QED
      BY <3>1, <3>2, StakesKept
  <2>2. CASE ~(Done(q) /\ UNCHANGED room)
    <3>1. PICK a : a = job[q].amount
      OBVIOUS
    <3>2. /\ job[q].at = "bet" /\ index # None /\ status[index] = "open"
          /\ staked' = [staked EXCEPT ![index][q] = @ + a]
          /\ UNCHANGED <<status, net, announced, page>>
          /\ \E said, amount :
               job' = [job EXCEPT ![q].at = "quoting", ![q].round = index,
                                  ![q].said = said, ![q].amount = amount]
      BY <1>2, <2>2, <3>1 DEF BetPlaces, Handling
    <3>3. index \in RoundIDs /\ a \in Nat /\ a # 0 /\ staked[index][q] \in Nat
      BY <1>0, <3>1, <3>2 DEF TypeOK, StakesOK, Jobs
    <3>4. job'[q].at = "quoting" /\ job'[q].round = index /\ \A p \in Players \ {q} : job'[p] = job[p]
      BY <1>0, <3>2 DEF Jobs
    <3>5. /\ staked'[index][q] = staked[index][q] + a
          /\ \A r \in RoundIDs : \A p \in Players :
               r # index \/ p # q => staked'[r][p] = staked[r][p]
      BY <3>2, <3>3 DEF TypeOK
    <3>6. staked'[index][q] # 0
      BY <3>3, <3>5
    <3>7. \A p \in Players : job[p].at \in Past => job[p].round \in RoundIDs
      BY <1>0 DEF TypeOK
    <3>8. ASSUME NEW r \in RoundIDs, NEW p \in Players
          PROVE  /\ status'[r] = "none" => staked'[r][p] = 0
                 /\ status'[r] = "resolved" /\ r \notin announced' /\ staked'[r][p] = 0 => net'[p] = 0
      BY <3>2, <3>5 DEF StakesOK
    <3>9. ASSUME NEW p \in Players
          PROVE  /\ job'[p].at = "bet" => job'[p].amount # 0
                 /\ job'[p].at \in {"quoting", "replying"} =>
                      status'[job'[p].round] # "none" /\ staked'[job'[p].round][p] # 0
                 /\ page'[p].phase = "open" => page'[p].round # None
      <4>1. CASE p = q
        BY <3>2, <3>4, <3>6, <4>1 DEF StakesOK
      <4>2. CASE p # q
        <5>1. job'[p] = job[p] /\ status' = status /\ page' = page
          BY <3>2, <3>4, <4>2
        <5>2. job[p].at \in {"quoting", "replying"} => job[p].round \in RoundIDs
          BY <3>7 DEF Past
        <5>3. \A r \in RoundIDs : staked'[r][p] = staked[r][p]
          BY <3>5, <4>2
        <5>. QED
          BY <5>1, <5>2, <5>3 DEF StakesOK
      <4>. QED
        BY <4>1, <4>2
    <3>. QED
      BY <3>8, <3>9 DEF StakesOK
  <2>. QED
    BY <2>1, <2>2
<1>3. CASE BetQuotes(q)
  <2>1. UNCHANGED <<staked, net, status, announced, page>> /\ job[q].at = "quoting"
    BY <1>3 DEF BetQuotes, Handling
  <2>2. /\ job'[q].at = "replying" /\ job'[q].round = job[q].round /\ job'[q].amount = job[q].amount
        /\ \A p \in Players \ {q} : job'[p] = job[p]
    BY <1>0, <1>3 DEF BetQuotes, Moves, Jobs
  <2>. QED
    BY <2>1, <2>2, StakesKept
<1>4. CASE BetReplies(q)
  <2>1. UNCHANGED <<staked, net, status, announced, page>>
    BY <1>4 DEF BetReplies
  <2>2. \A p \in Players : job'[p] = job[p] \/ job'[p].at = "idle"
    BY <1>0, <1>4 DEF BetReplies, Done
  <2>. QED
    BY <2>1, <2>2, StakesKept
<1>. QED
  BY <1>1, <1>2, <1>3, <1>4 DEF BetHandler

\* The clocks and the browsers.
LEMMA StakesOther ==
  ASSUME TypeOK, StakesOK,
         \/ \E r \in RoundIDs : Clock(r) \/ ClockClearFails(r)
         \/ \E p \in Pages : Browser(p) \/ Reload(p)
  PROVE  StakesOK'
<1>. USE DEF room, server, browsers
<1>0. (\A p \in Players : p \in Pages) /\ job \in [Pages -> Jobs] /\ page \in [Pages -> PageStates]
  BY DEF Pages, TypeOK
<1>1. ASSUME NEW r \in RoundIDs, Clock(r) \/ ClockClearFails(r)  PROVE StakesOK'
  <2>. USE DEF ClockClears, ClockClearFails, ClearFails
  <2>1. UNCHANGED <<staked, net, job, page>> /\ announced \subseteq announced'
    BY <1>1 DEF Clock, ClockLocks, ClockAnnouncesLock, ClockRefunds, ClockAnnouncesRefund
  <2>2. \/ UNCHANGED status
        \/ status' = [status EXCEPT ![r] = "locked"]
        \/ status' = [status EXCEPT ![r] = "refunded"]
    BY <1>1 DEF Clock, ClockLocks, ClockAnnouncesLock, ClockRefunds, ClockAnnouncesRefund
  <2>3. \A s \in RoundIDs : status'[s] \in {"none", "resolved"} => status'[s] = status[s]
    BY <2>2 DEF TypeOK
  <2>. QED
    BY <2>1, <2>3, StakesKept
<1>2. ASSUME NEW q \in Pages, PageReceives(q)  PROVE StakesOK'
  <2>1. UNCHANGED <<staked, net, status, announced, job>>
    BY <1>2 DEF PageReceives
  <2>2. /\ page'[q] = ReduceRound(page[q], Head(inbox[q])) /\ Head(inbox[q]) \in Events
        /\ \A p \in Pages \ {q} : page'[p] = page[p]
    <3>1. inbox[q] \in Seq(Events) /\ inbox[q] # << >>
      BY <1>2 DEF PageReceives, TypeOK
    <3>. QED
      BY <1>0, <1>2, <3>1, QueueTail DEF PageReceives
  <2>3. \A p \in Players : page[p].phase = "open" => page[p].round # None
    BY DEF StakesOK
  <2>4. ASSUME NEW p \in Players
        PROVE  page'[p] = page[p] \/ (page'[p].phase = "open" => page'[p].round # None)
    <3>1. CASE p = q
      BY <1>0, <2>2, <2>3, <3>1, ReducedOpen
    <3>2. CASE p # q
      BY <1>0, <2>2, <3>2
    <3>. QED
      BY <3>1, <3>2
  <2>. QED
    BY <2>1, <2>4, StakesKept
<1>3. ASSUME NEW q \in Pages, Rejoin(q) \/ Greet(q)  PROVE StakesOK'
  <2>1. UNCHANGED <<staked, net, status, announced, job, page>>
    BY <1>3 DEF Rejoin, Greet
  <2>. QED
    BY <2>1, StakesKept
<1>4. ASSUME NEW q \in Pages, Reload(q)  PROVE StakesOK'
  <2>1. UNCHANGED <<staked, net, status, announced>>
    BY <1>4 DEF Reload
  <2>2. \A p \in Pages : /\ job'[p].at = job[p].at /\ job'[p].round = job[p].round
                         /\ job'[p].amount = job[p].amount
    BY <1>0, <1>4 DEF Reload, Jobs
  <2>3. \A p \in Pages : page'[p] = page[p] \/ page'[p].phase = "idle"
    BY <1>0, <1>4 DEF Reload, InitialPage
  <2>. QED
    BY <1>0, <2>1, <2>2, <2>3, StakesKept
<1>. QED
  BY <1>1, <1>2, <1>3, <1>4 DEF Browser

\* Every step keeps what there is to stakes.
LEMMA StakesStep ==
  ASSUME TypeOK, HostInv, StakesOK, [Next]_vars
  PROVE  StakesOK'
<1>1. CASE UNCHANGED vars
  BY <1>1, StakesKept DEF vars, room, server, browsers
<1>. QED
  BY <1>1, StakesHost, StakesBet, StakesOther DEF Next

\* The index is cleared, or it is not: no page and no wallet knows.
LEMMA ClearsOwes ==
  ASSUME TypeOK, HostInv, PageInv,
         \/ ResolveClears \/ ResolveClearFails
         \/ \E r \in RoundIDs : ClockClears(r) \/ ClockClearFails(r)
  PROVE  PageInv'
<1>. USE DEF room, server, browsers
<1>1. UNCHANGED <<status, announced, wallet, staked, net, inbox, page, conn, missed>>
  BY DEF ResolveClears, ResolveClearFails, ClockClears, ClockClearFails, ClearFails
<1>2. \/ job' = job
      \/ job[Host].at = "clearing" /\ (Moves(Host, "revealing") \/ Done(Host))
  BY DEF ResolveClears, ResolveClearFails, ClockClears, ClockClearFails, Handling
<1>3. /\ \A p \in Pages \ {Host} : job'[p] = job[p]
      /\ \A r \in RoundIDs : Opening(r)' <=> Opening(r)
  <2>1. CASE job' = job
    BY <2>1 DEF Opening
  <2>2. CASE job[Host].at = "clearing" /\ (Moves(Host, "revealing") \/ Done(Host))
    <3>1. /\ job'[Host].at \in {"revealing", "idle"}
          /\ \A p \in Pages \ {Host} : job'[p] = job[p]
      BY <2>2, Running, JobMoves, NoJobType
    <3>. QED
      BY <2>2, <3>1 DEF Opening
  <2>. QED
    BY <1>2, <2>1, <2>2
<1>4. ASSUME NEW p \in Players, NEW v \in PageStates, Expects(p, v), Sees(p, v), Owes(p, v)
      PROVE  Expects(p, v)' /\ Sees(p, v)' /\ Owes(p, v)'
  <2>1. Silent(p)' <=> Silent(p)
    BY <1>3 DEF Silent, Pages
  <2>2. Unfinished' = Unfinished /\ \A u \in Unfinished : Before(u, p)' = Before(u, p)
    BY <1>1 DEF Unfinished, Before
  <2>. QED
    BY <1>1, <1>3, <1>4, <2>1, <2>2, Quiet
<1>. QED
  BY <1>4 DEF PageInv

\* A request of the host's that is refused.
LEMMA DoneOwes ==
  ASSUME TypeOK, HostInv, PageInv, job[Host].at \in {"open", "resolve"}, Done(Host),
         UNCHANGED <<status, announced, wallet, staked, net, inbox, page, conn, missed>>
  PROVE  PageInv'
<1>1. job'[Host].at = "idle" /\ \A p \in Pages \ {Host} : job'[p] = job[p]
  BY Running, JobMoves, NoJobType
<1>2. ASSUME NEW p \in Players, NEW v \in PageStates, Expects(p, v), Sees(p, v), Owes(p, v)
      PROVE  Expects(p, v)' /\ Sees(p, v)' /\ Owes(p, v)'
  <2>1. Silent(p)' <=> Silent(p)
    BY <1>1 DEF Silent, Pages
  <2>2. \A r \in RoundIDs : ~Opening(r) /\ ~Opening(r)'
    BY <1>1 DEF Opening
  <2>3. Unfinished' = Unfinished /\ \A u \in Unfinished : Before(u, p)' = Before(u, p)
    BY DEF Unfinished, Before
  <2>. QED
    BY <1>2, <2>1, <2>2, <2>3, Quiet
<1>. QED
  BY <1>2 DEF PageInv

\* What is settled leaves each player what it had, plus the net to be revealed.
LEMMA SettlesOwes ==
  ASSUME TypeOK, TypeOK', HostInv, PageInv, ResolveSettles
  PROVE  PageInv'
<1>. USE DEF room, server, browsers
<1>1. CASE Done(Host) /\ UNCHANGED room
  <2>1. job[Host].at = "resolve" /\ UNCHANGED <<announced, inbox, page, conn, missed>>
    BY DEF ResolveSettles, Handling
  <2>. QED
    BY <1>1, <2>1, DoneOwes
<1>2. CASE ~(Done(Host) /\ UNCHANGED room)
  <2>1. /\ index \in RoundIDs /\ status[index] = "locked" /\ job[Host].at = "resolve"
        /\ status' = [status EXCEPT ![index] = "resolved"]
        /\ job' = [job EXCEPT ![Host].at = "clearing", ![Host].round = index]
        /\ UNCHANGED <<announced, inbox, page, conn>>
    BY <1>2, SettlesShown
  <2>2. PICK back :
          /\ \A p \in Players : back[p] \in Returns(staked[index][p])
          /\ wallet' = [p \in Players |-> wallet[p] + back[p]]
          /\ net' = [p \in Players |-> back[p] - staked[index][p]]
          /\ UNCHANGED <<staked, missed>>
    BY <1>2 DEF ResolveSettles
  <2>3. job'[Host].at = "clearing" /\ \A p \in Pages \ {Host} : job'[p] = job[p]
    BY <2>1, Running DEF TypeOK, Jobs
  <2>4. status'[index] = "resolved" /\ \A s \in RoundIDs \ {index} : status'[s] = status[s]
    BY <2>1 DEF TypeOK
  <2>5. index \in Unfinished /\ (\A u \in Unfinished : u = index) /\ Unfinished' = Unfinished
    <3>1. index \in Unfinished
      BY <2>1, Running DEF Live
    <3>. QED
      BY <2>1, <2>4, <3>1, Runs DEF Unfinished
  <2>6. ASSUME NEW p \in Players, NEW v \in PageStates, Expects(p, v), Sees(p, v), Owes(p, v)
        PROVE  Expects(p, v)' /\ Sees(p, v)' /\ Owes(p, v)'
    <3>1. ASSUME NEW u \in Unfinished  PROVE Before(u, p)' = Before(u, p)
      <4>0. u = index /\ u \in RoundIDs
        BY <2>1, <2>5
      <4>1. Before(u, p) = wallet[p] + staked[u][p]
        BY <2>1, <4>0 DEF Before, Live
      <4>2. Before(u, p)' = wallet'[p] - net'[p]
        <5>1. status'[u] = "resolved"
          BY <2>4, <4>0
        <5>. QED
          BY <5>1 DEF Before, Live
      <4>3. wallet'[p] = wallet[p] + back[p] /\ net'[p] = back[p] - staked[u][p]
        BY <2>2, <4>0
      <4>4. wallet[p] \in Nat /\ staked[u][p] \in Nat
        BY <4>0 DEF TypeOK
      <4>5. back[p] \in Nat
        <5>1. \A s \in Nat : Returns(s) \subseteq Nat
          BY DEF Returns
        <5>2. back[p] \in Returns(staked[u][p])
          BY <2>2, <4>0
        <5>. QED
          BY <4>4, <5>1, <5>2
      <4>. QED
        BY <4>1, <4>2, <4>3, <4>4, <4>5
    <3>2. Silent(p)' <=> Silent(p)
      BY <2>3 DEF Silent, Pages
    <3>3. \A r \in RoundIDs : ~Opening(r) /\ ~Opening(r)'
      BY <2>1, <2>3 DEF Opening
    <3>4. \A r \in RoundIDs : status[r] # "none" => status'[r] # "none"
      BY <2>4
    <3>5. /\ inbox' = inbox /\ page' = page /\ conn' = conn /\ missed' = missed /\ staked' = staked
          /\ Unfinished # {} /\ Unfinished' = Unfinished
      BY <2>1, <2>2, <2>5
    <3>. QED
      BY <2>6, <3>1, <3>2, <3>3, <3>4, <3>5, Quiet
  <2>. QED
    BY <2>6 DEF PageInv
<1>. QED
  BY <1>1, <1>2

\* Without a stake in it the round that runs is nothing to a wallet.
LEMMA NoStake ==
  ASSUME TypeOK, StakesOK, NEW u \in Unfinished, NEW p \in Players, staked[u][p] = 0
  PROVE  Before(u, p) = wallet[p]
<1>1. u \in RoundIDs /\ u \notin announced /\ wallet[p] \in Nat
  BY DEF Unfinished, TypeOK
<1>2. status[u] = "resolved" => net[p] = 0
  BY <1>1 DEF StakesOK
<1>. QED
  BY <1>1, <1>2 DEF Before, Live

\* The page that hears of the end reckons what p has: all that was to be known
\* of the round was known at its opening, or is in the net.
LEMMA EndOwes ==
  ASSUME TypeOK, HostInv, NEW r \in Unfinished, status[r] \in {"resolved", "refunded"},
         NEW p \in Players, NEW v \in PageStates, Expects(p, v), Sees(p, v), Owes(p, v),
         NEW e \in Events, e.round = r,
         e.type = IF status[r] = "resolved" THEN "round_resolved" ELSE "round_refunded",
         status[r] = "resolved" => e.n = net[p],
         conn[p] = "away" => inbox'[p] = inbox[p],
         conn[p] # "away" => inbox'[p] = Append(inbox[p], e),
         announced' = announced \cup {r}, job'[p] = job[p],
         \A u \in RoundIDs : Opening(u)' <=> Opening(u),
         UNCHANGED <<status, wallet, staked, page, conn, missed>>
  PROVE  \E w \in PageStates : Expects(p, w)' /\ Sees(p, w)' /\ Owes(p, w)'
<1>0. p \in Pages /\ r \in RoundIDs
  BY DEF Pages, Unfinished
<1>1. Unfinished' = {} /\ \A u \in Unfinished : u = r
  <2>1. \A u \in Unfinished : u = r
    BY Runs
  <2>. QED
    BY <2>1 DEF Unfinished
<1>2. ~Opening(r) /\ (Silent(p)' <=> Silent(p))
  <2>1. ~Opening(r)
    BY <1>0, Runs
  <2>. QED
    BY <2>1 DEF Silent
<1>3. CASE conn[p] = "away"
  <2>1. v.round = None
    BY <1>3 DEF Sees
  <2>2. Expects(p, v)' /\ (Unseen(p)' <=> Unseen(p))
    BY <1>0, <1>3, ExpectsSame
  <2>3. Sees(p, v)'
    BY <1>2, <2>1, <2>2 DEF Sees
  <2>4. Owes(p, v)'
    BY <1>3 DEF Owes
  <2>. QED
    BY <2>2, <2>3, <2>4
<1>4. CASE conn[p] # "away"
  <2>0. e.type \in {"round_resolved", "round_refunded"}
    OBVIOUS
  <2>1. PICK w : w = ReduceRound(v, e)
    OBVIOUS
  <2>2. w \in PageStates /\ Expects(p, w)' /\ (Unseen(p)' <=> Unseen(p))
    BY <1>0, <1>4, <2>0, <2>1, ExpectsMore
  <2>3. /\ w.round = v.round /\ w.atOpen = v.atOpen /\ w.known = v.known
        /\ v.round = None \/ v.round = r =>
             w.balance = BalanceAtOpen(v) + (IF v.known /\ e.type = "round_resolved" THEN e.n ELSE 0)
    BY <2>0, <2>1, ReducedBalance
  <2>4. v.round \in {None, r} /\ v.round \in RoundIDs \cup {None}
    BY <1>1, <1>2 DEF Sees, PageStates
  <2>5. Sees(p, w)'
    BY <1>1, <1>2, <1>4, <2>2, <2>3, <2>4 DEF Sees
  <2>6. ASSUME conn[p] = "greeted", missed[p] = "nothing"
        PROVE  w.known /\ w.balance = wallet[p]
    <3>1. /\ v.known
          /\ v.round = r => v.atOpen = Before(r, p)
          /\ v.round # r => v.balance = Before(r, p)
      BY <2>6 DEF Owes
    <3>2. /\ wallet[p] \in Nat /\ net[p] \in Int
          /\ Before(r, p) = IF status[r] = "resolved" THEN wallet[p] - net[p] ELSE wallet[p]
      BY DEF TypeOK, Before, Live
    <3>3. Before(r, p) \in Int
      BY <3>2
    <3>4. BalanceAtOpen(v) = Before(r, p)
      <4>1. CASE v.round = r
        BY <3>1, <3>3, <4>1 DEF BalanceAtOpen
      <4>2. CASE v.round # r
        <5>1. v.atOpen = None
          BY <2>4, <4>2 DEF Sees
        <5>. QED
          BY <3>1, <4>2, <5>1 DEF BalanceAtOpen
      <4>. QED
        BY <4>1, <4>2
    <3>5. w.balance = Before(r, p) + (IF status[r] = "resolved" THEN net[p] ELSE 0)
      BY <2>3, <2>4, <3>1, <3>4
    <3>6. w.balance = wallet[p]
      <4>1. CASE status[r] = "resolved"
        BY <3>2, <3>5, <4>1
      <4>2. CASE status[r] # "resolved"
        BY <3>2, <3>5, <4>2
      <4>. QED
        BY <4>1, <4>2
    <3>. QED
      BY <2>3, <3>1, <3>6
  <2>7. Owes(p, w)'
    BY <1>1, <2>6 DEF Owes
  <2>. QED
    BY <2>2, <2>5, <2>7
<1>. QED
  BY <1>3, <1>4

\* The settlement is revealed, each player's net to its own page.
LEMMA RevealsOwes ==
  ASSUME TypeOK, HostInv, PageInv, ResolveReveals
  PROVE  PageInv'
<1>. USE DEF room, server, browsers
<1>0. PICK r : r = job[Host].round
  OBVIOUS
<1>. DEFINE rows == [p \in Pages |-> Event("round_resolved", r, IF p \in Players THEN net[p] ELSE 0)]
<1>1. /\ job[Host].at = "revealing" /\ Broadcast(rows) /\ announced' = announced \cup {r}
      /\ Done(Host) /\ UNCHANGED <<status, wallet, staked, page, conn, missed>>
  BY <1>0 DEF ResolveReveals, Handling
<1>2. Host \in Pages /\ r \in RoundIDs /\ status[r] = "resolved" /\ r \notin announced
  BY <1>0, <1>1, Running DEF TypeOK, Past, HostInv, JobOK
<1>3. r \in Unfinished
  BY <1>2 DEF Unfinished
<1>4. job'[Host].at = "idle" /\ \A p \in Pages \ {Host} : job'[p] = job[p]
  BY <1>1, <1>2, JobMoves, NoJobType
<1>5. \A u \in RoundIDs : Opening(u)' <=> Opening(u)
  BY <1>1, <1>4 DEF Opening
<1>6. \A p \in Pages : (IF p \in Players THEN net[p] ELSE 0) \in Int
  BY DEF TypeOK
<1>7. ASSUME NEW p \in Players, NEW v \in PageStates, Expects(p, v), Sees(p, v), Owes(p, v)
      PROVE  \E w \in PageStates : Expects(p, w)' /\ Sees(p, w)' /\ Owes(p, w)'
  <2>0. p \in Pages /\ p # Host /\ net[p] \in Int
    BY <1>6 DEF Pages
  <2>1. PICK e : e = Event("round_resolved", r, net[p])
    OBVIOUS
  <2>2. e \in Events /\ e.type = "round_resolved" /\ e.round = r /\ e.n = net[p]
    BY <1>2, <2>0, <2>1, EventTypes
  <2>3. inbox'[p] = IF conn[p] = "away" THEN inbox[p] ELSE Append(inbox[p], e)
    BY <1>1, <2>0, <2>1 DEF Broadcast
  <2>4. job'[p] = job[p]
    BY <1>4, <2>0
  <2>. QED
    BY <1>1, <1>2, <1>3, <1>5, <1>7, <2>2, <2>3, <2>4, EndOwes
<1>. QED
  BY <1>7 DEF PageInv

\* The refund is announced.
LEMMA RefundsOwes ==
  ASSUME TypeOK, HostInv, PageInv, NEW r \in RoundIDs, ClockAnnouncesRefund(r)
  PROVE  PageInv'
<1>. USE DEF room, server, browsers
<1>0. PICK e : e = Event("round_refunded", r, 0)
  OBVIOUS
<1>1. /\ clock[r] = "announcing" /\ ToAll(e) /\ announced' = announced \cup {r}
      /\ UNCHANGED <<status, wallet, staked, job, page, conn, missed>>
  BY <1>0 DEF ClockAnnouncesRefund, Ticks
<1>2. status[r] = "refunded" /\ r \notin announced
  BY <1>1 DEF HostInv, ClockOK
<1>3. r \in Unfinished
  BY <1>2 DEF Unfinished
<1>4. \A u \in RoundIDs : Opening(u)' <=> Opening(u)
  BY <1>1 DEF Opening
<1>5. e \in Events /\ e.type = "round_refunded" /\ e.round = r
  BY <1>0, EventTypes
<1>6. ASSUME NEW p \in Players, NEW v \in PageStates, Expects(p, v), Sees(p, v), Owes(p, v)
      PROVE  \E w \in PageStates : Expects(p, w)' /\ Sees(p, w)' /\ Owes(p, w)'
  <2>1. inbox'[p] = IF conn[p] = "away" THEN inbox[p] ELSE Append(inbox[p], e)
    BY <1>1 DEF ToAll, Broadcast, Pages
  <2>. QED
    BY <1>1, <1>2, <1>3, <1>4, <1>5, <1>6, <2>1, EndOwes
<1>. QED
  BY <1>6 DEF PageInv

\* A round locks, its lock is announced, or its stakes go back.
LEMMA ClockOwes ==
  ASSUME TypeOK, HostInv, PageInv, NEW r \in RoundIDs, Clock(r)
  PROVE  PageInv'
<1>. USE DEF room, server, browsers
<1>1. CASE ClockLocks(r)
  <2>1. clock[r] = "waiting" /\ status[r] = "open"
    BY <1>1 DEF ClockLocks, Ticks, HostInv, ClockOK
  <2>2. /\ status' = [status EXCEPT ![r] = "locked"]
        /\ UNCHANGED <<announced, wallet, staked, net, job, inbox, page, conn, missed>>
    BY <1>1, <2>1 DEF ClockLocks, Ticks
  <2>3. status'[r] = "locked" /\ \A s \in RoundIDs \ {r} : status'[s] = status[s]
    BY <2>2 DEF TypeOK
  <2>4. Unfinished' = Unfinished /\ Unfinished \subseteq RoundIDs
    BY <2>1, <2>2, <2>3 DEF Unfinished
  <2>5. \A u \in RoundIDs : /\ Opening(u)' <=> Opening(u)
                            /\ status[u] # "none" => status'[u] # "none"
    BY <2>2, <2>3 DEF Opening
  <2>6. ASSUME NEW p \in Players, NEW v \in PageStates, Expects(p, v), Sees(p, v), Owes(p, v)
        PROVE  Expects(p, v)' /\ Sees(p, v)' /\ Owes(p, v)'
    <3>1. ASSUME NEW u \in Unfinished  PROVE Before(u, p)' = Before(u, p)
      BY <2>1, <2>2, <2>3, <2>4 DEF Before, Live
    <3>2. Silent(p)' <=> Silent(p)
      BY <2>2 DEF Silent
    <3>. QED
      BY <2>2, <2>4, <2>5, <2>6, <3>1, <3>2, Quiet
  <2>. QED
    BY <2>6 DEF PageInv
<1>2. CASE ClockAnnouncesLock(r)
  <2>1. PICK e : e = Event("round_locked", r, 0)
    OBVIOUS
  <2>2. e \in Events /\ e.type = "round_locked"
    BY <2>1, EventTypes
  <2>3. ToAll(e) /\ UNCHANGED <<status, announced, wallet, staked, net, job, page, conn, missed>>
    BY <1>2, <2>1 DEF ClockAnnouncesLock
  <2>4. \A u \in RoundIDs : Opening(u)' <=> Opening(u)
    BY <2>3 DEF Opening
  <2>5. ASSUME NEW p \in Players, NEW v \in PageStates, Expects(p, v), Sees(p, v), Owes(p, v)
        PROVE  \E w \in PageStates : Expects(p, w)' /\ Sees(p, w)' /\ Owes(p, w)'
    <3>1. Silent(p) => Silent(p)'
      BY <2>3 DEF Silent
    <3>. QED
      BY <2>2, <2>3, <2>4, <2>5, <3>1, Hears
  <2>. QED
    BY <2>5 DEF PageInv
<1>3. CASE ClockRefunds(r)
  <2>1. /\ UNCHANGED <<announced, staked, net, job, inbox, page, conn, missed>>
        /\ \/ /\ status[r] = "locked" /\ status' = [status EXCEPT ![r] = "refunded"]
              /\ wallet' = [p \in Players |-> wallet[p] + staked[r][p]]
           \/ UNCHANGED <<status, wallet>>
    BY <1>3 DEF ClockRefunds
  <2>2. \A u \in RoundIDs : Opening(u)' <=> Opening(u)
    BY <2>1 DEF Opening
  <2>3. ASSUME NEW p \in Players, NEW v \in PageStates, Expects(p, v), Sees(p, v), Owes(p, v)
        PROVE  Expects(p, v)' /\ Sees(p, v)' /\ Owes(p, v)'
    <3>1. Silent(p)' <=> Silent(p)
      BY <2>1 DEF Silent
    <3>2. CASE UNCHANGED <<status, wallet>>
      <4>1. Unfinished' = Unfinished /\ \A u \in Unfinished : Before(u, p)' = Before(u, p)
        BY <2>1, <3>2 DEF Unfinished, Before
      <4>. QED
        BY <2>1, <2>2, <2>3, <3>1, <3>2, <4>1, Quiet
    <3>3. CASE ~UNCHANGED <<status, wallet>>
      <4>1. /\ status[r] = "locked" /\ status'[r] = "refunded"
            /\ \A s \in RoundIDs \ {r} : status'[s] = status[s]
            /\ wallet'[p] = wallet[p] + staked[r][p]
        BY <2>1, <3>3 DEF TypeOK
      <4>2. r \in Unfinished /\ \A u \in Unfinished : u = r
        <5>1. r \in Unfinished
          BY <4>1, Runs DEF Live
        <5>. QED
          BY <5>1, Runs
      <4>3. Unfinished' = Unfinished
        BY <2>1, <4>1 DEF Unfinished
      <4>4. Before(r, p)' = Before(r, p)
        BY <4>1 DEF Before, Live
      <4>5. \A u \in RoundIDs : status[u] # "none" => status'[u] # "none"
        BY <4>1
      <4>. QED
        BY <2>1, <2>2, <2>3, <3>1, <4>2, <4>3, <4>4, <4>5, Quiet
    <3>. QED
      BY <3>2, <3>3
  <2>. QED
    BY <2>3 DEF PageInv
<1>. QED
  BY <1>1, <1>2, <1>3, ClearsOwes, RefundsOwes DEF Clock

\* A wager is asked for by a page that shows a round open.
LEMMA AskBetOwes ==
  ASSUME TypeOK, HostInv, StakesOK, PageInv, NEW q \in Players, PlayerAsksBet(q)
  PROVE  PageInv'
<1>. USE DEF room, server, browsers
<1>1. PICK a \in Amounts : Ask(q, "bet", a)
  BY DEF PlayerAsksBet
<1>2. /\ UNCHANGED <<status, announced, wallet, staked, net, inbox, page, conn, missed>>
      /\ page[q].round # None
  BY <1>1 DEF PlayerAsksBet, Ask, StakesOK
<1>3. \A p \in Pages \ {q} : job'[p] = job[p]
  BY <1>1, JobMoves DEF Pages
<1>4. /\ Unfinished' = Unfinished
      /\ \A r \in RoundIDs : Opening(r)' <=> Opening(r)
  BY <1>2, <1>3 DEF Unfinished, Opening, Pages
<1>5. ASSUME NEW p \in Players, NEW v \in PageStates, Expects(p, v), Sees(p, v), Owes(p, v)
      PROVE  Expects(p, v)' /\ Sees(p, v)' /\ Owes(p, v)'
  <2>1. v.round = None /\ Silent(p) => Silent(p)'
    <3>1. CASE p = q
      BY <1>2, <1>5, <3>1 DEF Sees, Unseen
    <3>2. CASE p # q
      BY <1>3, <3>2 DEF Silent, Pages
    <3>. QED
      BY <3>1, <3>2
  <2>2. \A u \in Unfinished : Before(u, p)' = Before(u, p)
    BY <1>2 DEF Before
  <2>. QED
    BY <1>2, <1>4, <1>5, <2>1, <2>2, Quiet
<1>. QED
  BY <1>5 DEF PageInv

\* A wager that is placed moves what p had from the wallet to the stake.
LEMMA PlaceOwes ==
  ASSUME TypeOK, HostInv, PageInv, NEW q \in Players, BetPlaces(q)
  PROVE  PageInv'
<1>. USE DEF room, server, browsers
<1>0. q \in Pages /\ q # Host /\ job \in [Pages -> Jobs] /\ NoJob.at = "idle"
  BY DEF Pages, TypeOK, NoJob
<1>1. /\ UNCHANGED <<announced, inbox, page, conn, missed>> /\ job[q].at = "bet"
      /\ \/ Done(q) /\ UNCHANGED room
         \/ /\ index # None /\ status[index] = "open" /\ wallet[q] >= job[q].amount
            /\ wallet' = [wallet EXCEPT ![q] = @ - job[q].amount]
            /\ staked' = [staked EXCEPT ![index][q] = @ + job[q].amount]
            /\ UNCHANGED <<status, net>>
            /\ \E said, amount :
                 job' = [job EXCEPT ![q].at = "quoting", ![q].round = index,
                                    ![q].said = said, ![q].amount = amount]
  BY DEF BetPlaces, Handling
<1>2. UNCHANGED <<status, net>>
  BY <1>1
<1>3. /\ \A p \in Pages \ {q} : job'[p] = job[p]
      /\ Silent(q) => Silent(q)'
  <2>1. CASE Done(q)
    BY <1>0, <2>1 DEF Done, Silent
  <2>2. CASE ~Done(q)
    <3>1. PICK said, amount :
            job' = [job EXCEPT ![q].at = "quoting", ![q].round = index,
                               ![q].said = said, ![q].amount = amount]
      BY <1>1, <2>2
    <3>2. job'[q].lost = job[q].lost /\ \A p \in Pages \ {q} : job'[p] = job[p]
      BY <1>0, <3>1 DEF Jobs
    <3>. QED
      BY <1>1, <3>2 DEF Silent
  <2>. QED
    BY <2>1, <2>2
<1>4. /\ Unfinished' = Unfinished
      /\ \A r \in RoundIDs : Opening(r)' <=> Opening(r)
  BY <1>0, <1>1, <1>2, <1>3 DEF Unfinished, Opening, Pages
<1>5. ASSUME NEW p \in Players
      PROVE  /\ Unfinished = {} => wallet'[p] = wallet[p]
             /\ \A u \in Unfinished : /\ Before(u, p)' = Before(u, p)
                                      /\ staked'[u][p] = 0 => staked[u][p] = 0
  <2>1. CASE UNCHANGED room
    BY <1>2, <2>1 DEF Before
  <2>2. CASE ~UNCHANGED room
    <3>1. PICK a, i : a = job[q].amount /\ i = index
      OBVIOUS
    <3>2. /\ i # None /\ status[i] = "open" /\ wallet[q] >= a
          /\ wallet' = [wallet EXCEPT ![q] = @ - a]
          /\ staked' = [staked EXCEPT ![i][q] = @ + a]
      BY <1>1, <2>2, <3>1
    <3>3. i \in RoundIDs /\ a \in Nat
      BY <1>0, <3>1, <3>2 DEF TypeOK, Jobs
    <3>4. i \in Unfinished /\ \A u \in Unfinished : u = i
      <4>1. i \in Unfinished
        BY <3>2, <3>3, Runs DEF Live
      <4>. QED
        BY <4>1, Runs
    <3>5. /\ wallet'[p] = IF p = q THEN wallet[p] - a ELSE wallet[p]
          /\ staked'[i][p] = IF p = q THEN staked[i][p] + a ELSE staked[i][p]
          /\ wallet[p] \in Nat /\ staked[i][p] \in Nat
      BY <3>2, <3>3 DEF TypeOK
    <3>6. Before(i, p) = wallet[p] + staked[i][p] /\ Before(i, p)' = wallet'[p] + staked'[i][p]
      BY <1>2, <3>2 DEF Before, Live
    <3>7. Before(i, p)' = Before(i, p) /\ (staked'[i][p] = 0 => staked[i][p] = 0)
      BY <3>3, <3>5, <3>6
    <3>. QED
      BY <3>4, <3>7
  <2>. QED
    BY <2>1, <2>2
<1>6. ASSUME NEW p \in Players, NEW v \in PageStates, Expects(p, v), Sees(p, v), Owes(p, v)
      PROVE  Expects(p, v)' /\ Sees(p, v)' /\ Owes(p, v)'
  <2>1. Silent(p) => Silent(p)'
    BY <1>3 DEF Silent, Pages
  <2>. QED
    BY <1>1, <1>2, <1>4, <1>5, <1>6, <2>1, Quiet
<1>. QED
  BY <1>6 DEF PageInv

\* The answer, if it comes in time and is heard, is for the round the page
\* shows, or for one it no longer shows.
LEMMA ReplyOwes ==
  ASSUME TypeOK, HostInv, StakesOK, PageInv, NEW q \in Players, BetReplies(q)
  PROVE  PageInv'
<1>. USE DEF room, server, browsers
<1>0. q \in Pages /\ q # Host /\ job \in [Pages -> Jobs] /\ NoJob.at = "idle"
  BY DEF Pages, TypeOK, NoJob
<1>1. PICK r : r = job[q].round
  OBVIOUS
<1>2. PICK e : e = Event("wager_accepted", r, job[q].amount)
  OBVIOUS
<1>3. /\ job[q].at = "replying" /\ Done(q)
      /\ inbox' = IF job[q].lost THEN inbox ELSE [inbox EXCEPT ![q] = Append(@, e)]
      /\ missed' = [missed EXCEPT ![q] = IF r \in announced THEN "answer" ELSE @]
      /\ UNCHANGED <<status, announced, wallet, staked, net, page, conn>>
  BY <1>1, <1>2 DEF BetReplies, Handling
<1>4. /\ r \in RoundIDs /\ status[r] # "none" /\ staked[r][q] # 0
      /\ e \in Events /\ e.type = "wager_accepted" /\ e.round = r
  <2>1. r \in RoundIDs /\ job[q].amount \in Int
    BY <1>0, <1>1, <1>3 DEF TypeOK, Past, Jobs
  <2>2. status[r] # "none" /\ staked[r][q] # 0
    BY <1>1, <1>3 DEF StakesOK
  <2>. QED
    BY <1>2, <2>1, <2>2, EventTypes
<1>5. job'[q].at = "idle" /\ \A p \in Pages \ {q} : job'[p] = job[p]
  BY <1>0, <1>3 DEF Done
<1>6. /\ Unfinished' = Unfinished
      /\ \A s \in RoundIDs : Opening(s)' <=> Opening(s)
      /\ \A u \in RoundIDs : \A p \in Players : Before(u, p)' = Before(u, p)
  BY <1>0, <1>3, <1>5 DEF Unfinished, Opening, Pages, Before
<1>7. \A p \in Players : /\ missed'[p] = "nothing" => missed[p] = "nothing"
                         /\ p # q => missed'[p] = missed[p]
  BY <1>3 DEF TypeOK
<1>8. missed'[q] = "nothing" => r \notin announced
  BY <1>3 DEF TypeOK
<1>9. ASSUME NEW p \in Players, NEW v \in PageStates, Expects(p, v), Sees(p, v), Owes(p, v)
      PROVE  \E w \in PageStates : Expects(p, w)' /\ Sees(p, w)' /\ Owes(p, w)'
  <2>0. p \in Pages /\ (Silent(p) => Silent(p)')
    BY <1>5 DEF Silent, Pages
  <2>1. CASE p # q \/ job[q].lost
    <3>1. inbox'[p] = inbox[p]
      BY <1>3, <2>1 DEF TypeOK
    <3>. QED
      BY <1>3, <1>6, <1>7, <1>9, <2>0, <3>1, Quiet, Runs
  <2>2. CASE p = q /\ ~job[q].lost
    <3>0. inbox'[p] = Append(inbox[p], e)
      BY <1>0, <1>3, <2>2 DEF TypeOK
    <3>1. PICK w : w = ReduceRound(v, e)
      OBVIOUS
    <3>2. w \in PageStates /\ Expects(p, w)' /\ (Unseen(p)' <=> Unseen(p))
      BY <1>3, <1>4, <1>9, <2>0, <3>0, <3>1, ExpectsMore
    <3>3. /\ w.round = v.round /\ w.atOpen = v.atOpen /\ w.known = v.known
          /\ v.round # None /\ v.round # r => w.balance = v.balance
      BY <1>4, <3>1, ReducedBalance
    <3>4. v.round # None
      BY <1>3, <1>9, <2>2 DEF Sees, Silent
    <3>5. v.round \in RoundIDs
      BY <3>4 DEF PageStates
    <3>6. Sees(p, w)'
      <4>1. /\ status'[v.round] # "none" /\ ~Opening(v.round)'
            /\ \A u \in Unfinished : v.round = u \/ Opening(u)'
        <5>1. /\ status[v.round] # "none" /\ ~Opening(v.round)
              /\ \A u \in Unfinished : u \in RoundIDs /\ (v.round = u \/ Opening(u))
          BY <1>9, <3>4 DEF Sees, Unfinished
        <5>. QED
          BY <1>3, <1>6, <3>5, <5>1
      <4>2. ~Unseen(p)' /\ conn'[p] # "away"
        BY <1>3, <1>9, <3>2, <3>4 DEF Sees
      <4>. QED
        BY <1>6, <3>3, <3>4, <4>1, <4>2 DEF Sees
    <3>7. ASSUME conn[p] = "greeted", missed'[p] = "nothing"
          PROVE  /\ w.known /\ Unfinished # {}
                 /\ \A u \in Unfinished :
                      /\ w.round = u => w.atOpen = Before(u, p)
                      /\ w.round # u \/ staked[u][p] = 0 => w.balance = Before(u, p)
      <4>1. r \in Unfinished /\ \A u \in Unfinished : u = r
        <5>1. r \in Unfinished
          BY <1>4, <1>8, <2>2, <3>7 DEF Unfinished
        <5>. QED
          BY <5>1, Runs
      <4>2. /\ v.known
            /\ v.round = r => v.atOpen = Before(r, p)
            /\ v.round # r => v.balance = Before(r, p)
        BY <1>7, <1>9, <3>7, <4>1 DEF Owes
      <4>. QED
        BY <1>4, <2>2, <3>3, <3>4, <4>1, <4>2
    <3>8. Owes(p, w)'
      <4>1. \A u \in Unfinished : u \in RoundIDs
        BY DEF Unfinished
      <4>. QED
        BY <1>3, <1>6, <3>7, <4>1 DEF Owes
    <3>. QED
      BY <3>2, <3>6, <3>8
  <2>. QED
    BY <2>1, <2>2
<1>. QED
  BY <1>9 DEF PageInv

\* A wager's odds go to everybody.
LEMMA BetOwes ==
  ASSUME TypeOK, HostInv, StakesOK, PageInv, NEW q \in Players, PlayerAsksBet(q) \/ BetHandler(q)
  PROVE  PageInv'
<1>. USE DEF room, server, browsers
<1>1. CASE BetQuotes(q)
  <2>0. q \in Pages /\ q # Host /\ job \in [Pages -> Jobs]
    BY DEF Pages, TypeOK
  <2>1. PICK e : e = Event("odds_updated", job[q].round, job[q].said)
    OBVIOUS
  <2>2. job[q].at = "quoting" /\ job[q].round \in RoundIDs /\ job[q].said \in Int
    BY <1>1, <2>0 DEF BetQuotes, Handling, TypeOK, Past, Jobs
  <2>3. e \in Events /\ e.type = "odds_updated"
    BY <2>1, <2>2, EventTypes
  <2>4. ToAll(e) /\ UNCHANGED <<status, announced, wallet, staked, net, page, conn, missed>>
    BY <1>1, <2>1 DEF BetQuotes
  <2>5. job'[q].lost = job[q].lost /\ \A p \in Pages \ {q} : job'[p] = job[p]
    BY <1>1, <2>0 DEF BetQuotes, Moves, Jobs
  <2>6. \A u \in RoundIDs : Opening(u)' <=> Opening(u)
    BY <2>0, <2>5 DEF Opening, Pages
  <2>7. ASSUME NEW p \in Players, NEW v \in PageStates, Expects(p, v), Sees(p, v), Owes(p, v)
        PROVE  \E w \in PageStates : Expects(p, w)' /\ Sees(p, w)' /\ Owes(p, w)'
    <3>1. Silent(p) => Silent(p)'
      BY <2>2, <2>5 DEF Silent, Pages
    <3>. QED
      BY <2>3, <2>4, <2>6, <2>7, <3>1, Hears
  <2>. QED
    BY <2>7 DEF PageInv
<1>. QED
  BY <1>1, AskBetOwes, PlaceOwes, ReplyOwes DEF BetHandler

\* Pages read, come back and are reloaded.
LEMMA BrowserOwes ==
  ASSUME TypeOK, HostInv, StakesOK, PageInv, NEW q \in Pages, Browser(q) \/ Reload(q)
  PROVE  PageInv'
<1>. USE DEF room, server, browsers
<1>0. (\A p \in Players : p \in Pages) /\ job \in [Pages -> Jobs]
  BY DEF Pages, TypeOK
<1>1. /\ UNCHANGED <<status, announced, wallet, staked, net>>
      /\ Unfinished' = Unfinished
      /\ \A u \in Unfinished : u \in RoundIDs /\ \A p \in Players : Before(u, p)' = Before(u, p)
  BY DEF Browser, PageReceives, Rejoin, Greet, Reload, Unfinished, Before
<1>2. /\ \A p \in Pages : job'[p].at = job[p].at /\ job'[p].round = job[p].round
      /\ \A p \in Pages \ {q} : job'[p] = job[p]
  BY <1>0 DEF Browser, PageReceives, Rejoin, Greet, Reload, Jobs
<1>3. \A u \in RoundIDs : Opening(u)' <=> Opening(u)
  BY <1>2 DEF Opening, Pages
<1>4. \A p \in Pages \ {q} : inbox'[p] = inbox[p] /\ page'[p] = page[p] /\ conn'[p] = conn[p]
  BY DEF Browser, PageReceives, Rejoin, Greet, Reload, TypeOK
<1>5. \A p \in Players \ {q} : missed'[p] = missed[p]
  BY DEF Browser, PageReceives, Rejoin, Greet, Reload, TypeOK
<1>6. ASSUME NEW p \in Players, NEW v \in PageStates, Expects(p, v), Sees(p, v), Owes(p, v)
      PROVE  \E w \in PageStates : Expects(p, w)' /\ Sees(p, w)' /\ Owes(p, w)'
  <2>1. CASE p # q
    <3>1. Silent(p)' <=> Silent(p)
      BY <1>0, <1>2, <2>1 DEF Silent
    <3>. QED
      BY <1>0, <1>1, <1>3, <1>4, <1>5, <1>6, <2>1, <3>1, Quiet
  <2>2. CASE p = q /\ PageReceives(q)
    <3>1. /\ inbox[p] # << >> /\ inbox'[p] = Tail(inbox[p])
          /\ page'[p] = ReduceRound(page[p], Head(inbox[p]))
          /\ UNCHANGED <<job, conn, missed>>
      BY <1>0, <2>2 DEF PageReceives, TypeOK
    <3>2. Expects(p, v)' /\ (Unseen(p)' <=> Unseen(p))
      BY <1>0, <1>6, <3>1, ExpectsRead
    <3>3. v.round \in RoundIDs \cup {None} /\ (Silent(p)' <=> Silent(p))
      BY <3>1 DEF Silent, PageStates
    <3>4. Unfinished \subseteq RoundIDs
      BY <1>1
    <3>. QED
      BY <1>1, <1>3, <1>6, <3>1, <3>2, <3>3, <3>4, Stays
  <2>3. CASE p = q /\ Rejoin(q)
    <3>1. conn'[p] = "joined" /\ UNCHANGED <<job, inbox, page, missed>>
      BY <1>0, <2>3 DEF Rejoin, TypeOK
    <3>2. Silent(p)' <=> Silent(p)
      BY <3>1 DEF Silent
    <3>. QED
      BY <1>1, <1>3, <1>6, <3>1, <3>2, Quiet
  <2>4. CASE p = q /\ Greet(q)
    <3>0. PICK e : e = Event("connected", None, wallet[p])
      OBVIOUS
    <3>1. /\ conn'[p] = "greeted" /\ inbox'[p] = Append(inbox[p], e)
          /\ missed'[p] = IF MissedOpening(p) THEN "opening" ELSE "nothing"
          /\ UNCHANGED <<job, page>>
      BY <1>0, <2>4, <3>0 DEF Greet, TypeOK
    <3>2. e \in Events /\ e.type = "connected" /\ e.n = wallet[p]
      <4>1. wallet[p] \in Int
        BY DEF TypeOK
      <4>. QED
        BY <3>0, <4>1, EventTypes
    <3>3. PICK w : w = ReduceRound(v, e)
      OBVIOUS
    <3>4. w \in PageStates /\ Expects(p, w)' /\ (Unseen(p)' <=> Unseen(p))
      BY <1>0, <1>6, <3>1, <3>2, <3>3, ExpectsMore
    <3>5. w.round = v.round /\ w.atOpen = v.atOpen /\ w.balance = wallet[p] /\ w.known
      BY <3>2, <3>3, ReducedBalance
    <3>6. Silent(p)' <=> Silent(p)
      BY <3>1 DEF Silent
    <3>7. Sees(p, w)'
      <4>1. v.round \in RoundIDs \cup {None}
        BY DEF PageStates
      <4>2. v.round # None => /\ status'[v.round] # "none" /\ ~Opening(v.round)'
                              /\ \A u \in Unfinished : v.round = u \/ Opening(u)'
        <5>1. v.round # None => /\ status[v.round] # "none" /\ ~Opening(v.round)
                                /\ \A u \in Unfinished : v.round = u \/ Opening(u)
          BY <1>6 DEF Sees
        <5>. QED
          BY <1>1, <1>3, <4>1, <5>1
      <4>3. /\ v.round = None => v.atOpen = None /\ Silent(p)' /\ Unseen(p)'
            /\ Unseen(p)' => v.round = None
            /\ conn'[p] # "away"
        BY <1>6, <3>1, <3>4, <3>6 DEF Sees
      <4>. QED
        BY <1>1, <3>5, <4>2, <4>3 DEF Sees
    <3>8. ASSUME missed'[p] = "nothing"
          PROVE  \A u \in Unfinished : v.round # u /\ staked[u][p] = 0
      <4>1. ~MissedOpening(p)
        BY <3>1, <3>8
      <4>2. v.round = None
        BY <1>6, <4>1 DEF MissedOpening, Unseen, Sees
      <4>3. ASSUME NEW u \in Unfinished  PROVE v.round # u /\ staked[u][p] = 0
        <5>1. u \in RoundIDs /\ u \notin announced /\ staked[u][p] \in Nat
          BY DEF Unfinished, TypeOK
        <5>2. ~(staked[u][p] > 0)
          BY <4>1, <5>1 DEF MissedOpening, Unannounced
        <5>. QED
          BY <4>2, <5>1, <5>2 DEF RoundIDs
      <4>. QED
        BY <4>3
    <3>9. missed'[p] = "nothing" => \A u \in Unfinished : v.round # u /\ Before(u, p)' = wallet[p]
      BY <1>1, <3>8, NoStake
    <3>10. Owes(p, w)'
      BY <1>1, <3>5, <3>9 DEF Owes
    <3>. QED
      BY <3>4, <3>7, <3>10
  <2>5. CASE p = q /\ Reload(q)
    <3>1. /\ conn'[p] = "away" /\ inbox'[p] = << >> /\ page'[p] = InitialPage
          /\ job'[p].lost = (job[p] # NoJob)
      BY <1>0, <2>5 DEF Reload, TypeOK, Jobs
    <3>2. InitialPage \in PageStates /\ InitialPage.round = None /\ InitialPage.atOpen = None
      BY InitialPageType DEF InitialPage
    <3>3. Expects(p, InitialPage)'
      BY <1>0, <3>1, <3>2, ExpectsReset
    <3>4. Silent(p)'
      BY <1>0, <1>2, <3>1, NoJobType DEF Silent
    <3>5. Unseen(p)'
      BY <3>1, <3>2 DEF Unseen
    <3>6. Sees(p, InitialPage)'
      BY <3>1, <3>2, <3>4, <3>5 DEF Sees
    <3>7. Owes(p, InitialPage)'
      BY <3>1 DEF Owes
    <3>. QED
      BY <3>2, <3>3, <3>6, <3>7
  <2>. QED
    BY <2>1, <2>2, <2>3, <2>4, <2>5 DEF Browser
<1>. QED
  BY <1>6 DEF PageInv

\* At first a page shows the wallet, and no round.
LEMMA PageInit == Init => PageInv
<1>. SUFFICES ASSUME Init  PROVE PageInv
  OBVIOUS
<1>. DEFINE v == [InitialPage EXCEPT !.known = TRUE]
<1>1. /\ v \in PageStates /\ v.round = None /\ v.atOpen = None /\ v.known /\ v.balance = Grant
  BY InitialPageType DEF InitialPage
<1>. HIDE DEF v
<1>2. ASSUME NEW p \in Players  PROVE Expects(p, v) /\ Sees(p, v) /\ Owes(p, v)
  <2>1. p \in Pages /\ inbox[p] = << >> /\ page[p] = v /\ job[p] = NoJob /\ conn[p] = "greeted"
    BY DEF Init, Pages, v
  <2>2. Expects(p, v)
    <3>. DEFINE h == [i \in 0..0 |-> v]
    <3>1. Len(inbox[p]) = 0 /\ h \in [0..0 -> PageStates] /\ h[0] = v /\ \A i \in 1..0 : FALSE
      BY <1>1, <2>1
    <3>. HIDE DEF h
    <3>. QED
      BY <2>1, <3>1 DEF Expects, Reads
  <2>3. Unseen(p) /\ Silent(p)
    BY <1>1, <2>1, NoJobType DEF Unseen, Silent
  <2>4. Sees(p, v)
    BY <1>1, <2>1, <2>3 DEF Sees
  <2>5. Unfinished = {} /\ wallet[p] = Grant
    BY DEF Init, Unfinished
  <2>6. Owes(p, v)
    BY <1>1, <2>5 DEF Owes
  <2>. QED
    BY <2>2, <2>4, <2>6
<1>. QED
  BY <1>1, <1>2 DEF PageInv

\* Every step keeps what the pages will show in step with the wallets.
LEMMA PageStep ==
  ASSUME TypeOK, TypeOK', HostInv, HostInv', StakesOK, PageInv, [Next]_vars
  PROVE  PageInv'
<1>1. CASE UNCHANGED vars
  <2>. USE DEF vars, room, server, browsers
  <2>1. ASSUME NEW p \in Players, NEW v \in PageStates, Expects(p, v), Sees(p, v), Owes(p, v)
        PROVE  Expects(p, v)' /\ Sees(p, v)' /\ Owes(p, v)'
    <3>1. /\ Unfinished' = Unfinished /\ (Silent(p)' <=> Silent(p))
          /\ \A u \in RoundIDs : Opening(u)' <=> Opening(u)
          /\ \A u \in Unfinished : Before(u, p)' = Before(u, p)
      BY <1>1 DEF Unfinished, Silent, Opening, Before
    <3>. QED
      BY <1>1, <2>1, <3>1, Quiet
  <2>. QED
    BY <2>1 DEF PageInv
<1>2. CASE HostAsksOpen \/ HostAsksResolve \/ HostHandler \/ ResolveClearFails
  BY <1>2, AskOwes, CreatesOwes, AnnouncesOwes, SettlesOwes, ClearsOwes, RevealsOwes
     DEF HostHandler
<1>3. ASSUME NEW r \in RoundIDs, Clock(r) \/ ClockClearFails(r)  PROVE PageInv'
  BY <1>3, ClockOwes, ClearsOwes
<1>. QED
  BY <1>1, <1>2, <1>3, BetOwes, BrowserOwes DEF Next

(***************************************************************************)
(* The page never asks for its balance again.  Yet when a page that missed *)
(* neither an opening nor an answer has read everything and no stake of    *)
(* its player's is left to be announced, it shows the wallet, whatever the *)
(* order in which the wagers, locks, settlements and refunds of any number *)
(* of players, rounds and reloads happened (roundState.ts, HostConsole.tsx,*)
(* wager/service.go Place, round/service.go Resolve).                      *)
(***************************************************************************)
THEOREM WalletCorrect ==
  PromptPages /\ Host \notin Reloaders => (Spec => []PageShowsWallet)
<1>. SUFFICES ASSUME PromptPages, Host \notin Reloaders
              PROVE  Spec => []PageShowsWallet
  OBVIOUS
<1>1. ASSUME TypeOK, HostInv, StakesOK, PageInv  PROVE PageShowsWallet
  <2>. SUFFICES ASSUME NEW p \in Players, CaughtUp(p), missed[p] = "nothing"
                PROVE  page[p].balance = wallet[p]
    BY DEF PageShowsWallet
  <2>1. PICK v \in PageStates : Expects(p, v) /\ Owes(p, v) /\ Sees(p, v)
    BY <1>1 DEF PageInv
  <2>2. v = page[p]
    BY <2>1, ExpectsNow DEF CaughtUp, Pages
  <2>3. /\ Unfinished = {} => v.balance = wallet[p]
        /\ \A u \in Unfinished : staked[u][p] = 0 => v.balance = Before(u, p)
    BY <2>1 DEF Owes, CaughtUp
  <2>4. \A u \in Unfinished : staked[u][p] = 0
    <3>1. ASSUME NEW u \in Unfinished  PROVE staked[u][p] = 0
      <4>1. u \in RoundIDs /\ u \notin announced /\ staked[u][p] \in Nat
        BY <1>1 DEF Unfinished, TypeOK
      <4>2. ~(staked[u][p] > 0)
        BY <4>1 DEF CaughtUp, Unannounced
      <4>. QED
        BY <4>1, <4>2
    <3>. QED
      BY <3>1
  <2>5. \A u \in Unfinished : Before(u, p) = wallet[p]
    BY <1>1, <2>4, NoStake
  <2>. QED
    BY <2>2, <2>3, <2>4, <2>5
<1>2. TypeOK /\ HostInv /\ [Next]_vars => HostInv'
  BY HostStep
<1>3. TypeOK /\ HostInv /\ StakesOK /\ [Next]_vars => StakesOK'
  BY StakesStep
<1>4. TypeOK /\ TypeOK' /\ HostInv /\ HostInv' /\ StakesOK /\ PageInv /\ [Next]_vars => PageInv'
  BY PageStep
<1>. QED
  BY <1>1, <1>2, <1>3, <1>4, HostInit, StakesInit, PageInit, TypeCorrect, PTL DEF Spec
=============================================================================
