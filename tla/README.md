# CallIt: a verification of the betting engine

CallIt is a play-money betting game. A host opens *rounds* in a room (a question, two or more
outcomes, a lock instant), players stake tokens of their session balance on outcomes, the round
locks, the host declares the winning outcome, and the pool is shared between those who backed it
in proportion to their stakes. A round nobody resolves is refunded 60 seconds after its lockout.

This directory holds the TLA+ models of that program, the TLC runs that check them and the
proofs TLAPS checks. Paths below are relative to `src/backend/` unless they start with
`frontend/` or `docs/`.

## 1. The system

| Component | State it keeps | Operations | Talks to |
|---|---|---|---|
| Round service (`internal/round/service.go`, `timer.go`) | one `watch` goroutine per round: its lock timer and its grace timer | `Open`, `Resolve`, `watch` | the store, the hub (broadcasts) |
| Store (`internal/redisstore`, `scripts/lua`) | Redis: round hash, pools, wagers, bettors, the room's current-round index, session wallets and opening balances, idempotency keys, accounts, room codes, the outbox stream, rate-limit logs | one Lua script, MULTI or command per step: `place_wager`, `lock_round`, `settle_round`, `refund_round`, `top_up_balance`, `claim_unique`, `rate_limit`; `CreateRound`, `CurrentRound`, `ClearCurrentRound`, `JoinRoom`, `ClearSession`, `SetBalance`, ... | |
| Settlement arithmetic (`internal/domain/payout.go`) | none | `Settle`, `playerResults`, and the store's `aggregateStakes` | called by the store between reading stakes and applying them |
| Wager service (`internal/wager`) | none | `Place`: preflight pipeline, script, odds broadcast | the store, the hub |
| Sessions (`internal/round/grace.go`, `session.go`, `internal/room`) | the `pending` map of fold timers | `Create`, `Join`, `ScheduleEndSession`, `ResumeSession`, `EndSession` | the store; called from the WebSocket handler |
| Accounts (`internal/account`) | none (Redis) | `Register`, `Login`, `ClaimRefill` | the store, the rate limiter |
| Outbox relay (`internal/relay`, `internal/events`) | its consumer-group position and pending entries (in Redis) | `EnsureGroup`, `Recover`, `ClaimOrphans`, `Once`, `Run` | reads the stream, produces to Kafka, acknowledges |
| Ledger worker (`internal/ledger`) | its Kafka offset; PostgreSQL journal, entries and balances | `Once`, `Run`, `WriteBatch`, `TransactionFor` | Kafka, PostgreSQL |
| WebSocket hub (`internal/ws`) | hub goroutine: rooms; room goroutine: clients; client: send buffer, two pumps | `Join`, `Leave`, `Broadcast`, `Members`, `Shutdown`, `Send`, pumps | the services, through `router.go` |
| Rate limiter (`internal/redisstore/ratelimit.go`) | a sliding-window log per key (Redis) | `Allow`, `Revoke` | HTTP middleware, router, wager service, refills |
| HTTP API, auth, metrics, configuration | counters and histograms | handlers | all services |
| Room page (`frontend/lib/roundState.ts`, `app/room/[code]/page.tsx`, `components`) | the browser's view of the current round | one reducer case per server event; the host's form and buttons, the wager pad; a reload | the WebSocket |

How they interact: a WebSocket handler runs in the read pump of its connection, one message at a
time, and calls a service; services call the store, then broadcast. Several connections, the
round timers and the fold timers run concurrently and share nothing but Redis. Redis runs a
script alone, so the interesting interleavings are *between* the calls one service operation
makes. Every accepted wager and every settlement is also an entry of the outbox stream, from
which the relay feeds Kafka and the worker feeds the double-entry ledger.

### What is hard here, and what must hold

- **Rounds.** A resolve and the refund timer (and a resolve on a second tab) read a status, then
  the stakes, then apply a payout computed in Go. A round must be paid exactly once, with the
  stakes it really holds; the wagers, pools and bettors hashes must agree; no wager may land after
  the settlement; every round must end; the room index must name the live round.
- **Settlement arithmetic.** Integer division: no winner is underpaid by a whole token, dust is
  less than one token per winning stake, the two refund paths agree, the reveal is zero-sum.
- **Wallets.** Tokens are conserved and no wallet is overdrawn, however wagers, settlements and
  retries interleave; an idempotency key debits a round once, although Redis forgets it a day later.
- **Sessions.** A disconnect folds a session into the account 30 seconds later, while its stake may
  be in a round that ends later than that; a rejoin, a second tab, a refill and a fold of another
  room interfere.
- **Pipeline.** At-least-once delivery twice over, with crashes between produce and acknowledge
  and between database commit and offset commit; the ledger must record each entry once, and
  each pool account must end at zero.
- **Refills.** A sliding window whose members are pruned, handed back and dropped with their key: no
  window may admit more than the quota, no paid refill may lose its slot, a retry hint must be true.
- **Hub.** Goroutines commanding each other over unbuffered channels, eviction of slow clients,
  reaping of empty rooms, shutdown, and a channel that one goroutine closes and another sends on. No
  goroutine may wait for one that has returned; a room has one audience; a disconnect is noticed.
- **Pages.** Broadcasts follow the scripts that caused them, from several goroutines: they reach a
  page in an order Redis did not have, and what the page asks for names no round. A page must end
  up showing the wallet and the odds that are in Redis, and a host must settle the round it meant.

`PROJECT.json` lists each hazard at the line where it bites, with the properties that cover it.

## 2. The modules

| Module | Models | |
|---|---|---|
| `Parimutuel` | `payout.go`, `aggregateStakes`, `ReadStakes` as operators on a wagers hash | written |
| `MCParimutuel` | enumerates wagers hashes; what the arithmetic must achieve | written |
| `Store` | what Redis-level operations share: statuses, stream entries, `HINCRBY` of credits | written |
| `AtomicRounds` | abstract specification: a round ends in one step that pays the wagers it holds | written |
| `Rounds` | one room: host sockets, players, round clocks, scripts, faults | written |
| `RoundsProperties`, `MCRounds` | properties of `Rounds`; its TLC instances | written |
| `SumProofs` | lemmas on sums over finite sets, `Parimutuel` and `Store` | written |
| `ParimutuelProofs` | the arithmetic, for every wagers hash | written |
| `RoundsProofs` | the control, the stream, the tokens and the refinement of `Rounds`, for every value of the constants | written |
| `Sessions` | one account holder: joins, sockets, fold timers, `EndSession`, refills | written |
| `SessionsProperties`, `MCSessions`, `SessionsProofs` | its properties, instances, theorems | written |
| `ExactlyOnce` | abstract specification of the ledger: each outbox entry is recorded at most once | written |
| `Pipeline` | outbox stream, relay, Kafka, worker, double-entry ledger; the room is `AtomicRounds` | written |
| `PipelineProperties`, `MCPipeline`, `PipelineProofs` | its properties, instance, theorems | written |
| `RateLimit` | the sliding-window script and `Revoke` as operators on a log; used by `Sessions` | written |
| `Audience` | abstract specification of the WebSocket layer: one audience per room, whose members hear every announcement or are dropped | written |
| `Hub` | hub, room, handler, read-pump and write-pump goroutines | written |
| `HubProperties`, `MCHub` | its properties, among them that it implements `Audience`; its instance | written |
| `HubProofs` | the registry, channels and refinement of `Hub`, for every value of the constants | written |
| `RoomPages` | the browsers' pages against the server's broadcasts: the reducer, what a page offers, reloads | written |
| `RoomPagesProperties`, `MCRoomPages`, `RoomPagesProofs` | its properties, its instance, theorems | written |
| `EndToEnd` | `Rounds` beside the relay and the worker of `Pipeline`: the system they make, and its theorems | written |
| rooms and accounts | claiming room codes and user names, the host's wallet | plan, 1st |
| sessions in the composition | sessions over rounds over the pipeline: what reconciliation compares once wallets are cleared | plan, 2nd |

How they compose: `Rounds` and `AtomicRounds` extend `Store`, which extends `Parimutuel`.
`RoundsProofs` shows that `Rounds` implements `AtomicRounds`, and it is for that reason that
`Pipeline` may take `AtomicRounds` (an `INSTANCE`, on shared variables) as the room that feeds it:
whatever the handlers, timers and scripts interleave, the outbox grows as `AtomicRounds` lets it.
`EndToEnd` makes that argument a theorem: it puts `Rounds` itself beside the relay and the worker
(an `INSTANCE` of `PipelineProofs`, on the same room variables) and shows that the system implements
both `Rounds` and `Pipeline`.
`Sessions` stands beside them: it sees a round only as a stake that leaves a wallet and comes back;
it extends `RateLimit`. `Hub` carries payloads without looking at them, and `RoomPages` takes from
it what `ImplementsAudience` shows: whoever is in the room hears every broadcast of the room, in one
order, or is dropped. `RoomPages` has the round in coarser steps than `Rounds`: a script is one step
there too, but reads that decide nothing the pages can see are folded into it.

Every invariant and every action property of the passing runs is proved (section 4), and of each
property that a run shows violated, a condition under which it holds. Planned next: sessions in
the composition, and theorems about what the abstract specifications `AtomicRounds`, `ExactlyOnce`
and `Audience` promise by themselves.

### How `Rounds` corresponds to the code

One action is one Redis command, script or MULTI, with the local Go code that follows it up to the
next one. `job[x]` is where a goroutine `x` is: a host socket, or the watch goroutine of a round.

| Action | Code |
|---|---|
| `JoinRoom` | `redisstore/room.go JoinRoom` (both HSETNX in one MULTI) |
| `WagerPreflight`, `PlaceWager`, `RefuseWager` | `wager/service.go Place`: the pipelined read of the index, then `place_wager.lua` on the round it named |
| `AcceptWager` / `RecordWager` | the guards / the writes of `place_wager.lua` |
| `LockInstantPasses` | Redis TIME reaching `lock_at_ms`; independent of the API's timer |
| `KeyExpires` | Redis drops a cached reply (`EX 86400`, `place_wager.lua:103`) |
| `OpenReadIndex`, `OpenCheckCurrent`, `CreateRound`, `StartWatch` | `Service.Open` call by call |
| `ResolveReadIndex`, `CheckLocked`, `ReadStakes`, `SettleApply`, `ClearCurrentRound` | `Service.Resolve` and `Store.SettleRound` |
| `WatchLock`, `WatchReread`, `CheckLocked`, `ReadStakes`, `RefundApply`, `ClearCurrentRound` | `Service.watch` and `Store.RefundRound` |
| `CallFails`, `ApiCrash` | an error return at any step; the death (or shutdown) of the API process. A call that took effect and whose reply was lost is the action followed by `CallFails`. |

Abstractions. A timer may go off at any moment, so neither the order of the two clocks nor the
60 seconds are assumed. Of the 24 hours of a cached reply one thing is: they are longer than the
120 seconds (`MaxLockIn`) that a round takes wagers, so a key does not expire while the script would
accept another wager on the round of the first. Round identifiers stand for UUIDs and are used once.
A wagers hash is a function from (user, outcome) to the amount, 0 for a missing field: `HINCRBY`
never leaves a zero because stakes are positive. Refusals decided before a Redis call is made (not
the host, an invalid spec, a rate limit) leave the state alone and are not steps. `RefuseWager`
covers every refusal of the script, since a player may always name an outcome that does not exist.
The socket of a host handles one message at a time, as `ReadPump` does; several sockets are several
tabs.

### How `Sessions` corresponds to the code

| Action | Code |
|---|---|
| `JoinReadAccount`, `JoinRoom` | the join handler's read of the account, then `room.Service.Join` with `Store.JoinRoom` |
| `PlaceWager`, `RoundPays` | what `place_wager.lua`, and `settle_round.lua` or `refund_round.lua`, do to one wallet |
| `Connect` | `ws.Handler`: `ResumeSession`, then `hub.Join` |
| `Disconnect` | `ws.Handler` after the read pump: `Leave`, then `ScheduleEndSession` |
| `FoldCancelled`, `FoldFires` | the `select` of the fold goroutine; the re-check of its identity under the mutex |
| `FoldReadUser`, `FoldReadOpening`, `FoldReadWallet`, `FoldClaim`, `FoldCredit` | the five Redis calls of `EndSession`, with its early returns |
| `ClaimCheck`, `ClaimAllow`, `TopUp`, `Revoke` | `account.Service.ClaimRefill` call by call; `ClaimAllow` is `rate_limit.lua`, each of its commands an operator of `RateLimit` |
| `Tick` | Redis TIME advances, and drops the log's key when `PEXPIRE` says so |
| `CallFails`, `ApiCrash` | an error at any of those calls; the death of the API process, which takes the pending map and its timers with it |

Abstractions. One account holder stands for each: users share no wallet, account or fold. Guests
are never scheduled, so nothing here happens to them. `select` may take the timer although the
channel is closed, as Go's may. Rounds are a stake and what it is paid; a player has one stake per
room at a time. A log maps every claim to the instant it was admitted: the sorted set with a fresh
UUID per attempt as member. A denied claim's hint is kept as the instant it points to, with the
claims that were in its way; that and the instant of a claim that was credited are history.
`PromptCalls` says that the five calls of `EndSession` take less than the 30 seconds of grace, so
that one fold of a room ends before the next can start; `sessions_claims` does without it.

The limiter's other users (HTTP routes, wagers, joins) call the same `Allow` and never revoke: what
is proved of refills holds of them with no claim ever at "revoke".

### How `Pipeline` corresponds to the code

| Action | Code |
|---|---|
| `RoomStep` | a step of `AtomicRounds`: the room moves money and appends to the stream |
| `RelayStarts` | `cmd/relay` starts under a fresh consumer ID; `EnsureGroup` |
| `ClaimOrphans` | `XAUTOCLAIM` of everything pending, page by page |
| `Recover`, `ReadNew` | `XREADGROUP` from `0`, repeated until it finds nothing, then from `>` |
| `Produce` | one message of `KafkaProducer.Produce` reaches its partition |
| `Ack` | `XACK` of the whole batch, after `Produce` returned nil |
| `RelayStops` | a crash, or any error: `Run` returns it and the process exits |
| `WorkerStarts`, `Fetch`, `WriteBatch`, `CommitOffsets` | `NewKafkaConsumer`; `Worker.Once` gathering, writing and committing |
| `FetchFails` | the return at `worker.go:70` |
| `WorkerStops` | a crash, or an error: the process exits and PostgreSQL rolls back what was not committed |

Abstractions. A message is the place of its entry in the outbox, so a repetition can be told from a
new message. A room uses one partition of each topic (messages are keyed by room); other rooms on it
would only be interleaved. Messages reach a partition one by one in order: that covers every way in
which the client library splits a batch, and a retry inside the library looks like a relay that
stopped and recovered. There is one relay (the comment at `relay.go:86-90`: one Compose service, a
one-replica StatefulSet) and one worker. Orphans are claimed in one step, since nobody else touches
the group meanwhile. Decoding and `ErrUnbalanced` never refuse an entry that the scripts wrote:
`Reconciled` checks that each one balances. The stream is never trimmed, and topics exist.

### How `Hub` corresponds to the code

| Action | Code |
|---|---|
| `HubJoins` | `ws.Handler` up to the return of `Hub.Join`: the hub gets or creates the room and waits for `Room.Join` |
| `Greets`, `Announces` | the handler's `connected` and `player_joined` to the newcomer; `player_joined` to the room, and the pumps start |
| `NewsComes`, `Broadcasts`, `RoomBroadcasts` | `Hub.Broadcast` by a round's timer or a service: the caller returns once the hub has the command, the hub then meets the room |
| `HubReaps` | `notifyEmpty` reaches the hub, `Room.close` |
| `HubShutsDown`, `RoomShutsDown`, `HubEndsShutdown` | `Hub.Shutdown`, room by room |
| `Reads`, `AsksNames`, `Replies` | `ReadPump` takes a message; `Hub.Names`; `Client.Send` of a reply or an error |
| `ReadFails`, `Leaves`, `Parts` | a read error; `onClose`: `Room.Leave`, then `player_left` to the room, after which the grace period begins |
| `Writes`, `WriterHangsUp` | `WritePump` |
| `PeerDrops` | the peer hangs up, misses its pongs or stops reading |

Abstractions. A command over an unbuffered channel is one step in which both sides meet; a room
carries a command out without waiting for anyone, so the wait for its answer is part of the same
step unless its goroutine has returned. What a room goroutine would do with a command is
`RoomBroadcast` and `RoomLeave`, with their `done` cases. A buffer is a number of payloads. A room
goroutine is named by the client whose join created it. `closed` records every close of a channel
and is read only for emptiness; `heard` counts broadcasts modulo 2 for the refinement. A send on a
closed channel is "crashed" in a pump, which ends the process, and "abandoned" in the handler, where
`net/http` recovers it.

### How `RoomPages` corresponds to the code

| Action | Code |
|---|---|
| `PageReceives` | one event of the socket through `reduceRound` |
| `HostAsksOpen`, `HostAsksResolve`, `PlayerAsksBet` | what `HostConsole` and `WagerPad` offer in the page's phase, sent as a message |
| `OpenCreates`, `OpenAnnounces` | `Service.Open`: up to `CreateRound`; the broadcast and `go s.watch` |
| `ResolveSettles`, `ResolveClears`, `ResolveReveals` | `Service.Resolve`: up to `SettleRound`; `ClearCurrentRound`; the broadcast |
| `BetPlaces`, `BetQuotes`, `BetReplies` | `wager.Service.Place`, its odds broadcast, the router's `wager_accepted` |
| `ClockLocks`, `ClockAnnouncesLock`, `ClockRefunds`, `ClockClears`, `ClockAnnouncesRefund` | `Service.watch` |
| `ResolveClearFails`, `ClockClearFails` | `ClearCurrentRound` returns an error, having deleted the index or not: both callers return before the broadcast (`unheard`) |
| `Reload`, `Rejoin`, `Greet` | the page is loaded anew; `Hub.Join`; the handler's read of the balance and `connected` |

Abstractions. One host page and one page per player, one connection each; a connection handles one
message at a time. An event carries what the pages tell apart: its round, and a balance, a net or a
total. A settlement returns nothing, the stake or twice the stake, to each player independently,
since only the player's own row reaches the page's state. `PromptPages` says that pages work off
`round_locked`, and the server a `create_round`, within the 60 seconds before a refund; nothing else
is assumed of the order of clocks and pages. Only players reload in the run: the host's balance is
not played with.

## 3. The runs

| Run | Instance | Shows |
|---|---|---|
| `settlement_arithmetic` | 3 users, 3 outcomes, stakes 0..2 each: 19683 hashes, each winner | dust, shares, zero-sum reveal, agreement of the refund paths |
| `rounds_settlement` | 2 players, 2 host sockets, 1 round, 3 keys, grant 2 | two resolves and the timer race over a round with up to three wagers, dust included: one settlement, of current stakes, covering the pool, the hashes in agreement, tokens conserved; the type invariant, so no wallet is overdrawn |
| `rounds_faults` | 1 player, 1 socket, 2 rounds, 1 key that may expire, 1 fault | a fault at any step; wagers that hit a round that locked, ended or was replaced; the key retried, and used again in the next round once Redis has forgotten it; all of it implements `AtomicRounds` |
| `rounds_liveness` | 1 socket, 2 rounds | both of two successive rounds end, though the index may have lost one, and the index lets go of an ended one |
| `sessions_claims` | 1 room, 2 folds, 3 refill claims over a quota of 2, a window of 2 in 4 instants, 1 fault; folds may overlap | who owns a pending fold, who claims a session, which refills hold a slot, that no window admits more than the quota and a retry hint comes true; refills do not stack |
| `sessions_liveness` | 1 room, 2 folds, 2 sockets, stakes lost, refunded or won, 2 sessions | nothing negative; a player who stays away is folded |
| `pipeline` | 1 player, 1 round, 2 wagers and a settlement; 2 faults; read and write batches of 2 | nothing is lost, order per topic, exactly-once as seen from the ledger, reconciliation, and everything arrives |
| `hub` | 3 connections to 1 room, buffers of 3, 1 message or timer broadcast | no goroutine waits for ever, channels close once, replies precede leaving, the rooms implement `Audience`, every disconnect is handled |
| `pages` | the host's page and a player's, 2 rounds, 2 wagers, 1 reload, 1 clear that fails, 2 events under way | pages show the wallet and their own round's odds, a resolve settles the round it was meant for, every end that is told reaches the page |
| `rounds_lost_index` | violation | a timer's `ClearCurrentRound` deletes the index of the next round |
| `sessions_resurrected` | violation | a payout recreates the wallet of a session that was folded |
| `pipeline_fetch_fails` | violation | a failed fetch loses messages already fetched |

Why these bounds. In `Rounds` the races are between two resolves and one timer (one round suffices,
two sockets give the second resolve) or between a round's leftovers and its successor (two rounds).
Dust needs two winning stakes and a loser: three keys of amount 1. A replay needs a key used twice,
which any instance has; one key, one round to use it in and one to use it in again show what its
expiry does. In `Sessions` the races are between a fold and its successor (two
goroutines, two sessions), and between a refill and two that compete with it; the quota of 2 is
passed by the third. `RefillsNeverStack` speaks of a balance only refills raise, so that instance
stakes nothing and grants 1 token. The window of 2 instants lets a claim be admitted in every
position relative to the end of another's, and the key expire under one. In `Pipeline` a batch of 2
over three entries gives a full batch, a partial one and one that mixes topics; two faults give the
death of a relay while it recovers what the previous one left, and one death on each side. Counters
that would grow for ever are capped by constants marked "bound" where they are declared
(`MaxFaults`, `MaxExpired`, `MaxSockets`, `MaxTokens`, `MaxSessions`, `MaxTime`, `Folds`, `Claims`,
`Keys`, `RoundIDs`, `Talkers`, `MaxInputs`, `MaxRounds`, `MaxReloads`, `MaxBehind`, `MaxBets`). In
`Hub` a third connection can be newcomer to a room that has somebody in it while the one who made
the room leaves; a buffer of 3 is overrun by a greeting and two announcements, by a writer that has
not started. One message is enough to be in the middle of handling when the room evicts or the
process shuts down. In `RoomPages` a second round is what late events, requests and reveals of the
first can be mistaken for.

Interchangeable values are permuted in safety runs; runs with a property under fairness use no
symmetry. `CHECK_DEADLOCK FALSE` is set because a bounded system does stop: rounds, keys, sessions
and faults run out; in `MCParimutuel` a settled state is final.

Every property of a passing run is shown to depend on the code by a mutant: a definition changed
as a plausible bug would change it (a dropped status check, `HSET` for `HINCRBY`, an acknowledge
before the produce, a pending map cleared too early, ...), under which TLC finds the property
violated. The mutated forms stand beside the definitions they replace and are used nowhere else.

**Fairness.** In `Rounds` and `Sessions`, `FairSpec` is weak fairness of what a handler that has
started, or a watch or fold goroutine that exists, does next. The Go scheduler runs a runnable
goroutine and a timer that was set fires; Redis answers (a failure is `CallFails`, which
the liveness runs do not allow). Nobody is assumed to open, resolve, join,
bet, connect or disconnect, and Redis TIME is not assumed to reach the lock instant: the API's own
timer suffices. In `Pipeline` the relay and the worker run when they can, and are started again
when they died (`deploy/compose.prod.yml`, `restart: unless-stopped`); a batch window closes after
200 ms, so `WriteBatch` is fair by itself. The room owes nothing, and faults are finitely many. In
`Hub` one weak-fairness condition covers everything the goroutines do by themselves: what they do
between two inputs is finite, so none is starved, and nothing is assumed of the order in which the
hub's `select` serves its channels. Peers, messages, timers and the shutdown are inputs. In
`RoomPages` handlers, clocks and browsers keep going; nobody owes a click or a reload, and no call
is owed to fail.

### Findings

1. A round's timer clears the room's index whatever it names. If the host opened the next round
   between the refund script and that call, the new round loses its index and cannot take wagers
   or be resolved until its own timer ends it (`round.go:76-77`). `LiveRoundIsCurrent` fails as well
   with two sockets of the host: two `create_round` messages both pass the "in progress" check and
   two rounds are live, against `errors.go:9-10`. There is no third way: with one socket, and as
   long as no call clears an index that names another round, it holds (`CurrentUnlessCleared`).
2. A session is folded 30 seconds after a disconnect, its player's stake may come back 60 seconds
   after a lockout: the payout makes a wallet with no opening stake (`room.go:119-121`), and never
   reaches the account. Such a payout is the only way to it (`WalletUnlessResurrected`), and if no
   fold claimed a session whose stake is in a round there would be none (`WalletIfSettledFirst`).
3. A fetch that fails with neither a deadline nor a cancellation makes the worker forget what it
   has fetched, and a later commit passes over it (`worker.go:30-32`). Without such a failure what
   is committed is in the journal, whoever dies when (`DurableUnlessFetchFails`).

Observed while modelling, with no run of their own:

- A round's only clock is the goroutine `Open` starts. After an API restart, or one failed
  `LockRound` (`timer.go:40-43`), the round stays open or locked for good with its stakes in the
  pool, and `Open` refuses a new one; the design document
  (`docs/specs/2026-08-21-callit-design.md:129-131`) promises a refund after 60 seconds.
  `rounds_liveness` with one fault allowed shows it.
- `EndSession` reads the account first and overwrites it last, without a compare. The folds of two
  rooms (closing a browser with two tabs starts both) lose one of the two results, and a fold can
  lose a refill, against `session.go:11-15`. `Sessions` with two rooms reaches it: a player with an
  account of 2 brings 2 into either room, loses 1 in one, leaves both; both folds read 2, the losing
  room's writes 1, the other's writes 2, and the lost token is back. In the other order a win is
  lost. With one room and no refill claims nothing else writes the balance, so there is nothing to
  check.
- A cached reply is gone after a day (`place_wager.lua:103`), while the ledger's key is unique for
  ever. A key used again in a later round then debits a second wager, whose entry the ledger takes
  for the first one's and drops: wallet and ledger differ from there on. `rounds_faults` reaches the
  second debit. The page draws a random key for every wager (`page.tsx:141`), so the theorems about
  the ledger's sums are stated for rooms where it did not happen (`KeysFresh`).
- If `ClearCurrentRound` fails after a settlement, the host gets an error for a round that is
  settled, and nobody sees the reveal. Pages show the round as locked until they are reloaded or the
  next one opens, which the host can only do from a page that was reloaded; its refund timer finds
  the round ended and clears nothing. If the index was not deleted it names the ended round until
  then. After a refund it is the same without the error. `pages` contains both; `PageLearnsTheEnd`
  excepts such a round by name (`WaitsInVain`).
- A crash between a session's claim and its credit loses the result (`session.go` says so), and one
  before it loses the pending fold, which nothing schedules again.
- `Client.Send` on a channel the room has closed panics. `RepliesPrecedeLeave` shows that a client's
  own disconnect never leads there; an eviction or a shutdown in the middle of a message does. In
  the read pump that ends the API process; in the handler `net/http` recovers, and the hijacked
  connection is left open without pumps.
- A newcomer's buffer takes `connected` and one `player_joined` per member before its write pump
  starts: with 63 others in the room its own `player_joined` evicts it.
- A page reloaded during a round has missed `round_opened`, so `balance_at_open` is null and the
  reveal is added to a balance the stake has already left (`roundState.ts:151`); the page is wrong
  until its next `connected`, although `socket.ts:43-45` says a reload shows the actual balance. A
  `wager_accepted` that arrives after the reveal shows the balance before it. A `round_opened`
  queued ahead of `connected` stores the cached balance. `PageShowsWallet` excepts these cases by
  name (`missed`), and no other.
- A host that reloads during a round has no outcomes and so no resolve buttons: the round is
  refunded. If it reloads between the refund script and its broadcast, it can open the next round
  first, and players then drop `round_refunded` as stale and keep the balance without the stake.
  With three rounds it can settle one it did not see: the page is reloaded, opens the next round
  while the refund of the last is not announced, and asks to open again; the late refund clears the
  index, so the second request succeeds, and the page answers for the one round with the other
  current. For these reasons only players reload in `pages`, and two theorems assume it;
  `OddsAreThisRounds` is proved whoever reloads.
- Odds of two wagers may be broadcast in the other order than they were placed. Requests name no
  round: with two tabs of the host a delayed resolve could settle a newer round, and a delayed wager
  of a player lands on whichever round is open.
- With overlapping folds and a grant above one token a fold may read the opening stake of one
  session and the wallet of the next, and so create tokens (`sessions_claims` with `Cap` of 2 shows
  it). `OneSessionRead` is the condition under which `RefillsNeverStack` is proved: nothing is
  staked, and folds of a room do not overlap or sessions are of one token.
- A retry hint speaks of the claims that were in the way: a slot that one of them hands back, or
  that ages out, may be taken by another claim first. With a quota of zero no hint is true.
- The comment at `payout.go:106-107` bounds a stake by the grant; winnings lift it. The overflow
  argument built on it keeps a wide margin.
- With two sockets of one player in a room (a second tab, or a dead socket noticed after its
  replacement connected), the close of one schedules a fold the other does not cancel; the fold ends
  a session in use, and the player's next wager is refused as not in the room. The states of
  `sessions_liveness` contain it. A socket that connects in the instant the grace ends meets the
  same.
- `JoinRoom` grants from an account it does not debit, so the same balance can be played in two
  rooms; the floor of `ApplySessionResult` then forgives a loss (against `wallet.go:73-75`).
- `relay.go:173-174` wants `rounds-settled` never to reach Kafka ahead of the wagers it settles.
  Within one batch the two topics are written side by side, so it may. Nothing depends on it: the
  pool account is negative for a moment.

## 4. The proofs

Theorems assume the named `ASSUME` of the modules they are about (`FiniteBoard`, `RoundsAssumption`,
`SessionsAssumption`, `PipelineAssumption`, `HubAssumption`, `RoomPagesAssumption`): `None` is none
of the values it stands in for, names of different things differ, sizes and bounds are natural
numbers, stakes and grants are positive (`place_wager.lua` and `redisstore/room.go` `JoinRoom`
refuse others), and there are finitely many users, outcomes and rounds where something is summed
over them. They hold for any number of rooms, keys, sockets, folds, claims, connections, buffer and
batch sizes, windows and faults. What a theorem needs beyond that is in its statement: the two about
counting claims that their set is finite (and, for the hint, that the quota is not zero);
`NoStackingCorrect` the condition `OneSessionRead`, without which the code does create tokens;
`ReconciledCorrect`, `LedgerLagsCorrect` and `SystemReconciles` that no key was used again after
Redis forgot it (`KeysFresh`), without which wallets and ledger do part; `SettlesCorrect` and
`WalletCorrect` that nothing under way to the page or the server is overtaken by the 60 seconds of a
refund (`PromptPages`) and that the host does not reload. The runs that check these properties are
instances of the conditions.

| Theorem | Says |
|---|---|
| `RoundsProofs!ControlTypeCorrect` | every variable but wallets and outbox keeps its type; each goroutine is at a step of its kind with that step's locals |
| `RoundsProofs!SnapshotCorrect` | stakes about to be applied are the round's stakes |
| `RoundsProofs!LifecycleCorrect` | every status change is one `domain.validTransitions` allows |
| `RoundsProofs!RoundsInvariant` | the inductive invariant of the money stream |
| `RoundsProofs!SettledOnceCorrect`, `WagerOrderCorrect` | one settlement of each ended round in the stream, behind its wagers |
| `RoundsProofs!OneDebitCorrect` | a key debits a round once, and its reply is cached while that round takes wagers |
| `RoundsProofs!EntriesHeldCorrect` | the round of every wager in the stream holds at least its stake |
| `ParimutuelProofs!DustIsOnlyRoundingTheorem`, `WinnersGetTheirShareTheorem` | a refund keeps nothing back, a settlement less than a token per winning stake; a winner gets the floor of the exact share, and the stake at least |
| `ParimutuelProofs!RefundPathsAgreeTheorem`, `RevealIsZeroSumTheorem` | both ways to refund pay the same; the reveal sums to minus the dust |
| `RoundsProofs!MoneyInvariant` | the inductive invariant of the room's tokens |
| `RoundsProofs!TypeCorrect` | no wallet goes below zero; entries of the stream carry natural amounts |
| `RoundsProofs!PoolsMirrorCorrect` | pools, total and bettors agree with the wagers hash |
| `RoundsProofs!SettlementCoversCorrect` | a settlement pays out exactly the pool, dust included |
| `RoundsProofs!ConservationCorrect` | what players brought in is in wallets, pools of live rounds, or dust |
| `RoundsProofs!RefinementCorrect` | `Rounds` implements `AtomicRounds` |
| `RoundsProofs!CurrentUnlessCleared` | with one host socket, the index names the live round unless a call clears an index that names another |
| `SessionsProofs!SessionsInvariant` | the inductive invariant of sessions |
| `SessionsProofs!TypeCorrect` | no balance, wallet or stake is ever negative |
| `SessionsProofs!PendingCorrect`, `FoldedOnceCorrect` | a resumed fold never ends a session; a session is claimed once |
| `SessionsProofs!OpeningKeepsWallet` | a session with an opening stake has its wallet |
| `SessionsProofs!WalletUnlessResurrected`, `WalletIfSettledFirst` | a wallet without one comes only from a payout to a folded session; none if folds waited for the stake |
| `SessionsProofs!NoStackingCorrect` | refills alone never lift an account above the target |
| `SessionsProofs!LogAgreesAlways` | the inductive invariant of the refill log |
| `SessionsProofs!SlotsCorrect` | every refill paid within the window holds a slot, and nobody else but a claim that failed half-way |
| `SessionsProofs!QuotaCorrect`, `RetryAfterCorrect` | no window admits more than the quota; a retry hint comes true |
| `HubProofs!HubInvariant` | the inductive invariant of the WebSocket layer |
| `HubProofs!AnswersCorrect` | the hub never waits for a goroutine that has returned; no empty room is forgotten |
| `HubProofs!ClosedOnceCorrect`, `RepliesCorrect` | no channel is closed twice; a reply panics only on a channel the room closed |
| `HubProofs!AudienceCorrect` | `Hub` implements `Audience` |
| `PipelineProofs!PipelineInvariant` | the inductive invariant of the pipeline |
| `PipelineProofs!PipelineTypeCorrect`, `NothingLostCorrect` | offsets stay behind the log; nothing is lost but by a failed fetch |
| `PipelineProofs!ExactlyOnceCorrect` | `Pipeline` implements `ExactlyOnce` |
| `PipelineProofs!PartitionOrderCorrect` | in Kafka only repetitions stand behind later entries of their topic |
| `PipelineProofs!NothingInvented`, `EntriesBalanceAlways` | a row has its entry in the outbox; every entry's transaction sums to zero |
| `PipelineProofs!LedgerLagsCorrect` | with `KeysFresh`, Redis and the ledger differ by the entries not yet recorded |
| `PipelineProofs!CommittedAccounted`, `DurableUnlessFetchFails` | what is behind a committed offset is recorded or was forgotten by a failed fetch; recorded, if none fails |
| `PipelineProofs!ReconciledCorrect` | with `KeysFresh`, once everything is recorded, the ledger agrees with the room and balances |
| `EndToEnd!SystemRunsTheRoom`, `SystemRunsThePipeline` | the composed system implements `Rounds`, and `Pipeline` with its atomic room |
| `EndToEnd!SystemReconciles` | from the API's goroutines to the journal nothing is lost but by a failed fetch, and with `KeysFresh` the ledger lags by what is under way |
| `EndToEnd!LedgerFollowsCorrect` | a round the ledger shows settled has ended, a wager it shows was accepted by a round that holds the stake |
| `RoomPagesProofs!TypeCorrect` | pages, queues and requests keep their types; no wallet is negative |
| `RoomPagesProofs!OddsCorrect` | a page never shows more staked on its round than was |
| `RoomPagesProofs!SettlesCorrect` | a resolve settles the round the host's page showed |
| `RoomPagesProofs!WalletCorrect` | a page that missed nothing and has read everything shows the wallet |

**Rounds.** `SnapshotIsCurrent` is not inductive without the type of `job` (a handler past
`ReadStakes` names a round), hence `ControlTypeOK`; with it, the one fact needed is that a round
that has left "open" never changes its wagers again (`WagersStep`) and never comes back
(`StatusStep`). `RoundsInv` adds `StreamInv`: a settlement in the stream is of an ended round, and
the three stream properties themselves. A settlement is only appended while its round is locked, so
it is the first of its round; a wager is only appended while its round is open, so it finds no
settlement of its round in front of it. Its key is not cached; the reply of every wager in the
stream is, for as long as that wager's round is one the script takes wagers of, since only then does
`KeyExpires` leave it alone; so no wager of this round has that key. That `SettledExactlyOnce`
counts one entry more follows from `OneMoreEntry`, a lemma about appending, and the cardinality
theorems of `FiniteSetTheorems`.

The refinement maps each variable of `AtomicRounds` to the one of the same name. Its one real step
is that `SettleApply` and `RefundApply` map to `Settle` and `Refund`, which pay what the round
*holds*: that is `SnapshotIsCurrent`. The abstract room takes a key once per round, which is
`OneDebitPerKey`. `EntriesAreHeld`, that a wager in the stream is still in its round's hash, says
what outlives a cached reply: a round's wagers only grow.

**Sums.** A sum is a fold, a function defined by recursion on the subsets of a set. The library's
induction theorems take the property as an operator, which the provers cannot instantiate;
`SubsetInduction` takes it as a *set of subsets* and follows from the well-foundedness of strict
inclusion, which the library states without an operator. From it `SumProofs` has that a sum is
what one element adds to the sum of the others, whichever is taken first, and from that what the
rest needs: sums of equal functions are equal, of larger ones larger; a change at one point changes
the sum by as much (`SumChange`); a sum over fields is one of sums over each user's (`SumFibres`).

**Arithmetic.** `Dust` is the sum over the winning stakes of what `WinnerPayout` floors away, less
than one each; `ShareIsEnough` is that a stake is no larger a part of the winners' pool than its
share is of the whole. That the two refunds agree, and that the reveal sums to minus the dust, is
the sum over fields taken user by user.

**Money.** Five kinds of step move tokens or rounds (`MovesNothing`, `OpensRound`, `Joins`,
`TakesWager`, `EndsRound`), and `MoneyStep` shows that every action is one of them; the invariant is
then proved for those five rather than for every action. The hard one is `EndsRound`: the credits
were computed from a read made before, they are the credits of the round's stakes by
`SnapshotIsCurrent`, they add up to the stakes less the dust by the arithmetic, the stakes add up to
the pool by `PoolsMirrorWagers`, and whoever is credited has a wallet since only those who joined
can stake (`AccountsInv`). `TokensConserved` then moves the pool of one round, no longer live, into
wallets and dust.

**Sessions.** The three invariants are inductive together. A fold gets into `EndSession` only
through the identity check, and the entry it matched is one that no `Connect` or `Disconnect` has
cancelled, since those cancel exactly the goroutine the entry names. A session is claimed by the
fold whose deletion found the opening stake, and only a join can put one back, counting a session.

`RefillsNeverStack` needs, of every fold under way, that it gives back what it read of the account
and no more (`FoldReads`): nothing is staked, so wallet and opening stake of a session are equal,
and the two it has read are of one session, because no other fold comes between (`OneFoldARoom`) or
because all sessions are worth one token. A refill, on the other hand, compares and adds in one
script.

`WalletHasOpening` is a finding, so what is proved is when it holds. `PaysSessions` says that no
payout of more than zero reaches a session without opening stake: of the four kinds of step that
write a session (`SessionStep`), that is the only one that can break the property. `ClaimsSettled`
says the same of the fold's side, that it claims only when the player's stake is back; a stake is
then always of a living session (`StakeHasSession`). The code guarantees neither; each is what a
repair would have to establish. Both are assumed of steps (`[][...]_vars`), so the theorems speak of
the behaviours in which the code happens to keep to them, of which there are many.

**Quota.** What the log holds is what was admitted: a claim on its way from `Allow` to its end is a
member with its instant as score for as long as a window can count it. Pruning takes only what has
left the window, the key's expiry is a whole window after the last admission and so takes only that
too, and a revoked claim gives its instant up. Then a window that ends now counts exactly the pruned
log, whose size `Allow` has just compared with the quota; and a window that ended earlier loses
claims by `Revoke` and gains none. The hint is the oldest blocker's instant plus the window, so when
it has come that one is pruned, and one fewer than the quota can be left.

**Hub.** The invariant says who is in a room. `RegistryOK`: the registry names the one running
goroutine of each room, and an empty one has a notification on the way. `MembersOK`: only a running
goroutine has members; a member's channel is open, it knows its goroutine, and it has not yet asked
to leave. `ChannelsOK`: the converse, an open channel past the join belongs to a member; and a
channel closed by Leave has its owner past Leave, so that a `Send` that panics met one the room
closed. The parts need each other: that the hub finds an answer rests on the registry, that a
channel is closed once rests on membership, and that nobody is left in the map of a goroutine that
has returned rests on reaping only what is empty. All steps but joining, reaping and the end of a
shutdown take one shape (`Sheds`, `Reports`, `Moves`: some members lose membership and channel
together, and whoever is emptied is reported), which is proved once. For the refinement,
`OneGoroutine` makes the audience of a room the map of its goroutine: a broadcast is then `Announce`
to exactly those who keep or lose their place in that map, Leave and shutdown are `Depart`, a join
is `Enter`. The run `hub` has one room; the theorems cover several, and connections that move on
while another room is reaped.

**Pipeline.** `NothingLost` is a statement about an entry wherever it is; the invariant follows it
along the pipeline. `Forwarded`: what the group was given and no longer holds is in Kafka, and so is
what the relay will acknowledge next. `Consumed`: what lies behind the worker's position is in its
hands or accounted for (recorded, or forgotten by a failed fetch), what it is about to commit is
recorded, and what is committed is accounted for. Each action moves an entry from one place to the
next, never to none. The refinement hides all of it: a room's step is `Grow`, a batch is `Record` of
those of its entries whose key has no row, every other step stutters.

`DurableUnlessFetchFails` is finding 3 the other way round: `Consumed` already says that what is
committed is recorded or forgotten, and only a failed fetch forgets.

`PartitionOrder` is inductive with the order of what the relay holds (`RelayOrdered`): a relay that
has claimed the pending entries owns all of them, and whatever an entry still to be sent must not
overtake is in Kafka already or to be sent before it (`Behind`); so a batch sent in order, by topic,
puts nothing new behind what follows it. `Reconciled` rests on the room and on `RowsOnce`: the
transaction of each entry of the outbox balances (`EntriesSound`), what the entries post to a wallet
is what happened to it since its player joined (`WalletsAddUp`), what they post to the pool account
is what live rounds hold. That each entry counts once needs `KeysFresh`: two entries under one key
have one row between them. `LedgerLags` divides the outbox into what has a row and what has not
(`PostedAndUnposted`): the accounts are the sums over the one part, the rest of the outbox is the
difference. `Reconciled`, the identity the load test waits for, is the case where that part is
empty; `LedgerLags` says what the two stores may be seen to differ by until then.

**The system.** `EndToEnd` puts the actions of `Rounds` beside those of the relay and the worker. A
step of the API is a step of `AtomicRounds` or none (`StepRefines`, from the invariants of the
room); the pipeline has its own copy of that room, as an instance, so the lemmas `SameSums` to
`SameRoom` first show that the two are one. A step of the API is then a `RoomStep` or a stutter of
`Pipeline`, a step of the others is its own, and theorems of both sides are theorems of the system.
`LedgerFollowsRoom` needs both: a row has an entry (`NothingInvented`, of the pipeline), and an
entry has its ended round (`StreamInv`) or its stake in the round (`EntriesAreHeld`), of the room.
`PipelineAssumption`, with the bound on faults that belongs to the relay and the worker, is the
hypothesis of the two theorems that need it, since an instance brings its assumptions as hypotheses.
No run has this module: the runs `rounds_*` check the one side, `pipeline` the other, and
`rounds_faults` that the first does for the room of the second.

**Pages.** `OddsInv`: a total that is quoted, on its way or on a page is at most the pool of the
round it names, and pools only grow. Nothing else is needed, so it holds whoever reloads.

`HostInv` follows the host's page and its queue. At most one round has begun whose end the room has
not heard of (`OneAtATime`); if a failed clear means it never will, the host's page stays on that
round and asks to open none, so a request to open is only under way while no such round is there
(`JobOK`). An opening in the queue has its
lock behind it, or the clock is still to send it; a lock comes once; an end is the end of the round
the page shows, and nothing has begun since (`OpeningsOK`, `LocksOK`, `EndsOK`). So a page with a
locked round shows the only one that has begun (`ViewOK`), and that stays so while its request is
under way (`JobOK`), since the one socket of the host cannot meanwhile open another.

`PageInv` is about what a page *will* show once it has read its queue (`Reads`, a function on the
prefixes of the queue; `Expects`, its value at the end). An event that is sent extends the function
by one reading, an event that is read takes its first value away, so the claim about the end does
not care how far a page lags behind. The claim is `Owes`: the page will show, or will have kept as
`balance_at_open`, the wallet without the running round's stake (`Before`), which a wager, a
settlement and a refund leave alone. `CaughtUp` is the case of an empty queue.

Only model-checked, not proved: the properties under fairness, `EveryRoundEnds`, `IndexLetsGo`,
`AbandonedSessionEnds`, `EveryEntryRecorded`, `DisconnectHandled` and `PageLearnsTheEnd`. Fairness
is stated with ENABLED, which the prover does not handle. Of the three properties that runs show
violated, `LiveRoundIsCurrent`, `WalletHasOpening` and `CommittedIsDurable`, only the conditional
forms above are theorems.

## 5. Not modelled

- Rooms and accounts: `CreateRoom`, `CreateUser`. Each is one `claim_unique.lua`, which alone
  decides who gets a code or a name, followed by writes under an identifier nobody else knows; what
  can go wrong (a room whose host's wallet was not seeded) is a failure between two calls and not an
  interleaving. Planned with the composition.
- Sessions in the composition. A wallet in `Rounds` is never deleted: comparing wallets with the
  ledger across folds needs sessions, rounds and pipeline in one state. That keys expire is modelled
  in `Rounds`; comparing with the ledger after one was used again is excluded by `KeysFresh`.
- Metrics: process-local counters; latency recorders on the hub's paths change nothing.
- HTTP parsing and encoding, JWT and password hashing, configuration, migrations, the command-line
  client, rendering: no protocol of their own.
