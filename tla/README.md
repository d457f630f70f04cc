# B-Territory in TLA+

B-Territory is a location game: players of two teams claim spots of a city, collect
scores and challenge each other to duels that a short minigame decides. This directory
holds TLA+ specifications of its backend (`backend/src`, NestJS over Postgres, Redis,
Socket.IO and a Bull queue), of the seeds of its tables (`backend/scripts`) and of those
parts of its mobile client (`frontend/src`) that hold state, the TLC configurations that
check them on small instances, and proofs for TLAPS.

Paths below are relative to `backend/src` unless they begin with `frontend/` or say otherwise.

## 1. Inventory

| Component | State it keeps | Operations | Hard behaviour |
|---|---|---|---|
| Duel service `duels/duels.service.ts`, entity, constants, `duel-cleanup.processor.ts` | table `duels` (status, revision, players, requestId, instants, scoreDelta), `score_events`, `users.score` | `requestDuel`, `syncDuel`, `respondDuel` (accept, reject), `expireDuel`, `markInviteDelivered`, `markResultInProgress`, `finishByGame`, `voidByGame`, `terminateActiveDuelsFor`, `sweepStaleDuels` | crossed and repeated requests; four ways out of PENDING racing; two stores (database and Redis) in one operation; restarts; the sweep against a game |
| Duel gateway `realtime/realtime.gateway.ts` | expiry timers, deadline and signal timers, sockets: all in memory | `duel:request`, `duel:accept`, `duel:reject`, `duel:sync`, `game:submit`, delivery of invitations, timers | invitations that reach nobody; timers lost at a restart; state read before an `await` and used after it |
| Minigame `duels/minigame/minigame.service.ts` | session, scores, signal instant and settlement right in Redis | `start`, `markGo`, `submit`, `expireRound`, `settle`/`decide`, `discardSession` | deadline timer, its retries and the last submission settle one round; a draw opens the next; the sweep ends the duel under the game |
| Redis primitives `common/redis/redis.service.ts` | pair locks with tokens, shields, penalties, queues, gates, sockets' metadata, positions | `tryAcquireLock`, `releaseLock`, `extendLock`, `setPenalty`, `submitGameScore`, `claimRoundSettlement`, `markDailyClaim`, `geoAdd`, `pruneStaleGeo`, `purgeUserKeys`, ... | atomic scripts; keys that lapse while somebody relies on them |
| Account deletion `account/` | users, archive, Firebase account | `deleteAccount`, purge, clean-up of positions | three stores, in an order that a failure may cut; a connected client |
| Claims `claims/claims.service.ts` | claims, `score_events`, daily gates, defence keys | visit a spot, nightly aggregation | three checks and keys in Redis around one transaction, taken back when it fails |
| Missions `missions/missions.service.ts` | photos, reviews, visit windows, daily gates, images | check in, submit a photo, submit a review | an upload before the transaction, a key around it |
| Districts `districts/districts.service.ts` | weekly capital and its cache; weights in the memory of each process | designate, read, seed at start-up | several processes designate; a cache written late; two releases side by side |
| Moderation `moderation/moderation.service.ts` | blocks, reports, versioned block cache | block, unblock, who has blocked, report | a block list read before a change and cached after it |
| Chat `chat/chat.gateway.ts`, `common/ws/` | rooms, sockets | connect, message | relay between a block and its announcement |
| Presence `realtime/realtime.gateway.ts` (first half) | position, meta key, notification queue, encounter keys | connect, update, disconnect, notify, encounter, clean-up job | several devices of one user; failures between emptying a queue and sending |
| Hall of fame `hall-of-fame/`, `scores/` | ledger, cached rankings | ranking of a season, invalidation | a list fetched before the end of a season and cached after it |
| Festivals `festivals/`, `backend/scripts/seed-festivals-csv.ts` | table `festivals` | daily synchronisation, seed from a file | a job given up but not stopped, beside its retry; incomplete answers |
| Spots `backend/scripts/seed-spots-csv.ts` | table `spots` | seed from a file, clean-up of an older source | deletes that cascade to what users did, while they play |
| Registration `auth/auth.service.ts`, `consents/` | users, consents, Firebase account | register, withdraw, report | repeated and overlapping, a token that outlives its account |
| Client: duels `frontend/src/providers/SocketProvider.tsx`, overlay store and screens | the one duel it shows, its role, the request in flight | events, acknowledgements, timeouts | an acceptance before the acknowledgement of the request, an invitation while a request is in flight, drops |
| Client: game screens `frontend/src/components/overlay/minigames/` | round, phase, local timer | start, signal, tap, submit, refusal | a signal of the round before; several packets in one rendering |
| Client: chat `hooks/use-chat-socket.ts`, `store/useChatStore.ts` | messages and their state | send, retry, answer, timeout | late answers of an earlier attempt; refusals that name no message |
| Client: sign-in `hooks/use-registration-flow.ts`, `app/(auth)/` | session, query `auth.me`, stored consent | sign up, log in, social login, roll back | answers lost or overtaken; an account deleted that has a profile |
| Client: position `hooks/use-location.ts` | one native watcher, permission | start, stop, recover | starts that are chains of awaits while screens and the app come and go |
| Client: map and sheet `components/map/`, `lib/visit-checkin.ts` | marker's query, callout, sheet, check-ins on the device | tap, claim, check in, review | answers to a sheet that was closed; one stored map for all check-ins |
| Client: season ranking `hooks/use-season-ranking.ts` | season chosen, season known, queries | arrows, answers | a placeholder of another season |
| Queries, location logs, health, migrations, other screens, tools | - | - | single queries, single transactions or pure I/O |

How they interact. A client sends `duel:request` to the gateway, which calls
`requestDuel`: checks, one transaction under the advisory locks of both users, the pair
lock in Redis before its commit. The gateway then arms the expiry timer in memory and
delivers the invitation to the opponent's socket. The duel leaves PENDING by an answer,
by the timer, by the sweep (a repeatable job of the queue, so it survives restarts) or
because an account is deleted. After an accept the gateway starts the minigame; its
submissions and deadline timers end in `finishByGame` or `voidByGame`, which change the
row, the ledger and the loser's penalty. The sweep voids accepted duels nobody is
playing. Claims read the penalty a duel sets. Every event of a duel carries its `revision`,
for clients to put events and answers in order. The ledger `score_events` that claims,
missions and duels write is read by the hall of fame; the claims of a day are aggregated
into the district at night; the capital of the week weighs a claim; a withdrawal ends the
duels, clears the cached rankings and the presence of its user. The client adopts what
gateways send on one ordered connection, and everything else over HTTP through a query
library, whose answers come in any order.

What makes each part correct:

* duels: nobody is in two active duels; a request that is sent again never makes a second
  duel and is answered with the first; a duel costs its opponent points at most once, and
  only for an invitation that was shown; a shield is only given for a charge; the lock of
  a duel is not taken away by another; every active duel ends; revisions count moves;
* minigame: a round is started and settled once; nobody loses by default before the
  deadline of his own round; a settlement tells what was committed; every accepted duel is
  decided without waiting for the sweep;
* claims, missions: once a day; and what Redis promised, the bucket holds and the
  transaction stored agree, also after a failure;
* districts, moderation, hall of fame: a cache does not outlive the fact it was read from,
  or only in gaps that can be named; weights only move points;
* presence: the map shows who is there, and a notification or an encounter the server has
  taken charge of is told;
* accounts: a profile has its login, a withdrawn account its record;
* seeds and synchronisation: they lose nothing that users or an earlier answer stored;
* client: it shows one duel at a time, the one the server has it in, and the round that is
  played; a message shown as sent was relayed; one watcher for whoever is there; a
  registered user is never taken for a new one; what a sheet shows is of its own opening.

The list of hazards, each at its line with the property that guards it, is in
`PROJECT.json`.

## 2. Plan

| Order | Module | What it models | Status |
|---|---|---|---|
| 1 | `DuelLifecycle` | what the duel service promises: the abstract specification | written |
| 2 | `Duels` | requests, invitations, answers, timers, sweep, results, deletion, restarts | checked |
| 3 | `DuelsProofs`, `DuelsRefinement` | inductive invariants of all safety properties, and `Duels` implements `DuelLifecycle` | proved |
| 4 | `Minigame`, `MinigameProofs` | rounds, submissions, settlement right, deadline timer and retries | checked; all but liveness proved |
| 5 | `Visits`, `VisitsProofs` | claims and missions: gate, defence key, penalty recheck, compensation, nightly aggregation | checked and proved |
| 6 | `Capital`, `Blocks` | two caches over a table: a week's capital, and a list with a version | checked and proved |
| 7 | `Presence`, `Accounts`, `Rankings`, `Festivals`, `SpotSeed`, `DistrictBoot` | the rest of the backend that keeps state over more than one step | checked and proved |
| 8 | `ChatSocket`, `DuelClient`, `GameScreen`, `SignIn`, `LocationWatch`, `MapSheet`, `SeasonScreen` | the mobile client | checked and proved |
| 9 | `Services`, `Realtime`, `MCServices`, `MCRealtime` | the modules of 5 to 8 in two models | checked; proved to be what each is by itself |
| 10 | `DuelGames` | composition: every duel of `Duels` with its game; penalties of a loser who plays several duels; writes whose answer is lost | open |
| 11 | `RealtimeProofs`, `ServiceProofs`, `ClientProofs`, `DuelClientProofs` | inductive invariants of the modules of 6 to 8 | proved |

## 3. Duels

### State

| Variable | In the code |
|---|---|
| `duel` | the table `duels`. `NONE`, `INSERTED`, `ABORTED` are rows no other transaction sees. `age` is the time since `requestedAt`, later since `respondedAt`; `resultReportedAt` is an age too |
| `ledger` | rows of `score_events` of each duel by type |
| `accounts` | rows of `users` |
| `locks`, `shield`, `penalty` | the Redis keys `duel:lock:*` (with their tokens and the time left), `duel:shield:*`, `penalty:*` |
| `slot` | handlers of `duel:request` in flight, between their awaits |
| `invites`, `timer`, `after`, `resolving`, `leaving` | deliveries of invitations, expiry timers, Redis calls still to be made after a commit, `resolveDuel` between penalty and transaction, deletions between commit and purge |
| `outage` | rows that are PENDING from before the process started (`answerableSince`) |
| `shown` | history: invitations that went out on a live socket |
| `left` | bounds |

Every comparison the code makes between instants is a difference, so the module keeps
ages and remaining times instead of a clock. Ages stop growing past every cutoff.

### Actions

`Receive` to `Created` are `requestDuel` with the handler around it, cut at every point
where another handler can interleave: the first lookup of the requestId, the checks in
Redis and the database, the transaction with its two advisory locks one after the other
(`LockFirst`, and `LockSecond` as the guard of what follows) up to the pair lock
(`InsertRetry`, `InsertRefused`, `InsertRow`), its commit or rollback, and the work after it. `Invite*`
are `redeliverInvite`, `deliverDuelInvite` and `markInviteDelivered`. `Accept`, `Reject`,
`Expire`, `SweepPending`, `SweepAccepted`, `Leave` are the transactions that move a row,
each a compare-and-set on its status; `Settle` is what the code does in Redis after such
a commit, and each call in it may fail. `ReportResult`, `Resolve*`, `VoidByGame` are what
the minigame asks of the service. `Crash` loses everything in memory and rolls back what
was not committed.

### What it abstracts

* Blocking, distance and the other reasons to refuse that read unmodelled data are one
  choice (`GuardsRefuse`).
* The order the code sorts ids in is the constant `Rank`. PostgreSQL's own detection of a
  deadlock is not modelled: with the order of the code none arises.
* The unique index on (challenger, requestId) is not modelled: `OneDuelPerRequest` shows
  that it never has to fire.
* `ResolveStart` takes `getAcceptedDuel` and `setPenalty` as one step. The compare-and-set
  that decides (`ResolveCommit`) is a step of its own and does not trust what was read.
* A COMMIT that takes effect although its answer is lost is not modelled; the code says
  at `duels.service.ts:697-730` what it gives up there.
* `extendLock` after an accept can fail (in `Settle`); the error its client gets is not
  modelled, nor is the repeated lock release of `voidByGame` on the branch that lost.
* `users.score`, which is cut off at 0, and the ally bonus are left out: the ledger, which
  the code calls the record of what was decided, carries the properties.
* A game stamps at most `MaxReports` submissions on a duel: in the code two players
  submit once a round, over `MAX_ROUNDS` rounds.

### Runs

| Run | What it asks | Bounds and why they are enough |
|---|---|---|
| `DuelsCharges` | `ActivePlayersExist`, `ChargedOnce`, `SilenceHasItsPrice` (who did not see the invitation pays nothing, who did not pay has no shield), and that the rows refine `DuelLifecycle` | one duel, requested up to twice, every way to end it, a deletion, one restart, one lapse: all races for one row need no second row |
| `DuelsRequests` | `OneActiveDuel`, `RequestIsIdempotent` (no second duel of one request, and the retry is answered with the first), `ActiveLockStays`, `AnswerableHoldsLock`. The types are a part of the inductive invariant `IndInv`, which is proved (section 6) | three users, crossed and rival requests and a repeated one, two handlers in flight, two rows: the smallest instance in which a lock of one duel can meet a late release of another. Handlers are interchangeable, hence the symmetry |
| `DuelsLive` | `EveryDuelEnds`; `EveryRequestAnswered`: no request waits for ever at the advisory locks | crossed requests of one pair (one of them may be repeated) in two handlers, of which each may hold the lock the other waits for, a duel that a game reports on and may void, a restart that loses all timers. Deletions and resolutions are left to `DuelsCharges`: either ends the row or leaves it as it was |
| `DuelsRestartCharge` | a statement of the documentation that does not hold (section 7) | the smallest instance that shows it |

Time constants are 0, 1 or 2, with the order the code has among them; only the order in
which deadlines pass matters. `DUEL_ACTIVE_TTL` is 2 in `DuelsRequests`, so that a lock can be
lost well before its TTL.

Fairness. `DuelsLive` assumes that time passes, that the sweep job runs again and again
(it is a repeatable job stored in Redis, `duel-cleanup.processor.ts`, so a restart does
not end it) and that a handler that runs goes on unless the process dies or an advisory
lock it waits for is held. It assumes neither that a client acts nor that a timer fires.

## 4. Minigame

One duel from the moment it was accepted. `row` and `winner` are the duel's status and
winner; `session`, `go`, `score`, `claimed` are the Redis keys of the game; `call` holds
the handlers in flight, one submission of each player, one deadline of each round and the
accept, each with its phase; `timers` and `signal` are the timers of the process. A
handler's phase is the next call it will make to Redis or the database, so every
interleaving between two awaits is explored. `started`, `signalled`, `told` are history.

`Receive`, `Read`, `Store`, `Stamp` are `submit`; `Fire`, `Expire`, `Load` are
`expireRoundAndNotify` and `expireRound`; `Claim` to `Release` are `settle` and `decide`
with what they call, shared by both. `Greet` to `Inform` are the rest of the accept
handler; `Inform` says `duel:voided` whatever `voidByGame` came back with, and `Verdict` is
what a settlement says. `Fails` and `ReopenFails` are exceptions, in every phase, where the code catches
them: a deadline is set again a bounded number of times, a submission gives its client an
error, the right of a round is given back.

Abstractions: a result is a rank (primary, then tiebreak, is one number); the drawing of
questions and the parsing of stored results are left out; a failed call has no effect; the
keys of a game do not lapse while it runs, since their TTL is longer than two rounds; a
player has one submission in flight; a timer may fire at any moment after it was set,
which includes every order the real delays allow. How `finishByGame` works inside is the
matter of `Duels`.

| Run | What it asks | Bounds |
|---|---|---|
| `MinigameRounds` | type invariant, `OneStartPerRound`, `SettledOnTime`, `ResultStands` (the players are told the outcome that was committed, and its winner played for it; excepted is the `duel:voided` of an accept that gave the game up) | both rounds, two ranks, two submissions of each player to any round, one failed call anywhere, one restart, one retry of a deadline, a sweep at any time. The game without a signal |
| `MinigameLive` | `NoFalseStartAfterGo`, `SomeoneSettles`, `EveryGameEnds` | both kinds of game, drawn anew in each round, one signal a round that may be lost, one submission of each player, one failed step of a deadline handler, one retry left |
| `MinigameRelease`, `MinigameUnstarted` | two statements of comments that do not hold (section 7) | one failure |

Where nothing is left to do, a duel that has ended rests, so these runs do not look for
deadlocks. In `MinigameRounds` the two players are interchangeable.

Fairness. `MinigameLive` assumes that handlers which run go on and that timers which are
set fire, which is the event loop's doing while the process lives; it assumes no sweep
and no submission, and has no restart (after one, only the sweep remains:
`EveryDuelEnds`). One failure is the limit of what the code promises: two can lose the
right and its return, and then the code leaves the duel to the sweep as well.

## 5. The other components

None of the modules below shares a variable with another, because the code behind them
shares no state that both change, but for what each takes from its environment as a choice
(a penalty appears, an account goes, a user is removed). To check them one by one would
need sixteen models; two composites check them instead. `Services` holds what is behind
HTTP, `Realtime` the sockets and the phone; `MCServices` and `MCRealtime` give the values
they are run with. In both the variable `focus` is chosen at the start: that component runs
with all interleavings of its own actors and the others stay at their beginning, so the
state space is the sum of theirs and not the product. Nothing is lost since none reads
another's variables: what holds of a component by itself holds of the composite, which
`ServicesCompose` and `RealtimeCompose` prove.

### Behind HTTP: run `Services`

| Module | State and actions | Property, and what it excepts |
|---|---|---|
| `Visits` | One spot and its district. `att` holds requests of a claim, a photo or a review with their phase; `gate` the daily keys with their tokens, `defence` the key of the spot, `window` the claims the aggregation counts. `Gate`, `Defend`, `Recheck`, `ClaimRead`/`Commit`, and the `Undo*` of what was taken; any step may fail, a crash cuts an attempt anywhere, midnight passes | `OncePerDay`. `FailedVisitLeavesNothing`: an attempt that failed leaves neither its daily key nor a defence key nor an image. Excepted is what was not given back because that call failed too, and the defence key after a failing recheck. `EarnedDefenceStays`: the defence of a stored claim ends with its time, and no failing claim that found the key there takes it away. Excepted is one that had created the key (section 7) |
| `Capital` | rows by week, the key of each week, designations and reads in flight, writes given up that still arrive (`late`) | `CapitalIsDesignated`: the cache shows what the table has, and no district is capital twice running. `CapitalNotHidden`: "no capital yet" never replaces a capital |
| `Accounts` | one address, its Firebase accounts one after the other, its row, consents, archive and reports about it, with requests between any two of their calls | `AccountsAgree`: a profile has its login, a withdrawal that succeeded frees the address, a withdrawn account has its record with consents and reports. Excepted: a registration with a token of an account that is being withdrawn; a report filed between archive and deletion |
| `Rankings` | the ledger's rows from the begin of their transaction, the cached list, readers | `CachedRankingHolds`: the list cached for a day is final, who has withdrawn is on none. Excepted: a row whose transaction straddles the end of the season, a list fetched before a withdrawal and cached after it |
| `Festivals` | rows, two runs with their page, rows and ids, the file of the seed | `FestivalsAreKept`: what a finished run got is kept, a column once filled stays filled, codes are of one system |
| `SpotSeed` | rows of spots, records of users with the foreign keys, the run with the rows its delete has chosen and locked | `SeedLosesNothing`. Excepted: a record committed while the statement that deletes runs; a file of which no row has the prefix `MISSION`, after which the map may be empty (section 7) |
| `DistrictBoot` | the shared table of weights and the weights in the memory of each server | `ServesFairWeights`: a weight for every district of the file, monotone in the share, one on the average up to rounding. A share below 1 in 2 * Scale of the mean is rounded to a weight of nothing |

Bounds. `Visits`: three attempts of three users (two of one team, one of the other), kinds
claim and photo (a review takes the course of a photo without the upload, and is in the
module), two mishaps or passings of time. `Capital`: two districts, two workers, two weeks,
enough for a predecessor and for a late write into a week that has passed. `Accounts`:
four requests, one of them a report, three uids, two mishaps. `Rankings`: one player, one
posting, two readers, one fault: a stale list needs one writer and the reader it overtakes.
`Festivals`: two runs of up to two pages, pages of one item, two days; the items cover the
codes of both systems, missing columns and other regions. `SpotSeed`: files of up to two
rows, with and without the prefix, two starts, two legacy spots, one post. `DistrictBoot`: four releases, in one of which
a share rounds to nothing, two servers, three boots. The lists are model values where the
code does not tell them apart, and then symmetric.

### Sockets and the phone: run `Realtime`

| Module | State and actions | Property, and what it excepts |
|---|---|---|
| `Blocks` | rows against one sender, the version, the cached list, relays of his messages between any two calls | `BlockedHearNothing`. Excepted: a change whose announcement failed; a list stored in the gap between comparison and store |
| `Presence` | connections of one user, position, meta key, queue, notices, encounters with their key, the deletion of the account step by step | `MapShowsWhoIsThere`: the position goes with the account and stays with the newest device. `NothingLostSilently`: a notice is in one place, an encounter key means that both were told. Excepted: a handshake that straddles the deletion; an entry refreshed between a check and its removal; a key whose handler failed while keys were taken or that opponent was told, or died with the process |
| `ChatSocket` | messages with their state, emissions with their callback, the connection | `ShownAsItIs`: sent means relayed (or the socket was given up), and sending means that a callback will still decide |
| `DuelClient` | the overlay, the request in flight, calls, the inbox in order; the server's duels as an environment that keeps to what `Duels` shows | `OverlayFollowsDuel`, `ClosedForAReason` |
| `GameScreen` | match and round at the server, packets, the mounted component with its phase and timer | `ScreenPlaysTheRound`: the signal shown is the signal stored, "opponent is done" is of this round, and who waits has handed something in |
| `SignIn` | two identities of one person, their Firebase accounts, session, query, screens, the registration in flight and those nobody waits for | `SignUpHolds`: a profile keeps its login, a registered user stays registered, a social session does not get into the screen of an e-mail registration. Excepted by name: lost answers, `changeEmail`, the three ways of `Astray` |
| `LocationWatch` | the start under way, the watchers alive, the permission and its dialog, what is shown | `WatcherServesScreens`: one watcher at most and it is held, nobody waits for ever, the dialog comes when asked for |
| `MapSheet` | the marker's query, the callout, the sheet, requests on their way, check-ins in the storage | `SheetIsOfThisVisit`: callout, feedback and review form are of the tap, the opening and the user they are shown to. Excepted: a check-in still being written at a change of users, and those on the device if clearing them failed then |
| `SeasonScreen` | the season chosen, the season known, answers by key, the placeholder | `RankingUnderItsNumber` |

Bounds. `Blocks`: two members, two relays, two changes, one outage. `Presence`: two
devices, two other players (of whom one may be told and the other not), two notices, a queue of one, one trouble; a behaviour has
notices or meetings. `ChatSocket`: two messages, three emissions, two switches.
`DuelClient`: two foes, two duels, two requests, one drop or timeout. `SignIn`: two
Firebase accounts and one bother. `LocationWatch`: two generations, one tap. `GameScreen`:
one duel of two rounds, one drop; packets of another duel are therefore not met. `MapSheet`: two spots, six acts, two requests at a time.
`SeasonScreen`: seasons 2 and 3, three taps, two queries at a time. Each is the smallest
in which an answer, a packet or a key of one thing can meet the next one.

The types of the component in focus are `ServicesTypeOK` and `RealtimeTypeOK`. Both runs
stop where bounds are used up, so they do not look for deadlocks. The environment of a
client module is the server as its gateway or controller shows it, which its header says.

## 6. Proofs

`DuelsProofs` and `DuelsRefinement` are checked by TLAPS for every number of users,
handlers, requests and rows, and every value of the time constants that meets the
assumptions in `Duels` (`UsersAssumption`, `AsksAssumption`, `TimeAssumption`,
`BoundAssumption`); the other proof modules for every value of the constants that meets
the assumptions of the modules they are about. Those say that sets of spots, users,
postings or rows are finite where something is counted, that bounds are numbers, that a
column of the districts' file holds one number at most, and, in `SpotSeed`, that the older
source has filled the map before the first seed: the seed promises never to empty a map,
which an empty one cannot keep. Nothing is assumed of the ids of a file. Every invariant and action property that a passing run
checks is a theorem.

| Module | Theorem | What it says |
|---|---|---|
| `DuelsProofs` | `Inductive` | `IndInv` holds in every reachable state |
| | `TypeCorrect` | the type invariant |
| | `Exclusive` | nobody is a player of two active duels |
| | `ActiveIsOfAccounts` | an active duel binds two existing accounts of different teams |
| | `ChargedAtMostOnce` | a duel is charged at most once and its ledger agrees with its row |
| | `PromisesKept` | `PromiseInv`, on which the next four rest |
| | `SilenceIsPriced` | `SilenceHasItsPrice`: no charge for an invitation nobody saw, no shield without a charge |
| | `AnswerableIsLocked` | `AnswerableHoldsLock` |
| | `LocksOutlastRivals` | `ActiveLockStays` |
| | `RetriesAreAnswered` | `RequestIsIdempotent` |
| `DuelsRefinement` | `Refines` | `Duels` implements `DuelLifecycle` under the mapping `Lifecycle` |
| `MinigameProofs` | `RoundsStartOnce` | `OneStartPerRound`, for any number of rounds, failures, restarts and retries |
| | `RoundsSettleOnTime` | `SettledOnTime` |
| | `ResultHolds` | `ResultStands` |
| | `SignalIsFair` | `NoFalseStartAfterGo` unless a step of the accept fails; for rounds after the first, `LaterSignalsKept`, whatever fails |
| | `DuelIsSettled` | `SomeoneSettles`, under `OneMishap`: at most one step fails, of a deadline, which has two tries at least |
| | `GameTyped` | the type invariant |
| `VisitsProofs` | `VisitsHold` | `OncePerDay` |
| | `NothingIsLeftBehind` | `FailedVisitLeavesNothing`: no key, defence or image of a failed visit stays |
| | `DefenceIsKept` | `EarnedDefenceStays` |
| | `VisitsTyped` | the type invariant |
| `ServiceProofs` | `CapitalHolds` | `CapitalIsDesignated`: no phantom capital, no district twice running |
| | `CapitalStaysVisible` | `CapitalNotHidden`: no step hides the capital of the present week |
| | `CapitalTyped` | the type invariant |
| | `AccountsHold` | `AccountsAgree` |
| | `RankingsHold` | `CachedRankingHolds` |
| | `FestivalsKept` | `FestivalsAreKept` |
| | `SeedHolds` | `SeedLosesNothing` |
| | `WeightsAreFair` | `ServesFairWeights`, for any file and any number of districts |
| | `AccountsStayTyped`, `RankingsStayTyped`, `FestivalsStayTyped`, `SeedStaysTyped`, `BootStaysTyped` | the type invariants |
| | `ServicesCompose` | `Services` implements each of its seven components |
| | `ServicesHold`, `ServicesTyped` | so it has their properties, and `ServicesTypeOK` |
| `RealtimeProofs` | `BlocksHold` | `BlockedHearNothing` |
| | `MapIsRight`, `NoticesAreKept` | `MapShowsWhoIsThere`, `NothingLostSilently` |
| | `BlocksStayTyped`, `PresenceStaysTyped` | the type invariants |
| | `RealtimeCompose` | `Realtime` implements each of its nine components |
| | `RealtimeHold`, `RealtimeTyped` | so it has their properties, and `RealtimeTypeOK` |
| `ClientProofs` | `MessagesShownAsTheyAre` | `ShownAsItIs` of the chat |
| | `WatcherIsOurs` | `WatcherServesScreens` of the position watcher |
| | `SheetIsOwn` | `SheetIsOfThisVisit` of the map |
| | `RankingIsOfItsSeason` | `RankingUnderItsNumber` of the season ranking |
| | `SignUpIsKept` | `SignUpHolds` of signing up and in |
| | `ChatStaysTyped`, `LocationStaysTyped`, `MapStaysTyped`, `SeasonStaysTyped`, `SignInStaysTyped` | the type invariants |
| `DuelClientProofs` | `ScreensFollowTheDuel`, `ScreensCloseForAReason` | `OverlayFollowsDuel`, `ClosedForAReason` |
| | `ScreenPlays` | `ScreenPlaysTheRound` of the game's screen |
| | `ClientStaysTyped`, `GameStaysTyped` | the type invariants |

Duels. `OneActiveDuel` and `ActivePlayersExist` are not inductive: a transaction
inserts a row before others can see it, and what it has checked must still hold when it
commits. `IndInv` therefore speaks of rows that bind their players from the insert on
(`BoundPlayersFree`, `BoundPlayersExist`), and of handlers: one that has inserted a row
owns it (`SlotsAgree`). An insert keeps that because it holds the advisory locks of both
players, which is to say that no uncommitted row binds either, and has found no committed
one; a deletion keeps it because it takes the same lock and ends the user's duels first.
`ChargedOnce` is a count over time; `LedgerAgrees` makes it a function of the row, which a
compare-and-set moves once. The refinement maps rows that are not committed to `NONE`:
the commit of a request is the abstract `Open`, every other step leaves each row alone or
takes it along one edge, and `BoundPlayersFree` gives `Open` its guard.

The promises of a duel need no clock. Rows and locks age together, so a lock that was set
when its row was inserted and lives as long as the answer may take is there for as long as
the row waits: `LocksAgree` relates the time a lock has left to the age of its row, and a
tick moves both. It stays true because a lock is released by the token of its own row, and
only after a commit that ended that row (`WorkAgrees`). An invitation is marked, and a row
charged for silence, after it was emitted (`SeenFirst`); a shield, and the call that will
set one, names a charge (`ShieldsPaid`); rows of one requestId are one row, those no other
transaction sees included (`RequestsApart`), because the advisory lock of the challenger
is held from the second lookup to the commit.

Minigame. None of its properties is inductive: whether a round may start depends on who
may still start it. `GameInv` follows the right to settle a round. One handler at most
holds it (`OneHolder`), although the right is given back after a failure. A round is
reached, by the session, a handler or `game:start`, only when every round before it was
passed: its right is taken, and nobody holds it but to open the next one
(`RoundsInOrder`). A round that has started was opened by a handler that then let go of
the round before it (`StartsOnce`). So who commits a winner holds the right of the last
round there is, which the winner played in (`Decided`); it is given back neither on the
way to the players nor after it (`Final`). A submission that settles has seen both
scores, which never go (`BothAreThere`), and a deadline that settles is of its own round
(`CallsFit`): nobody loses by default too early. What was told is kept by `TellInv`: a settlement speaks
only after the row has left `ACCEPTED`, for good, and reads its verdict off the row; an
accept that gave its game up says `VOID` after it has seen to it that the row is no longer
`ACCEPTED`, and is at odds with the row only if a round was started. Steps that neither take nor give back a
right nor decide for a winner keep `GameInv` by one lemma, `QuietStep`.

The signal has an invariant of its own, `GoInv`: what was signalled, or is about to be, has
its instant stored while the duel lasts (`GoStays`), so who heard the signal arrives after
it (`GoHeard`). Only the handler of the accept deletes an instant of a duel that lasts, the
first round's, when it could not open the game. If it then fails to delete the session and
to void the duel as well, the first round goes on without its instant: hence the condition
of `SignalIsFair`.

`SomeoneSettles` is not inductive: one must know what the session, the right and the
attempts have to do with one another. `EndInv` says that the session is never behind a
handler that plays and is ahead of one that opens the next round (`SessionKeepsUp`); with
`RoundsInOrder` whoever has the right, or takes it, is in the round of the session
(`SettlersHere`). Either that round's right is taken and its holder has not opened the next,
or the right is free and a deadline is set or on its way, or the round is being opened
(`Carried`). A retry counts the failure it follows (`AllTame`), so the one failure there
may be never finds the attempts used up. `OneMishap` is needed: when a step of `settle`
fails and `releaseRoundSettlement` after it, the retry finds the right taken, answers
'settling' and sets no further timer, and the duel waits for the sweep. With two failures
TLC finds this in ten steps; the comment in `settle` (minigame.service.ts:434) describes it
for a right that is not given back, and `EveryDuelEnds` of `Duels` is what then ends the
duel.

Capital. What the cache holds says nothing of what may still come to it. `CapitalInv` adds
that every value on its way, in a worker or in a write that was given up, is that of the
table (`LateAgrees`, and `NoPhantomCapital` for workers), that only weeks that have begun
are designated (`NoneAhead`), and that a worker about to insert has picked another
district than the capital of the week before (`PicksAnother`), which stays true while it
waits because rows are inserted once.

Blocks. `BlocksInv` follows the version. A list read under a version that is still the
present one lacks only members whose block has not moved the version yet
(`ReadLacksNone`), and no message counts on those; so a list stored in time lacks only
members whose change is under way (`CacheLacksNone`), and such a change deletes the list
before it ends.

Visits. `VisitsInv` says that whoever passed the daily key today is the token it holds, as
long as the user is registered (`HoldsItsGate`), and so is alone (`OneHolder`). An attempt
gives back only its own token, so a release after midnight disturbs nobody, and a purge of
the keys comes after the user is gone, without whom nothing is stored.

`FailedVisitLeavesNothing` needs `NothingLeft` beside it: every key, defence and image that
was taken is named by an attempt that is still to give it back, or has stored its record,
or giving it back has failed. The defence key is named by the claim that created it, as long
as it is of that claim's team (`DefenceNamed`). `EarnedDefenceStays` needs that an attempt
comes to the undo of the key only if it created one (`UndoIsOwn`).

Accounts. A withdrawal that has found its row knows the id of that row until it deletes it,
unless a registration was stored for a uid that was being withdrawn, which `overlap` records
(`CallFits`). A report says whom it was about until his row goes, and `was` keeps it after
(`ReportsFit`); so the record the withdrawal writes names exactly the reports there were.

Rankings. `CachedRankingHolds` compares a cached list with the ledger of a later moment, so
the invariant says of every list on its way what it says of the cache: one that was
fetched after the end of the season differs from the present ledger by late rows and by
users who left (`FinalAsOf`), and a withdrawal that has cleared the key has marked whoever
holds a list from before (`MarksTheGone`). A step that posts or removes moves sums of one
player or one team, a `SumFunction` over rows of the ledger: that the others stay is a lemma
about the set a sum is over, not about its value (`ScoreStays`).

Festivals. What a run got is among the ids it will spare, and is stored, waits to be
upserted, or was deleted by the other run (`RunFits`); columns that were known are filled
(`RowFits`). That several rows with one key have a last one follows from a lemma about the
least number with a property (`LeastOf`).

Spot seed. A statement that deletes has locked only spots it saw without records when it
began, and whoever refers to one of those committed beside it (`PostsFit`, `SeedRunFits`);
and it runs only after rows of the new file are in, so a spot is left as soon as one of
those has the prefix that the statement spares.

Weights of districts. That a server serves the weights of its own file unless another has
stored one in between is a matter of the state: who is about to load has stored its file,
and the table holds its weights as long as `seeder` names it (`BootFits`). That these
weights are fair is arithmetic. A weight is off its share against the mean by half a unit of
the scale at most (`WeightIsRounded`), a greater share is never rounded below a smaller one
(`WeightIsMonotone`), and the errors add up to less than one unit per district
(`WeightsAverageOne`). The sum over a file of any size is a fold, and the induction rules of
the library take an operator, which the provers cannot instantiate. `NatsByOne` and
`SubsetsByOne` say the same with the set of what has the property in place of the property:
a set of subsets that has the empty one, and every other whose rest without one element it
has, has them all. By them the fold has its values on every subset (`SumsExist`), is
positive over positive terms (`SumIsPositive`), and of two sums whose terms differ by `c` at
most the difference is at most `c` a term (`SumsAreClose`). The proof found that a weight may
be nothing: a share far below the mean is rounded to it, so the property asks for a weight
and not for a positive one, and a release of the run has such a share.

Presence. A notice is in exactly one place: on its way to the queue, in it, drained for one
connection, told, or excused for a reason the model names (`NoticesApart`). Who is connected
after a withdrawal disconnected the user's sockets is a straggler (`SocketsFit`), so the
map loses nobody else.

Chat. What is shown as being sent is pending, and the emission of its attempt still waits
for its callback; emissions are used in order, so a new one takes no callback from an old
one (`UsedInOrder`).

Position watcher. A start under way holds nothing and its watcher is the only one; what is
held is of the present generation (`WatchersFit`). The permission is a budget: dialogs that
were answered, that are open and that taps may still bring are at most one more than the
taps (`DialogsPaid`).

Map. Until the query of a tap has its answer there is no callout, and the marker wanted is
that of the query (`CalloutWaits`); what the sheet watches was begun in this opening
(`AttemptIsOfNow`); what the device keeps, or is about to write, is of its user unless a
write outlived the user it was for or the device could not be cleared (`EntriesAreOwn`).

Season ranking. An answer is under the key it was asked by; the current season is known
from the first answer shown without a number, before which the arrows lead nowhere
(`KnownFits`).

Signing up. The three parts of `SignUpHolds` have an invariant each. Accounts: a session, a
call and a form are of an account that exists, and where the phone cannot know whether the
server made the profile, the account is in `unsure` (`UidsFit`, `CallFits`). The query: it
is about nobody but the session, and of one who was told to be registered it reads nothing
else (`QueryFits`), because a profile once made stays. The screens: unless astray, a form
is busy only where no sheet is open, no snapshot is being saved and no social login fetches
(`ScreensFit`), so what opens the register screen finds no social session.

Duel screens. Whatever the server says about a duel arrives in the order it was said
(`LettersInOrder`), so what would open a duel that is over has its ending behind it
(`EndsFollow`), and a duel that is shown and over has its ending in the inbox
(`ShownEndFollows`). A player is engaged in at most one duel that is not on the screens,
and then it is the one his request has made (`EngagedFits`); hence the enemy shown is the
opponent.

Screen of a game. Of the start that has not arrived, the leave to play, a submission, its
refusal and the score the server holds there is at most one in a round (`OneTry`), and
starts arrive in the order of their rounds (`LinkFits`). A tap counts as one after the
signal only if the server has marked it (`SignalFits`), which makes `falseStart` impossible
for it.

Types. The type invariants say more than the shape of a variable where a bound is the
code's: a queue of notifications never exceeds `NOTIFICATION_MAX` (`QueueWithin`); the
version of a list of blocks moves once for each change, so the changes under way that have
yet to move it are paid for (`VersionPaidFor`); a run of the synchronisation asks for no page
beyond those told (`PagesFit`); who is listed as an enemy is a player, also when an ending
lists him again (`ListedWithin`). That no more signals are shown than rounds were given the
leave to start is a count: those the server owes, those in packets and those shown are at
most the rounds given (`CountFits` of `GameWithin`), so a signal is never told twice. The
winner of a district's aggregation is a team because among finitely many claims some team
has a score that no other exceeds (`Rest`).

Composition. Every step of `Services` is a step of the component in focus and leaves the
variables of the others alone, hence a step or a stutter of each; the same for `Realtime`.
So either implements all its components, and their theorems are theorems of it.

Only model-checked: the liveness properties (`EveryDuelEnds`, `EveryRequestAnswered` and
`EveryGameEnds`), which TLAPS cannot prove; and that the violations of the next section
happen, which takes a behaviour and not a proof.

## 7. Where code and comments part

Each of these is a run of its own, which finds the behaviour:

* `DuelsRestartCharge`. The charge of the expiry timer rests on "the timer is in the memory
  of the process that took the request, so there was no restart"
  (`duels/duels.service.ts:1183`). A retry of the request after a restart finds the row and
  arms a timer in the new process, which charges an opponent whose invitation died with
  the old one.
* `MinigameRelease`. The right of a round is given back after a failure so that the deadline
  timer can take it (`duels/minigame/minigame.service.ts:434`). If the timer fired in
  between it was answered `settling`, which is no error and sets no retry.
* `MinigameUnstarted`. A duel whose game cannot start is ended at once
  (`realtime/realtime.gateway.ts:665`), but the notification of the challenger before the
  try block can fail and leave it accepted without a game.
* `SignInChangeEmail`. `changeEmail` deletes the login because "the account is not verified
  yet and so has no profile" (`frontend/src/hooks/use-registration-flow.ts:211`). While the
  screen waits the address may be verified and the account registered from another device.
* `GameScreenEarlyTap`. An early tap is handed on for the server to judge it a false start
  (`frontend/src/components/overlay/minigames/ReactionGame.tsx:47`), but by a timer of
  600 ms; when the signal is stored meanwhile it counts as a reaction.

These were met on the way, and are in the models as the code has them; where a property
would break it names them as its exception:

* "A committed PENDING row means that its pair lock is held" (the repository's
  `README.md:107`, `duels/duels.service.ts:666`) holds for the response time only: the key
  lapses with its TTL (`duels/duels.service.ts:671-675`), the row may stay until the
  sweep. `AnswerableHoldsLock` is what does hold.
* `DUEL_TARGET_SHIELDED` (`duels/duels.service.ts:556`) is not in the client's list of
  refusals of a request, so that it closes whatever duel is open; `ClosedForAReason` names it.
  A late refusal of a reject and a late timeout of an accept also close the duel that is
  open by then, not the one they are about.
* `duel:accepted` of a request that timed out is adopted for the next one, with the wrong
  enemy on the screen (`frontend/src/providers/SocketProvider.tsx:225`); `OverlayFollowsDuel`
  names that. The comment above it says that the acknowledgement of a request comes after
  its invitation; the gateway acknowledges first.
* An accept whose game cannot be started ends the duel as void and says so
  (`frontend/docs/integrations.md:57`). It says so also when the duel was won meanwhile: the
  timers of the round are set before `game:start` is sent, so the round may be settled while
  the handler gives it up; `voidByGame` then returns the row that is `COMPLETED`, and
  `voidAfterGameStartFailure` emits `duel:voided` without a look at it
  (`realtime/realtime.gateway.ts:679-687`). `ToldIsRow` names this message.
* A failing claim deletes the defence key only if it created it, so as not to void a defence
  that is going on (`claims/claims.service.ts:150`). It voids one all the same when a claim
  of the same team passed on that key meanwhile and was stored: the undo
  (`claims/claims.service.ts:133-141`, `204-212`) does not compare. `EarnedDefenceStays`
  names it.
* The clean-up of the spot seed is not entered unless rows of the file were brought in
  (`backend/scripts/seed-spots-csv.ts:318`). What it deletes is told by the prefix `MISSION`
  of the id, which no check asks of a file: rows without it are stored and deleted by one
  run, and with no other spot that has records the map is empty. `SeedLosesNothing` names it.
* The recheck of the penalty in a visit can fail (`claims/claims.service.ts:222`): the
  defence key then stays for its five minutes.
* A refusal forgets the attempt number of a chat message (`frontend/src/hooks/use-chat-socket.ts:144`),
  so the retry gets the same number again and the refused attempt's callback, which still
  runs after its five seconds, is taken for the retry's: it may be shown as failed while
  its answer is on the way.
* A check-in that is being written while the user changes is the next user's
  (`frontend/src/lib/visit-checkin.ts:49`), and two saves that overlap lose one entry. When
  clearing the device fails at that change, `frontend/src/providers/AuthProvider.tsx:69-74`
  says that there is nothing to be done and goes on: the next user has all of them.
* Of several opponents met at once one may not be told, because `notifyUser` failed for him
  (`realtime/realtime.gateway.ts:291-306`): his key of 60 seconds stands.
* Quick taps on the arrow back, while a season loads, go before season 1.
* A second tap on the marker whose callout is open shows the text of the first claim until
  the answer is there. `game:start` and `game:go` taken in one rendering never show the
  signal as a phase of its own.
* A background failure of the position (`frontend/src/hooks/use-location.ts:82`) loses the
  kind of the error shown before. `resumePending` makes no difference to what is started:
  the paths that read it are taken anyway.
* The screen that completes a profile takes a `CONSENT_*` refusal for an error like any
  other, and a failing fetch after a social login leaves the session behind.

## 8. Not modelled

* `DuelGames`, the composition of every duel with its game. `Minigame` has the row of its
  duel, `Duels` the calls a game may make at any time, and what one asks of the other is
  compared by reading, not by a refinement.
* Calls that take effect although their answer is lost, in `Duels`, `Minigame` and
  `Visits`: a failing call has no effect there. `Capital` has late writes, the client
  modules have lost answers.
* `duel:sync`, the delivery of a swept duel's message, the ally bonus, and `users.score`
  with its cut at 0.
* Queries that only answer (lists of spots, festivals, districts, members, history), rate
  limits beyond a refusal that may always happen, the resolution of the cache's name
  space, the verification of tokens, which is a library's.
* Of the client: sign-out in `DuelClient`, the countdown displays, the status of a season
  that has not begun, profile, settings, festival and legal screens, which show one query
  or send one form; texts and layout.
* Dry runs and warnings of the festival seed, the load test, the tools that build pages and
  check data, location logs, health checks and migrations: they share no state with what
  is modelled, or are append-only, or run once.
