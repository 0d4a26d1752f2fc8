# Formal model of SoloLucky21's accounting

SoloLucky21 is a Bitcoin mining pool. Miners speak stratum to a C gateway
(`src/datum-gateway`, patched by `src/infra/patch-stratum.py`); the gateway asks a
Go service (`src/reward-service`) whom the coinbase transaction must pay, and
tells it about shares and blocks; the service keeps everything in PostgreSQL; a
Next.js site (`src/web`) reads the same tables. This directory holds TLA+
models of that system, the TLC configurations that check them, and TLAPS proofs.

## 1. Inventory

| Component | State | Operations | Talks to |
|---|---|---|---|
| Rounds and blocks, shared pool (`cmd/server/main.go`, `internal/leaderboard/service.go`, `internal/db`) | tables `rounds`, `blocks`; in memory `roundID`, `top21`, the channel `blockPending` | `BlockFound`, confirmation loop, leaderboard refresh, start, stop | gateway (socket), PostgreSQL, bitcoind |
| Share buffer (`leaderboard.Service`) | `buffer`; tables `shares`, `workers` | `RecordShare`/`BufferShare`, `FlushShares` from a ticker and at exit | gateway, PostgreSQL |
| Solo pool (`internal/solo/handler.go`) | table `solo_blocks`, `blockPending`, activity buffer | `BlockFound`, confirmation loop, coinbase outputs, worker flush | gateway, PostgreSQL, bitcoind, site |
| Reward split (`internal/coinbase/builder.go`, `buildSnapshot`, solo outputs, the site's estimate) | none | division of a reward into outputs | called by the handlers and pages |
| Leaderboard query (`GetTop21`, `src/web/lib/db.ts`) | reads `shares` | ranking by sessions in a sliding window, thresholds | PostgreSQL |
| Socket server (`internal/socket/server.go`) | one goroutine per connection | JSON lines, acknowledgements, deadlines | gateway |
| Reward socket client (`datum_reward_socket.c`) | none between calls | one connection per request, timeouts | service |
| Coinbase assembly (`datum_coinbaser.c`) | the stratum job's six coinbases and its outputs | choosing the outputs that fit, writing coinb1/coinb2, personal coinb2 | templates, stratum, service |
| Personal coinbase in stratum (`patch-stratum.py`) | per client: address and two slots of personal coinb2 | notify, submit, username change | coinbase assembly |
| Block templates (`datum_blocktemplates.c`) | template thread's wake-up flags | getblocktemplate loop, notifications | bitcoind |
| External cache (`src/web/lib/external.ts`) | `_cache`, `_inflight` | `getExternalStats`: fetch once a minute for all who ask | mempool.space |
| Web pages and API routes (`src/web/app`, `src/web/lib/db.ts`) | the pool of connections | pages and routes that issue their queries together | PostgreSQL, external cache |
| Bitcoin RPC client, signet signer, deployment | - | - | - |

What is hard here:

* *Interleaving.* Every message of the gateway is handled by a goroutine of its
  own; two confirmation loops, two refreshers and two flushers run beside them.
  Locks protect single fields, never an operation that reads, calls the database
  and writes. On the site every `await` is such a place.
* *Stale state.* `roundID` and the confirmation count of a block are read long
  before they are used; the parts of a page are read one by one.
* *Failure and restart.* A wake-up is one bit in memory, dropped if the channel is
  full, and rebuilt from the tables after a crash; statements fail or succeed
  without an answer; the chain reorganises between a question and its answer.
* *Loss.* Shares live in memory for up to thirty seconds, and are not
  acknowledged.
* *Time.* A miner's place rests on gaps between his rows and on a window whose edge
  moves by itself.
* *Numbers and layouts.* A reward is divided with rounding, and its outputs have to
  fit into templates of different sizes, split around a miner's extranonce.

What makes each part correct:

* rounds: exactly one open round, closed by a confirmed block of its own; a block
  settles once and in the end; the service plays the open round;
* shares: none stored twice, none lost without a reason, each in its round;
* solo: a block settles once and in the end, and the site says so;
* split: the outputs sum to the reward; what is stored and shown of a block's payouts names
  those who were paid, with no more than they were paid (with less, if the block has fees:
  section 5);
* leaderboard: a rank is lost only to somebody better, to silence or to a block (a paid
  place also to an equal share: section 5); whoever is paid is shown above the line; the
  threshold shown is too high by no more than its rounding;
* gateway: the declared number of outputs is the number present, their sum is the
  reward, and a share is rebuilt with the coinbase it was mined on; a new block is
  worked on at once and in the end;
* site: one fetch at a time, no value steps back, no confirmed block is missed,
  everybody is answered.

All hazards, at their lines, are in `PROJECT.json`.

## 2. Modules

| Module | Models |
|---|---|
| `PoolRounds` | the shared pool's rounds and blocks, one action per step between two locks, statements or calls |
| `RoundLedger` | what the pool promises about rounds, with no service in it |
| `PoolRoundsLedger` | the refinement mapping of the tables to the ledger |
| `ShareBuffer` | buffered shares, two flushers, a stopping process |
| `SoloPool` | the solo pool's blocks, and how the site lists them |
| `CoinbaseSplit` | the division of the reward |
| `CoinbaseLayout` | how the gateway writes a coinbase around the extranonce |
| `RewardSocket` | the gateway's calls to the service and the service's connections |
| `TemplateNotifier` | the gateway's template thread and the flags that wake it |
| `PersonalCoinbase` | which coinb2 a miner is sent, and which one its shares are rebuilt with |
| `Ranking` | the ranking queries of the service and of the site, and what pages make of them |
| `Leaderboard` | the shares table as time passes, seen through `Ranking` |
| `LiveBoard` | what the pool promises a miner about his place, with no table in it |
| `ExternalCache` | the web server's cache of mempool.space |
| `WebServer` | visitors, pages and routes, the pool of connections; composed with `ExternalCache` |
| `Coinbase` | a reward, divided by `CoinbaseSplit`, asked for through `RewardSocket` and written by `CoinbaseLayout` |
| `MCPoolRounds`, `MCShareBuffer`, `MCCoinbase`, `MCPersonalCoinbase`, `MCLeaderboard`, `MCWebServer` | instances for TLC |
| `PoolRoundsProofs`, `ShareBufferProofs`, `SoloPoolProofs`, `PersonalCoinbaseProofs`, `TemplateNotifierProofs`, `CoinbaseProofs`, `LeaderboardProofs`, `WebServerProofs` | theorems and proofs (section 4) |

### PoolRounds

Variables above the line `The process` are the database and survive `Die`; the
others are the process's memory. `lastRound` and `closedBy` stand for the table
`rounds` (a row exists for `1 .. lastRound`; `ended_at` is set together with
`block_id` and only then), `roundOf`, `foundAt`, `confirmed` and `orphaned` for the
table `blocks`.

| Code | Actions |
|---|---|
| `poolHandler.BlockFound` and `RecordUnconfirmedBlock` | `BlockFound` (copies `roundID` under the lock), `RecordUnconfirmedBlock` (the INSERT answers, fails, or takes effect and fails), `SignalBlockPending` |
| `startConfirmationLoop` | `SeedFromTable`, `Wake`, `FinishPass`, `Tick`, `LoopCancelled` |
| `checkConfirmations` | `ListUnconfirmed`/`ListFails`, `PollBlock`/`PollFails` (the RPC answer), `MarkOrphaned`, `ConfirmBlock` (the whole transaction), `PublishRound` (the write lock) |
| `refreshLeaderboard` | `RefreshBegin` (read lock), `RefreshStore`/`RefreshFails` |
| `main`, schema bootstrap, signals | `Start`, `Terminate`, `Exit`, `Crash` |
| bitcoind (external) | `Propagate`, `Bury`, `Reorg` |

The loop's `pc` values are places between two calls: "check" is the head of the
`for` over the batch, "orphan" and "confirm" are between the RPC's answer and the
statement it decides, "publish" is between `ConfirmBlock`'s return and the lock.
What a leaderboard contains is abstracted to the round it was queried for.
`missed` is a history variable: the blocks that a failing seed query or an INSERT
reported as failed hides from this process until it next lists the table.

### ShareBuffer

`ReadRound` and `BufferShare` are the two halves of `RecordShare`, `TakeBuffer` is
the swap under the buffer's lock, `WriteBatch`, `FlushFails` and
`FlushUnacknowledged` the outcomes of the transaction. `lost` is a history variable.

### SoloPool

As `PoolRounds`, without rounds. `missed` here also has the blocks behind an
unchecked `rows.Err()`, which the shared pool's query does check. `GetSoloBlocks`
and `StatusBadge` are the site's list of solo blocks; `PendingBlocksSettle` is stated
of what the list shows.

### CoinbaseSplit

Operators over satoshis. The products with 0.021 and 0.01 in floating point are
modelled as exact floors; the module's head says why that is what the code computes.
`Snapshot` is the list stored with a block: `buildSnapshot` divides the constant subsidy
(`SubsidySats`) and the fees that were reported. `CalcPayouts` is the site's estimate of a payout, which leaves the
fees of the block out. `Coinbase` compares both with what the service pays.

### CoinbaseLayout

Operators over sequences of parts: a part stands for a stretch of bytes of which only
the kind, the length and a number (an output's value, the declared count) matter.
`SubtypeBySize` makes the code's two passes over the outputs one `Scan`, which both
take the same way, and writes what the code appends, where it appends it, to coinb1
or to coinb2. Cursors into buffers are positions at the end of a sequence;
type 0 with a long input, which goes on behind a finished coinbase, comes out as
that. What is kept of a list is named by places (`Picked`, the outputs with a script or the chosen
ones), and both passes are recursive functions of a place in the list.

### Coinbase

A behaviour is one request: which miner, reward, leaderboard, tags, template and firmware a
coinbase is for. `Generate` makes the job (`JobOf`) and its coinbases once the two calls for
outputs have returned, with or without an answer. `Asked` is the reward that the service divides:
the gateway sends it the fees, which are what the block's value has above the subsidy of today, so
a block that is worth less (after a halving) is divided as if it were worth
`SubsidySats`; its coinbase then leaves out the outputs that exceed its value.
`ReportedFees` is what the gateway reports when it finds the block: always 0, whatever the fees
were, so that the stored amounts are those paid only for a block without fees. `EachIsPaidHisShare`
says what holds of every block: the same miners in the same order, nobody with more than he was
paid.

### RewardSocket

A call and its connection have one name. `call` is where the gateway's function is,
`server` where the connection's goroutine is: "ok" and "error" are between a handler's
return and the write of its answer. `lines` and `reply` are what each side has
written and the other not read. Both sides give up at any time (`NoAnswer`,
`EndOfScan`, `NotAnswered`), and `Die` ends the process at any time. What is done with
an answer is in `Coinbase`: `Answered` (no answer, no outputs) and `PersonalOf` (no
answer, the shared coinb2).

### PersonalCoinbase

One connection. `cur` and `prev` are the two slots of `T_DATUM_MINER_DATA`;
`NotifyJob`, `NotifyQuickdiff` and `NotifyNewBlock` are the three ways
`send_mining_notify` is called; `Accepted` and `Rebuilt` are what
`client_mining_submit` does with a share. The stratum server itself is not in the
repository: the jobs it makes, authorization and reconnection are its environment.
That a job waits for its coinbaser is known from the states
`src/datum-gateway/src/datum_blocktemplates.c:500,564` gives it. `work` remembers
everything the miner was sent, from which it may send a share at any time.

### TemplateNotifier

The thread's `pc` values are the places where others can come between: "fetch" is
the call to the node, "decide" the comparison of its answer, "empty", "full" and
"normal" are before the three updates of the stratum job, "pause" is the end of the
loop's body, "wait" its timer. `Signal`, `NotifyNew` and `OtherCause` are the three
entry points of the file; those who call them are not in the repository, so they are
called at any time, with any hash and height a caller can know.
`new_notify` and `new_notify_threadsafe`, which are set apart but only ever
read and cleared together, are one variable. `told`, `asked` and `gaveUp` are history
variables. The contents of templates, the ring of their slots, and the time that the
test networks' fast forward chooses are left out.

### Ranking, Leaderboard, LiveBoard

`Ranking` has the SQL of `GetTop21`, `getLeaderboard`, `getMinerStats` and
`getExtendedPoolStats` as operators over a set of rows: `SessionStarts` is the CTE that finds
the gaps, `Session` the rows since the last one, `Standings` the join, `RankIn` the
`RANK()`. `Firsts` is the *set* of answers that an ORDER BY without a tie-break may give.
Below them are the operators for the arithmetic of the pages (`PaidRows`, `OpenSlots`,
`TimeUntilExpiry`). Difficulties are in hundredths, as the gateway writes them with two
decimals. Two conversions lie between them and the page: `MinTop21` has the `ROUND(...)::BIGINT`
of the query (`RoundToWhole`), and `FormatBestShare` the two decimals of a thousand, a million
and so on (`Steps`) that the page prints, with both neighbours of a middle.
`Leaderboard` adds the table's own conversion (`Stored`): a column made by `schema.sql:42` is
`NUMERIC(78,0)` and rounds what is inserted, one that existed before as a double, which
`src/web/lib/db.ts:194` speaks of, keeps fractions (`KeepsFractions`); both are modelled. It adds time: rows are inserted with the present time, also for the
round before the open one (`ShareBuffer` shows why that happens), rounds end, time passes.
`LiveBoard` has no rows: a best share that is kept, restarted after a silence of a
week, and wiped by a block. `ImplementsLiveBoard` is the refinement, from what the
miner's page shows.

### ExternalCache, WebServer

An action is what runs between two awaits: `GetExternalStats` up to the first await
(`ServeCached`, `JoinFetch`, `BeginFetch`), each request's answer, the two reads of a
body, and the end of the fetch, which stores the entry, clears `_inflight` and answers all
who wait. Values are versions: 0 is `null`. `WebServer` gives callers a page: `Arrive` issues the page's
queries in the order of its `Promise.all`, `Connect` gives the first waiting query a connection,
`TimeOut` is `connectionTimeoutMillis`, `Hang` a statement that never ends (there is no
statement time-out), `ReplyError` the first rejection and `ReplyPage` the last
answer; `Leave` lets what was issued go on without the visitor. Of the tables only the
confirmed blocks are modelled, in the order they were found, and `Confirm` confirms
any of them; a page's rows are the set of blocks at its places in that order. `PageNumber`, `Offset` and `GetBlocks` are the route's paging.
A "world" is a choice of who asks for what, so that one run can have several small
questions.

## 3. Runs

| Run | Shows |
|---|---|
| `rounds_safety` | three blocks, four rounds, one reorganisation, one stop: the safety properties and the inductive invariant |
| `rounds_liveness` | two blocks, a stop, a reorganisation, failing calls: blocks settle, the leaderboard catches up, the tables implement `RoundLedger` |
| `rounds_service_round` (violation) | a second confirmed block of a round puts the service back into the closed round |
| `shares` | four shares, two stops or kills, all failures: nothing twice, nothing unexplained, nothing for ever in memory |
| `shares_stop` (violation) | a graceful stop without any failure drops shares |
| `solo` | two blocks reported twice, every failure, a stop, a reorganisation: settled once, and in the end, as the site's list shows it |
| `coinbase` | 17 rewards, 7 leaderboard lengths and 5 finders; then a block of today and one after the next halving, 6 firmware types, 6 tags, 7 templates, 3 kinds of addresses: exact division, whole transactions, the whole reward paid, sizes kept, the stored list and the site's estimate of those paid and of no more. Seven requests and three reports go through the socket, with a service that hangs, answers late or ends: the reward is paid whoever was answered, reports count once, no call is held up |
| `coinbase_personal` (violation) | a personal coinb2 behind type 2's coinb1 is no transaction |
| `templates` | three best blocks, a notice of any kind, the fallback notifier, useless answers: notices and requests are kept, new blocks start with clean empty work and are worked on in the end |
| `personal` | four jobs, two names, a reconnection, a service that may not answer: shares of the present and the previous job are rebuilt as sent |
| `leaderboard` | four shares of four miners, two rounds, a page of three rows, a week that comes round twice: places follow `LiveBoard`, ranks hold, whoever is paid is shown, the threshold, rounded and printed, is too high by no more than half a difficulty and, from a thousand on, half a percent |
| `web` | four worlds of up to three visitors and two connections: no block is missed, values never step back, failures expire, everybody is answered unless his own query hangs |

Bounds. Two blocks are the fewest that share a round, three the fewest where a late
block exists while a further round is closed; a round more than blocks is enough,
because only the first confirmed block of a round opens another. One reorganisation
reaches every order of an answer and the change it missed; a stale block that
comes back would need a second one. One stop reaches every place where a process can die, a second
one (`shares`) reaches a restart of a restart. Shares come from two workers so that
a batch holds several workers and several shares of one worker. The leaderboards
of `coinbase` end just before, at and after 21 miners; the templates leave room for
all outputs, some, one, or none, by size and by weight; the tags are such that the
extranonce fits and does not, and that they must be shortened and need not.
`OverrunIsBounded` is tight: 18 bytes and 64 weight units are reached. Three indices
and four jobs (`personal`) use one index twice while the two other jobs pass, which
are the present and the previous one; the threads are at most one job behind
(`MaxLag`). Addresses are symmetric there.
`rounds_safety` has every failure but a commit of `ConfirmBlock` that is reported as
an error. The `list`, `orphan`, `top21`, `seed` and `recordAck` failures are left out
of `rounds_liveness`, the first three for time (a stopping process still fails them), the last
two because they hide a block for good; the refinement is
proved for every failure. In `templates` the second and the third block are each noticed
by the fallback notifier, and one more notice meets it at every place; the sixteen
polls of the code are two (`MaxPolls`), which has a poll that is not the last one.
In `leaderboard` a week is two units of time, so that a gap can be below, at and above
it, and five units have two silences; two slots, a page of three rows and four miners have one who
is shown and not paid and one who is not shown, and two difficulties make ties at every rank, also
across the end of the page; four shares give one
miner two sessions while another submits. The table keeps fractions there, which is where the threshold can be furthest off:
1006.5 is rounded from the middle to the even 1006 and printed as 1.01K, more than it is, and 1.25 must be rounded
down. A table of whole numbers, which leaves only the printing, has its theorem. In `web` two connections and up to three
queries of a page make pages wait for one another; a list of pages of one block with three blocks is
read to its end while blocks are confirmed in any order; two hanging queries take all connections; a
TTL of one unit has an entry that is served and one that is not.
`SoloPool` may stop when the blocks are settled and no report is left, so
its run does not check for deadlock; all other runs do.

Fairness. A goroutine whose next step is enabled takes it (Go's scheduler), a
ticker fires, a handler runs to its end: weak fairness. The process is started
again after it ended: systemd restarts it (`src/infra/reward-service.service:24`,
`Restart=on-failure`), and a stop by an operator is followed by a start. Blocks
are relayed and buried (weak fairness on the chain's progress, none on
reorganisations). A call that is retried for ever does not fail for ever: strong
fairness on the answers of the query, of the RPC and of the statements of the
confirmation loop. Nothing is assumed of the miners, of the stops and of the
failures. The template thread runs (weak fairness of the thread as a whole) and the
node's answers are not useless for ever (strong fairness of `Fetch`); nobody need
notify it. `CallsReturn` assumes of the gateway that its calls go on, timers included,
and nothing of the service. On the site the event loop runs what is ready, the pool's
timers fire and a query that does not hang ends (weak fairness); a fetch is answered or given
up, as `fetch` has time-outs of its own, and mempool.space does not fail
for ever (strong fairness). Visitors need not come: `FailuresExpire` is about those who do.
`leaderboard` has no liveness property and assumes nothing.

## 4. Proofs

Eight modules of theorems. Each rests on the assumptions its component's module states
about the constants, and on nothing else unless the theorem says so; each has
an inductive invariant, one step (or lemma) per action, and the properties as consequences.
Every safety invariant and every action property of the passing runs is proved; TLC shows
them on small instances, and shows that each can be broken. Type correctness is not a property of
the runs: it is proved (`TypeCorrect`; in `WebServerProofs` a part of `CacheInv` and of `WebInv`, in
`LeaderboardProofs` of `TableInv`).

`PoolRoundsProofs`, for every finite set of blocks, every bound and every set of failures:

* `Invariance`: `Spec => []IInv`. `IInv` is `TypeOK`, `TablesInv` and `MemoryInv`.
  None of the safety properties is inductive by itself: that a block settles once
  needs that whatever the loop holds (`batch`, `current`) is still
  unsettled, although it was read several calls ago, and this in turn needs that
  no handler inserts a block twice and that a restart empties the loop; that one
  round is open needs that the block about to be confirmed names a round that has
  a row. `IInv` states these together.
* `AlwaysOneOpenRound`, `RoundsAlwaysClosedByTheirBlocks`, `BlocksSettleOnce`: from `IInv`.
* `WakeupsAreNotLost`: with `WakeupInv` on top of `IInv`, for every failure.
  `WakeupInv` follows a block through a pass: it is in the batch, in hand, its
  signal is coming, or it is in `missed`, unless the pass has found something to wait for.
* `RoundIDAges`: the service's round differs from the open one only while a new
  round is being published or after a late block, if no commit of `ConfirmBlock`
  is reported as an error (`NoLostCommit`).
* `TablesImplementLedger`: every step of `PoolRounds` is a step of
  `RoundLedger` or a stutter.

`SoloPoolProofs` (`BlocksSettleOnce`, `WakeupsAreNotLost`), for any number of reports of a
block: `SoloInv` has `HeldUnsettled` (what the loop holds is unsettled, and the block in hand has
left the batch), `ReportsSignalled` and `WakeupInv`. Here a block may be reported
again after it was settled, and `HeldUnsettled` is what makes the second row impossible.

`ShareBufferProofs` (`SharesAreStoredOnce`, `SharesAreAccountedFor`), for any set of
shares, any number of stops and every choice of failing flushes: `ShareInv` adds
`IdleHoldsNothing` (a flusher that is not writing holds no slice), without which the next
swap of the buffer would overwrite shares; that no row is written twice needs the
accounting, which says that a batch holds no share that has a row.

`TemplateNotifierProofs` (`NoticesLeadToJobs`, `RequestsAreNotLost`, and the action
property `NewBlocksAreStartedClean`), for any number of blocks, notices and polls:
`TemplateInv` adds `JobInv` (the latest job builds on `p1`, and after the comparison the
template does too) and `Following` (a notice there is no job for is in the thread's
hands at each of its places), since `NoticesAreFollowed` only speaks of the thread asleep.

`PersonalCoinbaseProofs` (`SharesAreRebuilt`), for any ring of jobs, any lag, and any number of
addresses, jobs and connections: `PersonalInv` says of each slot that it was built in this
connection for a job the miner has been sent (`SlotsInv`), and of each thing sent that the
slots still have it or have its job's index (`SentInv`). The heart is arithmetic: two jobs of one round of
the ring have different indices (`IndicesDiffer`). The property, and so the theorem, is
about slots that hold jobs the ring still has (`SlotsAreFresh`).

`CoinbaseProofs`, first for `RewardSocket` alone (`NothingHandledTwice`, `AnswersAreEarned`), with any
set of calls and any number of ends of the service: `SocketInv` says of each call that its line is in
one place: not yet written, unread, in a handler's hands, or dealt with. `HandledOnce` alone says
nothing of a line that is still to be read, so it is not kept by the step that handles it.
Then for the composition in `Coinbase`: `CoinbaseInv` has the request, the division of its reward and
`SocketInv`, and `AsWritten` says that what has been generated is what the request and the two answers
make of it; it needs `ReturnedStays` (a call that has returned keeps its answer). The theorems about
coinbases are then statements about operators, for every number of slots and of ranked miners, every
percentage, tag, template, script length and type of firmware:

* `RewardIsDividedExactly`, `SharesArePaid`, `InputsAreValid`. The rounding of `Cut` is bounded by
  multiplication (`AtMost`), and with the split of an output list in finder, slots and pool
  (`HasShape`) the sums are sums of equal slots. The stored list is the site's estimate of the bare subsidy
  (`StoredIsEstimate`), and a slot grows with what is divided, so neither exceeds a slot that was paid.
* `CoinbasesAreTransactions`. Every coinbase has one of two forms, with the extranonce in the input
  (`OpenForm`) or in an output of its own (`ClosedForm`), whatever the type (`SharedForm`); both forms
  are transactions (`BodyIsCounted`), as the count written before the outputs is the size of the set
  that is written after (`CountOfChosen`). `Garbled` is left out, as in the property.
* `SharedCoinbasesPay`. The values of a form's parts sum to the block's value (`FormPays`), because
  what a pass has chosen sums to what it says (`ScanKeeps`); who is paid is what is `Kept` of the
  sequence of parts, and if all outputs fit, nobody who is owed anything is passed over (`ScanWhole`:
  the pass ends early only with less room than any output takes, or when the sum is reached and the
  rest is owed nothing).
* `OverrunsAreBounded`. Bytes are weights like values: the chosen outputs cost no more than the room
  that was computed (`ChosenFit`), and the fixed parts of both forms are counted (`FormBytes`).
* `PersonalCoinbasesPay`. A personal coinb2 is the end of an open form (`PersonalEnds`), and the
  gateway never falls back from an answer that divided the block's own value.

What the folds and recursive functions compute is proved without the induction theorems: a sum of a
finite set is reached through the smallest subset that is a counterexample (`SmallestSet`); a recursive
function exists because the set of lengths up to which it does has 0 and with each number
the next (`AllNumbers`, `StepByStep`); and what holds of the empty sequence and is kept by `Append` holds of
all (`AllSequences`). Assumed of the constants, each stated in `Coinbase` or `CoinbaseSplit`:
at least one slot and no more than 246 (the number of outputs is written in one byte), percentages that leave
something, a first tag below 84 bytes, a pool that is not ranked, scripts of 0 or 21 to 64 bytes,
limits that are natural numbers.

`LeaderboardProofs`, for any finite number of rows, miners and rounds and any length of the week: `TableInv` (no row is
later than now or of a round to come) is all the table needs; the work is in the queries.

* `PaidMinersAreShown`: the two queries rank by the same sessions (`RankIn`),
  so that whoever has a rank in the service's table has it on the page, unless the page's rows end in a tie.
* `ThresholdIsNeverTooHigh`, for both kinds of column and any units that include the thousands: a
  best share of seven days is no more than that of the session (`ThresholdOfTable`); rounding exceeds it
  by half a difficulty at most (`RoundingUp`), and not at all where the table has whole numbers only (`WholeDifficulties`);
  printing exceeds that by half a percent (`PrintedUp`), and below a thousand not at all.
* `LeaderboardImplementsLiveBoard`: the session found from the gaps between rows and the best share that
  `LiveBoard` keeps change together, whether a row comes within the week of the last one or after,
  also when it is one of the round before.
* `ASlotHolds`: the action property behind "your slot holds", from maxima over sessions that only grow by rows.

`WebServerProofs`, first for the cache alone (`CacheIsNews`, `ValuesNeverStepBack`), with any set of callers and
any time to live: `CacheInv` is one fetch at a time (`OneFetch`), both answers before a body
is read (`BothAreSettled`), and what a fetch brings is no older than what was told before
it began (`FetchIsNews`), which needs that nobody is told anything from another fetch
meanwhile. `SiteUsesCache` shows that every step of
the pages is, for the cache, a caller's step or a stutter (`WebSpec => CacheSpec`), and
`SiteCacheIsNews`, `SiteNeverStepsBack` follow. `BlocksAreNotMissed` is about the pages: `WebInv` says of each
visitor (`Following`) that what he has been counted or listed has, or a query that is still out will bring, what was
confirmed before he came, and that the pages he has read have all blocks at their places. Places
have no gaps (as many confirmed blocks are newer as the place says), so that the page after the last
is empty only when every block has been seen; a block confirmed meanwhile moves others
to later places, never to earlier ones.

Only model-checked: all liveness, as the prover has no ENABLED. `ImplementsLedger`, `ImplementsLiveBoard`
and the action properties have no fairness and are proved.

## 5. Findings

* A second block of a round, confirmed after the first, makes `ConfirmBlock` return
  the closed round, which becomes the service's round (`rounds_service_round`).
* A graceful stop loses the batch of a flush in progress, and the shares that
  arrive after the final flush took the buffer (`shares_stop`).
* Miners with the firmware of type 2 are sent a personal coinb2 of another layout
  than their coinb1 (`coinbase_personal`). The same property fails for other types
  when the extranonce is in an output: coinb1 then counts the outputs of the
  shared coinbase, which are fewer when they do not all fit, or none when the job's own request was
  not answered (`PersonalPaysTheReward` leaves both cases out).

Not given a run of their own:

* The amounts stored with a block leave its fees out: the gateway reports every block with `"fees_sats":0`
  (`src/datum-gateway/src/datum_reward_socket.c:415`), so that `buildSnapshot` divides the bare subsidy
  (`src/reward-service/internal/leaderboard/service.go:260`) where the coinbase divided the block's whole value, and
  the miner's page shows less than he was paid for every block with fees. `EachIsPaidHisShare` says "no more", and
  "just as much" would fail for its requests with fees. `payout_sats` of the solo pool is made the same way
  (`src/reward-service/internal/solo/handler.go:128`).
* A leaderboard refresh that overlaps a confirmation brings the closed round's
  leaderboard back until the next refresh (`src/reward-service/cmd/server/main.go:278`), six minutes in which
  coinbases pay from it; `src/web/app/reward-rules/page.tsx:95` says there is no carry-over.
  `LeaderboardCatchesUp` is what the code does achieve.
* After an outage of the reward service a job's index comes round and a miner may be
  sent the personal coinb2 of an old job (`src/infra/patch-stratum.py:778`; compare
  `src/infra/patch-stratum.py:118`); `SlotsAreFresh` leaves this case out.
* "Your slot holds until someone submits a better share" (`src/web/app/page.tsx:149`) is not so at a tie
  for the last slot: `GetTop21` has no second criterion to order by
  (`src/reward-service/internal/leaderboard/service.go:206`), so its next answer may pay another miner with an equal
  share. The sentence also leaves out the week of silence. `SlotHolds` is what holds, of ranks.
* `src/web/lib/db.ts:194` calls `true_difficulty` a double, `schema.sql:42` makes it `NUMERIC(78,0)`, but with
  `ADD COLUMN IF NOT EXISTS`. In either case the threshold on the statistics page may be above the share of the
  last place, by its rounding and its two decimals (`ThresholdNeverTooHigh` has the bounds).
* With tags that leave no room for the extranonce, type 0
  is written behind the empty coinbase (`Garbled` in `Coinbase`); the size of the
  fixed parts leaves out the signet commitment (`OverrunIsBounded`).
* A block's report that finds no service, or has a finder with a strange name, is lost; an error
  of the seed query, or of an INSERT that took effect, leaves blocks unpolled until the next one is found (`missed`);
  a flush whose transaction fails drops its batch (`ShareBuffer`'s `lost`); the solo pool does not consult `rows.Err()`.
* The site: the threshold is shown whenever anyone is ranked, though
  `src/web/lib/db.ts:195` says it is null with fewer than 21 miners; it may be too low, as its
  seven days are shorter than a session; the
  miner's page shows an estimated payout also to ranks below 21; the FAQ and the leaderboard
  (`src/web/app/faq/page.tsx:4`, `src/web/app/leaderboard/page.tsx:142`) speak of the best share of
  seven days where the ranking takes that of the session; the soft cap of 100 TH/s
  (`src/web/app/reward-rules/page.tsx:103`) is in no query and no handler; ties can put more than
  21 rows above the line (`PaidAreShown` names them);
  a page parameter that is no number makes a route answer 500.

## 6. What is not modelled

* The coinbase that is paid and the list that is stored are made at different times: `buildSnapshot` queries the
  leaderboard when the block is reported, the coinbase was made from a cached one. `EachIsPaidHisShare`
  and `PaidAreShown` compare them as made from one leaderboard.
* The remaining numbers of the statistics (active miners, accepted shares, hashrates),
  formatting, and pages of text: presentation of a single query. `getBlock` has no caller.
  A page that waits for a slow query may *display* an external value
  older than another visitor has seen; `NoStepBack` is about `getExternalStats`' answers.
* The parser of block templates and the ring of their slots: data that no property
  looks at, but for sizes and weights, which `CoinbaseLayout` takes as given.
* The stratum server is not in the repository, only the patch to it: what the patch
  adds is `PersonalCoinbase`, the rest its environment. The same holds for bitcoind
  and PostgreSQL, of which the modules take the answers and failures that the code
  tells apart. Share difficulty, version rolling and logging in the patch compute on data
  that only the stratum server has.
* `datum_coinbaser_thread`'s polling of the job table: who else writes the table, and in which
  job states, is decided in the stratum server. What the thread puts into a job is in
  `CoinbaseLayout`.
* `FlushWorkers` of the solo pool has the shape of `ShareBuffer` and keeps only a time.
* HTTP and JSON of the RPC client; the socket server's unknown and malformed lines, which the
  gateway never sends.
* The signet signer, shell scripts and units: tools of operators; only systemd's
  restart is used, as a fairness assumption.

## 7. What could come next

1. `RewardSocket` composed with `PoolRounds`' handlers: a report that was answered
   "ok" is a block in the table. Today the two are composed through `AnsweredIsHandled`
   and the handlers' own steps, by reading.
2. The proof that `Garbled` is the only way to write no transaction, and where a personal coinb2 behind a closed
   coinb1 happens to be one: now both are left out by the properties.
3. The coinbaser's thread, once the stratum server's job table can be read beside it.
