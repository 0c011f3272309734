# Verification of sui-mcp

sui-mcp is a read-only MCP server for forensics on the Sui chain: some sixty
tools that read GraphQL, gRPC and a handful of third-party services, keep a
local SQLite store, and answer a model that calls them in any order and several
at a time. It is one Node process: there are no threads, and every `await` in a
handler is a point where any other call may run. What is hard in it is what
happens across those awaits, across a failed read, and across a restart on the
same store; that is what these modules are about.

## The system

| Part | State it keeps | Operations | Hard behaviour | What makes it correct |
|---|---|---|---|---|
| Address watch (`tools/watch.ts`, `utils/watch.ts`, `utils/watch-probe.ts`, the `watches` table of `utils/store.ts`) | one row per address: cursor, floor | add, remove, poll | polls that overlap, rows read before an await and written after it, pages cut inside a checkpoint, failed batches, death between two UPDATEs | a cursor never passes a transaction no answer covered, never moves back, and everything is answered in the end |
| HTTP transport (`clients/graphql.ts`) | a limiter and its waiters, a rate window, attempts | request, retry, abort | slots handed over under contention, two nested retry loops, aborts while queued | no slot leaks or idles, the window holds, every request ends |
| Price providers (`utils/price-providers.ts`, `utils/price-call-context.ts`, `utils/recent-prices.ts`) | a circuit per tool call, promise caches | read, break, reset | concurrent reads that captured the circuit before an await | a tripped circuit stays tripped for the call; failures are not cached |
| Flow engine (`utils/flow-engine.ts`, `utils/flow-graph.ts`) | the frontier of jobs, the graph, what each transaction has left to attribute, a terminal ledger, counters behind the limits | start, expand, search, connect, end | shares merged and followed again in different orders, searches and reads that fail, limits reached in the middle | traced value is conserved, no transaction is attributed more than it moved, and the reason given for an end is true |
| Coalesced object reads (`utils/valuers/common.ts`) | a pending batch, a memo per call | request, drain | calls on different networks share the pending batch | an object is read on the network of the call that asked |
| Coin registry, ticker search (`utils/coin-registry.ts`, `utils/ticker-search.ts`, `discovery.ts`) | three layers of caches, each with one refresh in flight | refresh, look up, search, scan | joiners of a refresh that fails, partial answers, a list replaced between two awaits | an outage is never told as an absence, nor a cut list as the only candidate |
| Local store (`utils/store.ts`, `utils/labels.ts`) | tables, `user_version`, the labels of the session | open and migrate, add and remove labels, save findings, cache | death between the steps of a migration, two builds on one file, a write that fails | what a user stored survives, what was removed stays away, a cached number is of the method it is read as |
| Tracing (`tools/trace.ts`, `utils/trace-read.ts`, `utils/trace-hop.ts`) | the path so far; transactions stored by any earlier call | fetch, choose a hop, search | rows cut by a failed continuation, pages that end early, order within a checkpoint | hops are linked and go one way, and the reason given for the end is true |
| Toolset (`tools/toolset.ts`, `tools/profiles.ts`, `index.ts`) | enabled tools | apply profiles, enable | enabling during a batch | tools are only added; one notification per batch |
| Per-call pipeline (`tools/with-network.ts`, `config.ts`) | async-local network, name resolution | wrap a handler | none of its own | handlers see their own network |
| Everything else: funding and clustering, attack and capability analysis, packages and decompilation, bridges, valuers, NFT and launch tools, screening, reports, paging, prompts, data | none that outlives a call, beyond the caches above | sequential folds over one call's reads | data shapes, not behaviour | checked by the repository's fixtures |

The parts meet in three places. Every read goes through the transport, so its
failures and delays are the failures and delays of the handlers. Handlers share
the process-wide state above (the store's rows, the limiters, the pending
batch, the caches) and nothing else. The network and the price circuit travel
with a call in async-local storage.

`PROJECT.json` lists every part with its status, and under `hazards` each line
where something can go wrong that a test would hardly reach.

## Modules

| Module | What it models |
|---|---|
| `Watch` | the watch: the chain an address has, the rows, and the tool calls in flight |
| `WatchFeed` | what the watch promises: an at-least-once feed |
| `MCWatch` | its instances for TLC |
| `WatchProofs` | its types and its cursors, proved |
| `WatchGapProofs` | that it skips nothing, and implements `WatchFeed`, proved |
| `Transport` | `Limiter`, `RateWindow`, `retryingRead`, `gqlQuery` |
| `MCTransport` | its instances for TLC |
| `TransportProofs` | its theorems |
| `Flow` | the forward walk of `FlowEngine`: frontier, search, allocation, ledger |
| `MCFlow` | its instances for TLC |
| `FlowProofs` | its theorems |
| `Store` | `initStore` and its migrations, and the rows it keeps, under several servers |
| `MCStore` | its instance for TLC |
| `StoreProofs` | its theorems |
| `Trace` | `trace_funds`: the loop over hops, its stored reads and its two searches |
| `MCTrace` | its instances for TLC |
| `TraceProofs` | its theorems |
| `CoinSearch` | what a symbol resolves to: live list, pool search, scan |
| `ObjectBatch` | `readObjects`: the batch of a tick and the memo of a call |
| `PriceReads` | the circuit of a call under the cache of all calls |
| `MCLookups` | the instance of these three for TLC |
| `LookupProofs` | the theorems of the three |
| `Sums` | lemmas about sums over finite sets, and least elements, for the proofs |

### Watch

A row is keyed by the spelling it was stored under (`Key`); `Norm` is
`normalizeWatchAddress`. `watched`, `cursor` and `floor` are the table. A call
is a record of what its handler captured before it yielded: an add holds the
checkpoint it read (`from`), a poll holds the rows with their cursors and floors
as `listWatches` returned them, the pages fetched so far and which of them were
cut. The actions are the synchronous stretches of the handlers:

| Action | Code |
|---|---|
| `BeginAdd`, `FinishAdd` | `watch_addresses` before and after `await currentCheckpoint()`, with the upserts of `saveWatch`, any of which may fail |
| `Remove` | `watch_addresses` remove: the canonical row, else the row as typed |
| `BeginPoll` | `poll_watch` to its first await |
| `FetchBatch` | one aliased query of `fetchDeltas`, each row after the cursor captured for it |
| `FinishPoll` | after `fetchDeltaDetail`: `evaluate`, `safeAdvance`, `advanceWatch` for each row, and the answer; any UPDATE may fail |
| `CallFails` | any awaited read that throws |
| `Deliver` | the answer reaches the client |
| `Crash` | the process dies, perhaps between two UPDATEs, and starts on the same rows |
| `Execute`, `Certify` | the chain: a checkpoint fills, then becomes visible whole |

A transaction is its position in the address's history and a checkpoint number;
all of amounts, coin types and object types is one bit, whether a floor would
suppress it. Four history variables say what happened: `start` (the cursor a row
was created with), `told`, `muted` and `lost` (answers computed when the process
died).

`NoGap` is the point of the module: every transaction between a row's start and
its cursor has been told to the client, suppressed under a floor, is in an answer
on its way, or was in an answer a dying process took with it. That last case is
how the code behaves: the cursor is written before the answer is sent.

### Transport

A request is where its `await` left it (`pc`). `Leave` is `release()`: the slot
goes to the next waiter or is freed. The ways out of an attempt are actions of
their own (`Answer`, `Busy`, `Reset`, `Fail`, `Cancel`, and `Take` for a request
that was aborted while it waited for its turn). After 429 or 5xx the slot is
given up before the backoff; after a connection failure it is held through it,
because that wait is inside the `try` whose `finally` releases. Time is the age
of each start in the window. `Json` names the requests of `retryingJson`: these
are read inside the loop, cannot be aborted, have no window, and get a limiter
of their own.

### Flow

`FlowEngine` follows value from a transaction: a job per queued address, the
best of them expanded next until none is queued. The engine runs alone, so what
is hard in it is not interleaving but the long sequences of merges, refusals,
re-expansions and failures that one walk is made of, over whatever history the
chain holds. The history (`chain`) and the branches of the start are chosen
freely at the beginning, reads and searches fail freely.

| Action | Code |
|---|---|
| `StartBranch` | one branch of `startFromDigest` |
| `StopAtNode`, `StopAtLimit`, `StopAtHub` | `gate` and `stopJob`: a node that ends the walk, a limit, the hub check |
| `SearchFails` | a search that throws: `expandNext`'s catch |
| `FindNothing`, `FindSpends` | `expandForward` to its leg loop: the pages read, what earlier arrivals left of them, how many spends are followed |
| `TakeLeg` | one leg: its part (`allocateFifo`), what it leaves (`RemainingEntry`), and where it ends or goes on (`connect`) |
| `FinishExpansion` | the rest no leg accounted for |

`Connect` is `connect`: a branch below the threshold is pruned, one that returns
to an address it came by is a cycle, one for a queued node joins its job with the
earliest arrival, and any other is queued. Which job is next (`Better`) is the
code's order; a tie, which the code gives to the first queued, goes to either.

One coin is followed, so a node is an address and a share is the traced amount in
units of the start's `Total` (the code keeps a fraction and an amount side by
side, in floating point and in integers). A transaction pays one address, or ends
as consumed, or was signed by another than its sender. Bridges and sinks are one
label, bridge exits and kept conversions count as consumed. Left out: backward
walks, address starts, objects, conversions between coins, the split of one
transaction among several payees and their prices, the search through an object
when the address itself sent nothing, targets, and the exemption of lookalike
addresses from pruning. Candidates are read whole (see `Trace` for rows that are
not). Four history variables record what was attributed to each transaction
(`drawn`), passed on (`passed`), when value arrived (`arrivals`) and which arrivals
the ledger ended as unspent (`held`).

What is still held is said twice, and not in the same cases. The ledger ends value
under a code, and `unspent` is one of them; `UnspentIsHeld` is about that. The
node's own amount (`unspent`, `GraphNode.unspent`) also takes what arrived when a
search that found nothing stopped at its limit, which the ledger ends as `budget`;
`HoldingIsHeld` is about that, and fails (`FlowHeld`).

### Store

`initStore` runs statement by statement, each an autocommit of its own but for
the transaction around the labels. `step` is where a server is in it; a server
that failed is `off` and goes on without a store, one that is `down` may be
started, with either build. What the first start finds is a new file, a file of
a build before account keys, or one of a known cache method with a narrow or a
wide table.

| Action | Code |
|---|---|
| `CreateTables` | `SCHEMA`: CREATE TABLE IF NOT EXISTS |
| `InspectLabels`, `RefileLabels` | `migrateLabelsToAccounts`: the column list, then one transaction that renames, creates (all of `SCHEMA`), inserts and drops |
| `QualifyFindings` | `migrateFindingAddresses`: an UPDATE for each row |
| `AddColumns` | `migrateFindingColumns` and `migrateResultColumns`: an ALTER TABLE each |
| `InspectCache`, `RenewCache` | `migrateFanoutCache`: its test, then drop, create, stamp |
| `Seed` | the rows read into `sessionLabels` |
| `OpenFails`, `Exit` | a statement that throws; the process ends between two of them |
| `AddLabel`, `RemoveLabel` | `addSessionLabel` and `removeSessionLabel` with the reply to the caller; the write may fail |
| `SaveFinding`, `DeleteFinding`, `Measure` | a finding, and `saveFanout` |

`kept` and `gone` are what callers were told: `gone` grows with each "Session label
removed.", whatever the store did. Three histories name the behaviours the code
gives no promise for: `missed` (a server without a store gave that reply for an
account whose row is still in the file, to be seeded at the next start), `raced` (a
second server files labels that another has filed already, on the strength of a
column list it read before) and `outdated` (a build writes measurements, or its
stamp, where a newer build had renewed the cache). `RemovedIsGone` excludes the
first two, `LabelsKept` the second, `FanoutOwn` the third. They are described under
"Without a run" below.

### Trace

A trace is one call's `fetchTx`, choice of a hop, and search, up to `MaxHops`
times. A transaction is its place in the order of the chain; its checkpoint may
be shared. What it does with the coin is its `deed`.

| Action | Code |
|---|---|
| `OtherRead` | another call stored a transaction, perhaps cut |
| `FetchStored`, `FetchRow`, `FetchFails` | `fetchTx` and what the loop does with its answer |
| `Hop` | from the custody check to the hub check, in the order of the code (`Verdict`) |
| `SearchForward` | `scanForwardSpends` over what the address sent, else over what touched it; the spend that took most of what was delivered |
| `SearchBackward` | `findPriorInflow`: the newest inflow before the hop |
| `SearchFails` | a candidate page that throws ends the call |

A row may be `partial`: `drain` keeps what it has when a continuation fails,
and the followed address's change may be beyond. It is cut in its balance changes
only; commands and events, which are continued by reads of their own, are taken as
whole. A continuation that fails is not a failed read to the loop: the call goes
on with what it has, and may end "unspent" or "dead end" for want of the rest.
`blind` records that a call met such a row, in a hop or among the candidates, and
`EndIsTrue` speaks of the other calls; `DeadEndIsRead` excepts the hop whose own row
was cut, which its hop reports. What lies beyond the current transaction is decided
page by page, as in the code: in a page that does not hold it nothing is dropped.
Left out: tracked objects
and what touches them next, swaps into another coin, kept claims (`passOver`),
the ranking of pools and pass-through addresses, and the reports beside the path
(residues, commingling).

### Lookups

Three modules for what concurrent calls share while they look something up.
They share no state with each other, so `MCLookups` runs one of them at a time.

`CoinSearch` is one symbol on mainnet that the checked-in list does not have.
A call of `resolveSymbolDetailed` (`Asker`) or of `searchTokens` (`Lister`) is
where its `await` left it. The live list (`Begin`, `FetchLive`,
`FetchLiveFails`, `Vouch`), the pool search (`SearchTickers`, `ReadPools`,
`PoolsFail`, `HuntRefresh`, `PickTop`, `Confirm`, `EndHunt`) and the scan
(`Settle`, `ScanPage`, `ScanFails`, `WalkPage`) each have a cache and one
flight that later callers join; `Expire` outlives any of the caches, `Relist`
changes what the list's endpoint serves. Providers, pages and confirmations fail
freely, and a page of pools may be cut.

`ObjectBatch` is `readObjects`: `AskObjects` is its synchronous part, which
takes from the memo what another reader of the call has asked for and puts the
rest into `pending`; `Drain` is the microtask; `BatchAnswers`, `BatchFails`,
`RetryFails` what becomes of the request; `ReadLatest` the second read of what
the checkpoint lacks; `FinishReader` the loop over the answers.

`PriceReads` is `cached` over `readPriceJson`. A circuit's state is an object
that a failure replaces and a success changes in place, and each read holds on
to the one it began with (`held`); so which of two reads ends first matters.
`BeginRead`, `SkipRead`, `ReadSucceeds`, `ReadFails`, `ExpireEntry` are the
stretches between awaits.

## Runs

| Run | Instance | What it shows |
|---|---|---|
| `WatchSafety` | one address, two calls, pages of one or two, up to two transactions in each of two checkpoints, crashes | types, `NoGap`, `SnapshotsSound`, `PagesComplete`, `CursorNeverRegresses`, and that the watch implements `WatchFeed` |
| `WatchLive` | one address, one call, three checkpoints, floors, failing reads | `EventuallyAnswered` |
| `WatchLegacy` | a row under an older spelling beside the canonical row | `NoGap` fails: `deltas` is keyed by address, cursors by row |
| `Transport` | three requests, two slots, one start per window, two attempts, one GraphQL retry, aborts | types, `SlotsExact`, `NoIdleSlot`, `RateKept`, `AbortedSendNothing`, and no deadlock |
| `TransportLive` | two GraphQL requests on one slot and a price request | `EveryRequestEnds` |
| `FlowSafety` | every history of four transactions between four addresses, two branches of the start, any read failing | types, `NodeBalance`, `ShareConserved`, `TracedWithinMoved`, `NothingLeavesBeforeItArrives`, `UnspentIsHeld`, `PartialSaid`, and that every walk ends (`Finishes`) |
| `FlowHeld` | the same | `HoldingIsHeld` fails: a node reports as held what a search cut at its limit did not see leave |
| `Store` | two servers of two builds, three starts, one address on two networks, one finding | types, `LabelsKept`, `RemovedIsGone`, `FanoutOwn`, `OpenIsCurrent` |
| `Trace` | histories of four transactions, two of them in one checkpoint, between two wallets, an object, a hub and an exchange; three hops, two pages of one row a search | types, `HopsLinked`, `HopsOneWay`, `EndIsTrue`, `DeadEndIsRead` |
| `TraceBlind` | the same, one page of two rows | `UnspentIsTrue` fails: a candidate whose debit was cut off is counted as not moving the coin |
| `TraceOrder` | the same, one page of two rows | `NextMoveIsLater` fails: a transaction before the arrival, in its checkpoint, is followed |
| `Lookups` | an asker and a lister over two coins; three readers of two calls on two networks, sharing objects; two price calls of three reads each with a cache of one | `NotFoundMeansRead`, `OneMeansOne`, `LiveIsListed`; `AnswerIsOwn`, `FailureIsOwn`, `FailureIsForgotten`; `SkipIsEarned`, `CircuitStaysOpen`, `GoodEntryStays` |

### Bounds

Every bound is a CONSTANT. For the watch: `MaxHead` checkpoints, `Burst`
transactions of an address in one checkpoint, `Caps` page sizes, `BatchSize`
rows in a query, `Call` calls. Two calls are enough for every pair of handlers
to overlap, and a page of one or two out of up to four transactions in two
checkpoints gives every case of `safeAdvance`: empty, whole, cut in the middle
of a checkpoint, cut at its end, cut inside a single one. `WatchLive` uses a page
larger than any checkpoint's share (`Caps` above `Burst`), because a stalled
address does stay where it is until the client raises the cap, which is what the
tool tells it. The runs poll one row or two
in one batch each; that batches of one poll read different heads, for any number
of rows, is covered by the proof of `NoGap`. For the transport: three requests over two slots leave one
waiting whatever the others do, and a window of one start in two ticks leaves
another waiting for its turn. Calls are interchangeable, so the safety runs use
symmetry; the liveness runs do not.

`Overlap` is FALSE in every run: with TRUE the client may remove a watch while
an add of it is in flight, and then the insert brings back a row whose starting
cursor is older than the removal and a poll still holding the removed row
advances it. The proofs make the same assumption where they need it.

For the flow: two branches of three and two units, and amounts of one to three
with a shared checkpoint among them, give merges of a lighter and a heavier
arrival, partial spends, drained transactions, cycles
and a trunk (over half of the value) beside a branch. `ScanCap` two,
`MovesPerNode` one and `MovesPerTrunk` two cut searches by page and by number of
moves. `MaxDepth`, `MaxNodes`, `MaxTxReads`, `MinShare` and `ExpansionsPerNode` are each
reached.

For the store: three starts let two servers overlap and one of them die and come
back, or a third start follow two deaths, which is every pair of
half-finished migrations. One owner has labels on two networks and a bare key;
the migrations treat rows alike. For the trace: a search
reads two candidates and is cut where there are three, in two pages of one
(`Trace`) or in one page of two (`TraceBlind`, `TraceOrder`);
four transactions with the second and third in one checkpoint give a search that finds its own hop, one that finds what came before it, and a
cycle; `MaxCalls` is one because calls share only stored rows, and `OtherRead`
leaves any one of those first. For the lookups: pages one and three against
`MaxScanPages` two make a scan that ends and one that is cut, `MaxCandidates` one
against two coins cuts the confirmation, `MaxRelists` and `MaxExpiries` one
change the list once and outlive one cache; three readers, two of one call, give
a shared memo, a shared batch and two networks in one tick; three reads of a call
with `BreakAfter` two open a circuit with one read still on its way.

Deadlock checking is off where the system, or its bounded environment, really
stops: the flow when nothing is queued, the watch when the bounded chain does,
the store when no start is left, the trace and the lookups when every call has
ended. It is on for the transport.

### Fairness

`Watch`: the client keeps polling (strong fairness of `BeginPoll`: other calls
may occupy the slot in between), reads and writes may fail any number of times
but not for ever (strong fairness of each batch and of a finish whose writes
succeed), and what is synchronous or already answered completes (weak fairness).
Nothing is assumed of the chain, of adds or of removals. `Transport`: timers fire
and promises resume (weak fairness of each request's next step and of the clock);
a fetch settles because each runs under `AbortSignal.timeout`. Aborts and new
requests are not fair. `Flow`: `run()` awaits one expansion after the other (weak
fairness of the next step); nothing is assumed of which reads fail. `Store`,
`Trace` and the lookups state no fairness and no liveness.

## Proofs

`WatchProofs` proves, for any sets of addresses, rows, calls and caps and any
values of the bounds, with crashes and overlapping removes allowed:

- `TypeCorrect`: `Spec => []TypeOK`.
- `CursorMonotone`: `Spec => CursorNeverRegresses`.

Both rest on `TypeInv`, which adds to the types what they need to be inductive:
`Bounded` (cursors, captured cursors and an add's checkpoint never exceed the
head, and a row's cursor never falls below its start) and `PagesVisible` (a page
holds indices of transactions the service has served). Without them the new
cursor, a maximum over checkpoints read from the chain, has no type. There is one
lemma per action and `NextTypeInv` collects them.

`WatchGapProofs` proves three invariants and a refinement, under two assumptions that are stated in each theorem: `OneSpelling` (every row is keyed
by the canonical spelling; `WatchLegacy` shows what happens otherwise) and
`~Overlap` (no watch is removed while an add is in flight).

- `NothingSkipped`: `Spec => []NoGap`.
- `SnapshotsStaySound`: `Spec => []SnapshotsSound`.
- `PagesStayComplete`: `Spec => []PagesComplete`.
- `WatchIsFeed`: `Spec => ImplementsFeed`.

`NoGap` is not inductive: a finishing poll writes a cursor from what it read
several awaits ago. `IndInv` says why that is safe. Chains are sorted by checkpoint
(`Sorted`), so a page cut by count is cut in checkpoint order and is complete below
its last checkpoint (`PagesComplete`; lemmas `PageClosed`, `PageIsComplete`,
`FetchedComplete`); `safeAdvance` never goes past that (`TargetComplete`); and all
transactions up to the captured cursor were answered and still are, even if the row
was removed and added again at a newer checkpoint (`SnapshotsSound`). The three
together are `MovedCovered`: what a poll moves over is in its page or was answered.
A frame lemma for each conjunct (`GapFrame`, `SnapshotFrame`, `PagesFrame`) carries
it over the steps that move no cursor. `WatchIsFeed` adds one fact, `Served`
(nothing is answered that the service has not served), and maps each action to a
step of the feed: a finishing poll and a crash to `Serve`, the chain to `Publish`,
everything else a call does to a stutter.

`TransportProofs` proves all five safety properties of `Transport`, and the safety half
of `EveryRequestEnds`, for any requests, slot counts, attempts, retries, rate and
window:

- `SlotsAreExact` (`Spec => []SlotsExact`) and `NoSlotIdles` (`Spec => []NoIdleSlot`),
  by `SlotInv`, which is what `release()` relies on: the waiters of a limiter are
  distinct requests that are in its queue and nowhere else (`LinedUp`), the holders
  are finite, and `inUse` counts exactly them.
- `TransportTypeCorrect` (`Spec => []TypeOK`), by `CountInv`: the counters of the two
  nested loops are bounded only because a request that goes back to try again has a
  try left of the loop it is in, and that depends on where it waits.
- `AbortedAreSilent` (`Spec => AbortedSendNothing`), by the same: the places from
  which a request can be sent are those where it has looked at its signal.
- `RateIsKept` (`Spec => []RateKept`). The window counts starts, and the promise is
  about fetches. A request that gives up in line has a start and no fetch, so
  `Matched` counts from the end: the latest fetch is no younger than the latest
  start, the one before it than the one before, and so on; what is within the window
  of the fetches is then within the window of the starts. The theorem has the
  hypothesis `RateLimit > 0 => Json = {}`: requests of `retryingJson` have no window
  (`PRICE_TRANSPORT` states none, and their hosts are their own), so an endpoint
  that has one serves none of them. The instance `Transport` is such an endpoint.
- `RequestsGoOn`: `Work` of a request is the tries it has used of both loops and how
  far it is in this one (`Rank`). It is a natural with a bound that depends only on
  the constants, and grows whenever the request moves, by its own step or because a
  slot is handed to it; a retry of the outer loop resets the inner counter and still
  adds to it.
- `SleepersAreHeard`: whoever is queued is in the line of its limiter (`Asleep`), a
  limiter with a line has all its slots taken, and there is at least one; so it waits
  for a request that holds a slot, which is never itself queued.

`FlowProofs` proves all seven invariants of `Flow`, and the safety half of `Finishes`, for any finite sets of addresses and
transactions, any histories, starts, labels and limits, and any failures of reads:

- `FlowTypeCorrect`: `Spec => [](TypeOK /\ Placed)`. Amounts are naturals, so this
  says that no leg takes more than its transaction or its expansion has left.
- `FlowNodeBalance`: `Spec => []NodeBalance`. Inductive with the types; `EndedSum`
  says what one entry adds to a node's ends, `ConnectBalance` and `EndJobBalance`
  that reaching a node and ending a job move an amount and change no total.
- `FlowTraced`: `Spec => []TracedWithinMoved`.
- `FlowFollowsTime`: `Spec => []NothingLeavesBeforeItArrives`, by `ArrivalInv`: a job's
  checkpoint is not before all of its arrivals, even once jobs have merged, and
  the legs of a search are not before its job.
- `FlowUnspentIsHeld`: `Spec => []UnspentIsHeld`, by `SearchedInv`: a search that read
  everything leaves only its legs with value (`ExhaustedSearch`), and while some of
  the arrival is unaccounted for, each leg taken is drained. It is about the ledger
  (`held`); the amount a node reports (`unspent`) has no such theorem, since the
  property fails for it (`FlowHeld`).

- `FlowShareConserved`: `Spec => []ShareConserved`. The property sums the branches
  not yet followed, the queue, the expansion in hand and the ledger over all
  addresses; a step changes one or two places of each (`Sums`), by amounts that
  cancel. Merging a job into a queued one and ending what a limit refuses are the
  cases that could lose some.
- `FlowPartialSaid`: `Spec => []PartialSaid`. `LegsWorth` makes it inductive: every
  leg of a search has value left, and those before it take less than what is still
  to allocate, so each leg takes something. Without it a leg that takes nothing
  could end in a failed read, and set `truncated` for no value.
- `FlowShortens`: `Remaining` is a natural and every step lowers it. It is the
  expansions the addresses have left, each worth `PerExpansion` (two legs' worth for
  every transaction, and two); two for each branch not yet followed and each leg in
  hand; one for each queued job and for an expansion in hand. Taking a leg may queue
  a job, so a leg is worth two. `Bounded` is what makes it a natural: no address is
  expanded past its limit, whatever arrives there later.
- `FlowGoesOn`: with something queued and nothing in hand, `Picked` has a job. It is
  chosen by amount and depth, amount first once the node limit is short (`Heaviest`); either is a
  choice from a finite set that is not empty (`MostOf`, `LeastOf`).

`StoreProofs` proves all five invariants of `Store`, for any servers, builds,
owners, findings and number of starts. `Passed` says, for each place a server may
be in, what the steps behind it guarantee of the file, whoever else works on it:
every migration only ever moves the file towards the shape the code reads, so
`StoreTypeCorrect` and `StoreOpenIsCurrent` follow with it. `StoreKeepsLabels` and
`StoreForgetsLabels` are inductive together with it (`RefileKeepsLabels`: the
transaction qualifies each row and loses none); the second is about accounts that
are not `missed`, and both about files that were not `raced`. `StoreFanoutOwn` needs `CacheOwn`:
past the cache's test a server is not newer than the stamp, rows are of the
stamp's method, and where a server has dropped the table and not yet stamped it, a
row that is there is another server's, which stamped it in between.

`TraceProofs` proves all five invariants of `Trace`, for any histories, parties, rows
and limits:

- `TraceGoesOneWay` (`[]HopsOneWay`), by `Ordered`: the transaction at hand is the last
  step once it was read, and until then is none of the steps and lies beyond them all.
- `TraceTypeCorrect` (`[]TraceTypeOK`), by `TraceInv`, which adds `Underway`: how many
  steps there are at each place of the loop, and that a search is for a party.
- `TraceStaysLinked` (`[]HopsLinked`), by `LinkInv`: the transaction to be fetched is
  linked to the last step, forward it is one the holder sent, and a search is for
  whom the last step paid, or took from.
- `TraceDeadEndIsRead` (`[]DeadEndIsRead`) and `TraceEndIsTrue` (`[]EndIsTrue`), by
  `Honest`, which says of a call that goes on that it has claimed nothing yet. A dead
  end is reached from a hop only, and by `Ordered` the transaction of a hop is the
  last one read (`HopIsRead`, `DeadEndHonest`). That an "unspent"
  is true is shown from the search: the candidates on all its pages are every
  transaction beyond the hop that touched the address, and a row that was cut is
  recorded in `blind`.

`LookupProofs` proves the nine properties of the lookups.

- `ReadersFailAlone` and `FailedReadsAreForgotten` of `ObjectBatch`, for any readers,
  calls and objects, by `Answerable` (a read fails only by a request of its own, and
  then leaves the memo) and `Batched` (what is pending and on its way are entries of
  readers).
- `AnswersAreOwn` (`[]AnswerIsOwn`), by `OwnInv`. `OnePlace`: a reader waits in one
  place, for exactly the keys it asked for. `MemoLeads`: the memo and what a reader
  awaits lead to reads of the same call that have the object. `Progress` and `Gotten`:
  what was read is its reader's own, at the checkpoint or marked as current. The cut
  of a shared answer is `SliceIs`: an entry's part begins after the keys of those
  before it (`FlatIs`, on the concatenation of all keys).
- `SkipsAreEarned` and `CircuitsStayOpen` of `PriceReads`, for any calls, keys and
  bounds, by `CircuitInv`: no object counts more failures than its call had, and the
  object that a read on its way holds is not an open one, so no success can close a
  circuit.
- `GoodEntriesStay` (`GoodEntryStays`, an action property), by `CacheInv`: reads have
  distinct ids, all of them begun, and none on its way is an entry that is already
  good. So a read that fails late finds its own entry or none (`DeletedIs`).
- `NotFoundIsRead`, `OneIsOne` and `LiveStaysListed` of `CoinSearch`, for any coins,
  pages and callers, by `CoinInv`: what each layer holds, from a search or scan in
  flight to what is cached to what a caller has in hand, is everything its providers
  have, unless it says what it lacks. Each layer inherits that from the one below
  (`HuntSound`, `TickersSound`, `WalkSound`, `TokensSound`, `AskSound`).

### Data in the proofs

The library's induction theorems take an operator as a parameter and cannot be
used here. `Sums` takes a least counterexample instead, which `WFMin` gives for a
set of sets ordered by inclusion (`LeastSet`) and so for naturals (`LeastNat`). With
that the library's `SumFunctionOnSet`, a fold over a set, is shown to exist, to be
an integer, and to change as its function changes at one place (`SumChanges`), as an
element leaves (`SumTaking`) and as a row shifts (`SumShift`). `FlatIs` treats the
concatenation of a sequence of sequences in the same way.

Filters and prefix sums of the code are written for this: `Lacking` places a key by
how many of the lacking ones come before it, `Slice` sums lengths, `Deleted` removes
at a place, `Younger` is the suffix from the first start that is young enough.

### What the constants are assumed to be

Each module states it in one ASSUME. Beyond types and bounds above zero:

- `Trace`: transactions are numbered in the order of the chain, so checkpoints do not
  decrease; objects sign nothing, so no transaction goes from one object to another;
  a swap whose proceeds its owner keeps is from the owner to the owner.
- `Flow`: finitely many addresses and transactions; the branches of the start add up
  to the total: their shares are the weights of `objectOriginWeights`, each a part of
  one sum divided by that sum.
- `CoinSearch`: finitely many coins. `ObjectBatch`: a reader asks for a sequence of
  distinct objects.
- `Transport`: nothing more; `RateIsKept` has the hypothesis above. `Watch`: nothing
  more; `OneSpelling` and `~Overlap` are hypotheses of the theorems that need them.

### Only model-checked

Liveness: `EventuallyAnswered`, `EveryRequestEnds` and `Finishes`, which is out of the
prover's reach. Of the last two, the theorems above leave only what needs fairness and
ENABLED: that a request or a walk that can take a step does. Every invariant and
action property of a passing run is also a theorem. The four runs that expect a violation are, of course, TLC's alone.

## Findings

- Two rows that spell one address share a page but not a cursor
  (`utils/watch-probe.ts:78`); see `WatchLegacy`.
- A node of the flow graph reports as held what arrived there when the search for
  its spends stopped at the page limit (`utils/flow-engine.ts:844`), though the ledger
  says "budget" of the same value and the address may have sent it on; the rest of an
  arrival is treated the other way (`utils/flow-engine.ts:963`). See `FlowHeld`.
- A forward trace counts a candidate whose balance changes could not be read to the
  end among those that did not move the coin, and says of the address that it "has not
  spent them yet" (`utils/trace-read.ts:677`, `757-760`). The candidate is marked
  (`utils/trace-read.ts:461`), but the mark is only read where the flow engine has
  conversions open (`utils/flow-engine.ts:1058`). See `TraceBlind`.
- A forward trace may follow a transaction of the same checkpoint that came before
  the value arrived (`utils/trace-read.ts:678`); see `TraceOrder`.

### Without a run

Met while modelling, and left in the models as they are in the code. The properties
that would fail name the case they exclude, or are not stated.

- `stalled` is also said of a cut page that holds exactly one whole checkpoint
  (`utils/watch.ts:210`), and `cursor_not_advanced` also names rows an overlapping
  poll has advanced (`tools/watch.ts:266`).
- A forward walk that stops exactly at its move limit, having read everything, calls
  the rest "budget" and the graph truncated (`utils/flow-engine.ts:960`); the
  backward walk tests in the other order.
- Two servers that open a legacy store at once may both decide to file the labels
  (`utils/store.ts:353-364`); the second then moves to mainnet what was filed under
  another network in between. The window is one statement.
- An older build writes measurements under a newer build's stamp, which are then
  read as the newer method's (`utils/store.ts:646`).
- `manage_labels` remove answers "No session label for that address" when the row is
  stored but not in the session (`tools/labels.ts:230-238`), whether or not the
  stored row was deleted.
- `fetchLive` returns before it clears when the endpoint lists nothing beyond the
  checked-in list, so coins withdrawn from it stay vouched for
  (`utils/coin-registry.ts:197`).
- `retryingJson` makes a limiter per request (`clients/graphql.ts:170`), so the
  `concurrency: 4` of the price transport (`utils/price-providers.ts:46`) bounds
  nothing.
- A row that could not be read to its end is stored (`utils/trace-read.ts:290`). It
  keeps its truncation flags and every hop on it reports them (`tools/trace.ts:745-747`),
  so nothing is passed off as whole; but it is never read again, where a second read
  would be whole. The comment at `utils/trace-read.ts:222` has a hit "always correct".
- With the store off, `manage_labels` remove answers "Session label removed."
  (`tools/labels.ts:230-237` warns only where a store is on), and a row stored by an
  earlier start is seeded again when the store is back: the accounts in `missed`.
- A batch is sent on the network of the reader that queued it, with the keys of all
  readers of that tick (`utils/valuers/common.ts:187`).
- A failure of a read that began before a circuit opened puts a lower count in the
  context and closes it again (`utils/price-providers.ts:64`).
- A candidate page that throws ends `trace_funds` with an error and no hops, where a
  hop that cannot be read keeps those before it (`utils/trace-read.ts:438`).
- Backward, "No earlier transaction paid" may be said where a cut row hid an inflow, as "has not
  spent them yet" forward (`TraceBlind`); `EndIsTrue` excludes calls that met one.

## Not modelled

- Of the flow engine: several payees of one transaction, the backward walk, objects.
- Of tracing: tracked objects, kept claims, conversions, the ranking of recipients.
- Of the coin registry: lookalike flags, scans from a cursor, search by name.
- The toolset and its profiles only add tools and notify; the per-call pipeline, the
  clients and the recorded reads have no state that two calls race on.
- Funding, clustering, attack and capability analysis, packages, bridges, valuers,
  NFT and launch tools, screening, reports: one call's reads folded into an answer.
  They are most of the code by size, and what can go wrong in them is the shape of
  data, which the repository's fixtures check; a model of them would repeat it.

## Plan

1. Variants for `Trace` and `Watch`, like `Remaining` and `Work`: what a walk, and a
   poll that catches up, use up with each page.
2. An abstract ledger that `Flow` implements, and an abstract lookup for `CoinSearch`.
3. The backward walk of the flow engine, several payees of one transaction.
4. Tracked objects in `Trace`; `Toolset`.
