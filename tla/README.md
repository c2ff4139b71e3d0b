# Verification of EngineMev

TLA+ models of the EngineMev repository, checked with TLC on small instances, and
proofs of their main theorems, checked with TLAPS for every value of the constants.
Paths below are relative to the repository; `src/src/...` in `PROJECT.json` is the
crate's `src/...`.

    tlc -workers 2 -config fanout_safety.cfg MCCexDexFanout.tla   # a run
    tlapm CexDexFanoutProofs.tla                                  # a proof module

## 1. The system

EngineMev consists of an arbitrage engine (`src/main.rs`), a CEX-DEX arbitrage
engine (`src/bin/cexdex.rs`), a market maker (`src/bin/manifest_mm.rs`) and an
on-chain guard program (`programs/arb-guard`). Both engines keep a cache of DEX
pools that a Geyser stream writes, compute trades from it, and send each trade as a
bundle to several relays at once.

| Component | State | Operations | Interacts with | What makes it correct |
|---|---|---|---|---|
| Durable-nonce pool, `cexdex/nonce.rs` | per nonce, behind a DashMap entry: `last_used`, `in_flight`, `cached_hash` | `checkout`, `mark_settled`, `update_cached_hash` | detector loop, trackers, Geyser task, all concurrently | a usable free nonce is never passed over; rotation; no leak and no early release |
| Detector loop and fan-out, `bin/cexdex.rs` | current opportunity, `settled_once` per opportunity | check, check out, build, reserve, dispatch per relay, mark dispatched | nonce pool, relays, trackers, inventory, blockhash cache | one fill and one booking per opportunity |
| Relay dispatcher and relays, `executor/relay_dispatcher.rs`, `executor/relays/*` | rate limit stamps | `dispatch`, `dispatch_single`, `submit` | trackers (channel), chain | an outcome of one relay does not disturb another's |
| Confirmation tracker, `executor/confirmation.rs` | ids, deadline, error count | collect, poll, `on_landed`, `on_settle` | relay tasks, RPC, nonce pool, P&L | calls back exactly once, in time, on every path |
| Geyser stream, nonce accounts, `mempool/stream.rs`, `cexdex/geyser.rs` | subscription, last slot | deliver, reconnect with replay | nonce pool | the cached hash follows the chain |
| Geyser stream, pool accounts, `mempool/stream.rs` | fetch throttles, markers of what was fetched | parse, upsert, five kinds of fetch tasks | pool cache, RPC, change channel | the cache ends up with what the chain holds |
| Pool cache, `state/cache.rs` | pools, index per mint, index per pair, mint programs, bin and tick arrays | `upsert`, `get`, `get_any`, `evict_stale`, lookups | stream, router, Sanctum | a cached pool can be found; nothing stale is served |
| Router loop, `main.rs` | per-slot and per-arb dedup, counters | receive, find routes, submit | cache, calculator, blockhash, dispatcher | no change is missed unnoticed, no arbitrage is sent too often in its window |
| Calculator, simulator, DEX quoting, `router/*` | none (pure) | find routes, size, quote, validate | cache | a quote promises no more than the pool's prices pay; what is accepted is worth it in the pools as they were read |
| Blockhash and tip floor, `state/blockhash.rs`, `state/tip_floor.rs` | last value and its age | refresh, get | router, detector | a stale value is not used; the task recovers and stops |
| Inventory, detector gates, simulator, `cexdex/{inventory,detector,simulator}.rs` | on-chain balances, reservations, realized P&L, cooldowns | `set_on_chain`, `reserve`, gates, `simulate` | detector loop, balance refreshes | no more is committed than the wallet holds; floors and tips can be met |
| arb-guard program, `programs/arb-guard/src/lib.rs` | guard account | `start_check`, `profit_check`, `execute_arb`, `execute_arb_v2` | the bundle's other instructions | a transaction that loses money does not commit |
| Bundle builder, swaps, `executor/{bundle,swaps}` | none | order the instructions, set amounts, floors, offsets, accounts | cache of mint programs, relays | the transaction spends what it earned, and the guard measures where it is paid |
| Sanctum virtual pools, `sanctum.rs` | rates in the cache | refresh | cache | rates replace the older ones |
| Binance feed, `feed/*` | one price and its time | reconnect, update | detector | a stale price is not traded on; a dead connection is replaced |
| Market maker, `mm/*`, `bin/manifest_mm.rs` | book, quotes | quote, cancel | Manifest book | no crossed or doubled quotes |
| Parsers, tools, configuration, metrics | none | decoding, reporting | | data layout, I/O |

**How they run.** All tasks are tokio tasks of one process that share maps with a
lock per entry (DashMap) or per shard. There is no ordering between tasks other than
channels; a multi-step operation on a map is therefore interleaved with the others.
Nothing is persisted: a restart begins with an empty cache and a fresh nonce pool
(on-chain state, nonces included, survives).

**What is hard to test.** Interleavings of trackers of different opportunities that
share a nonce; relays that land, answer late, or answer twice for one opportunity;
stream updates against RPC reads started earlier; a stream that replays on
reconnection; waits and retries that race with a landing; balances read while
bundles that spend them are in flight; a guard that is locked across transactions;
amounts that are rewritten on chain at a byte offset. `PROJECT.json` lists the
hazards one by one, each at its line, with the properties that cover it.

## 2. Modules

| Module | Models | Kind |
|---|---|---|
| `NoncePool` | `cexdex/nonce.rs`: the pool and the steps of its operations | component |
| `NonceCheckout`, `MCNonceCheckout` | the pool with a checkout running against settlements and refreshes | specification, instance |
| `CexDexFanout`, `MCCexDexFanout` | detector loop, nonce pool (by EXTENDS), relays, trackers, Geyser stream and chain together | composition, instance |
| `FillLedger` | what the fan-out promises about an opportunity | abstract specification |
| `ConfirmationTracker` | one tracker with its clock | component |
| `TrackerContract` | what a tracker promises its caller | abstract specification |
| `PoolIndex`, `MCPoolIndex` | `state/cache.rs`: the pool map and its indices, `upsert` against `evict_stale` lock by lock | component, instance |
| `PoolFeed` | `mempool/stream.rs`: the life of one pool from stream updates and fetch tasks | component |
| `BundleBuilder` | `executor/bundle.rs`, `executor/swaps/*`, the tip of `relays/common.rs`: a route as the instructions of a transaction | operators |
| `GuardedBundle`, `MCGuardedBundle` | arb-guard executing what `BundleBuilder` makes, and what is made by hand | composition, instance |
| `DexQuotes` | `router/dex/*`, `router/pool.rs`: what the engine believes a pool pays | operators |
| `RouteSearch`, `MCRouteSearch` | `router/calculator.rs` and `router/simulator.rs` on a changing cache, with the quotes | composition, instance |
| `EngineRouter`, `MCEngineRouter` | `main.rs`: the change channel and the router loop | component, instance |
| `FeedLink` | the reconnecting loop that `feed/binance.rs` and `state/tip_floor.rs` share | component |
| `EngineFeeds` | `state/blockhash.rs` with two instances of `FeedLink`, and the shutdown | composition |
| `CexDexInventory`, `MCCexDexInventory` | `cexdex/{inventory,detector,simulator}.rs`, the balance refreshes, the wallet | composition, instance |
| `CexDexFanoutProofs` | theorems about `NonceCheckout` and `CexDexFanout`, which share the pool | proofs |
| `EngineProofs` | theorems about `EngineRouter` and `EngineFeeds` | proofs |
| `ConfirmationTrackerProofs`, `PoolIndexProofs`, `PoolFeedProofs`, `GuardedBundleProofs`, `RouteSearchProofs`, `CexDexInventoryProofs` | theorems about the module of that name | proofs |

Specifications that a module of theorems has together have names of their own
(`CheckoutSpec`, `FeedsSpec`); the others are called `Spec`.

### NoncePool and NonceCheckout

`pool[n]` is the `NonceState` of the n-th configured nonce (`hash_observed_at` and
the gauges are metrics and left out). Hashes are version numbers and `Instant`s a
logical clock, which is all the code compares.

`NoncePool::checkout` is not atomic: it reads the entries in order, each under its
own lock, and writes the winner in a second access. `ScanEntry` is one iteration
(`scan.best` holds the values read, not the entry), `TakeWinner` and `NoWinner` the
end. `checkout` is called by the detector loop only, so there is one `scan`. Between
its steps `SettleNonce` (`mark_settled`) and `Refresh` (`update_cached_hash`) may run.

`WinnerIsBest` restates the selection policy for an observer who sees the whole
pool: with respect to every nonce that nobody touched during the checkout, the
winner is a free one if there was one, and the oldest of its class. `RoundRobin` is
the same as a property of the step that takes it.

### CexDexFanout

One opportunity `o` is a number; `cur` counts them. The detector's steps are
`Detect` (an approved opportunity; one given up before it has a hash leaves nothing
behind and is not modelled), `CheckoutScan`, `TakeHash` (the nonce's hash, or
without nonces a blockhash), `Reserve`, `Send(r)` once per relay
in any order (the loop runs over a HashMap), `MarkDispatched`. Between checkout and
reservation the code may still `continue` when the bundle has no profit
(`cexdex.rs:700`), which would keep the nonce; the simulator has rejected such an
opportunity before, so that path is never taken.

`bundle[o][r]` follows the bundle for relay `r`. `Land` and `LandFail` are the chain
including it: both require `NonceValid` and advance the nonce, because
`advance_nonce_account` is the first instruction of every bundle. `Expire` is
everything that drops it. `RelayRefuses` covers the ends of `submit` before the
request is accepted, `RelayAnswers` an answer with an id or without; the tracker may
be gone by then. A bundle may land before, after or without its answer.

`tracker[o][r]` follows one tracker without its clock: every timeout may fire while
its wait lasts. `Settle` is the `swap` on `settled_once`, `Release` the later
`mark_settled`: two steps, so a new checkout may come between. cexdex polls Jito's
`getBundleStatuses` for the bundles of other relays too, so a landed bundle may well
not be confirmed; `ConfirmNothing` allows that of every bundle.

`chain[n]` is the version of the nonce on chain and `delivered[n]` how far the stream
is. `Bootstrap` reads a version that may lag; `Subscribe` starts after it;
`Deliver` brings the changes in order, `Reconnect` replays old ones (the parser
looks at no slot).

Proved and checked: `OneEntryPerHash` is the argument for nonces at all: of all
bundles with one nonce and hash at most one enters the chain. `ImplementsLedger`
refines the whole to `FillLedger`. `NonceHasReleaser` says that a nonce marked in
flight has somebody who will release it, `MarkedUntilSettled` that nobody else
releases it. The latter has a condition: when all nonces are in flight, `checkout`
collides on purpose, and then the settlement of the earlier holder does clear the
mark of the later one (`overlap`); the comment "True from checkout until
mark_settled" (`nonce.rs:32`) holds without collision only. A wrong mark costs a
rejected bundle, not a double fill: `OneEntryPerHash` has no such condition.

Without nonces (`NumNonces = 0`) the bundles of one opportunity share nothing that
would exclude all but one of them, and `dispatch_single` per relay does send them to
every configured relay; `cexdex.rs:673-676` leaves it to the operator to configure
one. `ImplementsLedger` is therefore stated for at least one nonce.

### ConfirmationTracker

The task with its clock: the six-second window, the stagger, the poll
loop with its deadline, the doubled wait after an RPC error, `check_competitor` as
two calls. `Second` is the number of ticks in a second, since the code sleeps for
1000 to 2999 ms before its first poll and polls may therefore begin between whole seconds: the
theorems hold for every number, the run has two. `prompt` says whether the RPC is healthy. `Relays` with one element is
cexdex, with several the main engine, which follows all ids in one tracker.
`ImplementsContract` shows that it keeps `TrackerContract`, the steps of which are
the tracker steps of `CexDexFanout`.

`SettlesInTime` computes what no line of the code says: the longest time between
dispatch and `on_settle`, 6 + 12 + call + 6 + two calls. (The last poll starts before the
deadline, by a tick at least; the bound is therefore one that no tick size reaches and
all approach.) The HTTP client of cexdex has a timeout of 30 s, of `check_competitor` 5 s, so a nonce may be out for far
longer than `CONFIRMATION_TIMEOUT` suggests. `EarlyLandingReported` says that
stagger, interval and deadline leave no gap in which a landing is missed. It excludes
runs with a failed bundle: `check_bundle_statuses` returns at the first status that
carries an error, so with several ids one failed bundle ends the tracking of all,
while the doc of `spawn_confirmation_tracker` says that it polls "until one confirms".

### PoolIndex

`StateCache` is three DashMaps. `upsert` writes the entry of mint a, of mint b, of
the pair and last of the pool, each under a lock of its own; `evict_stale` retains
the pool map and then takes the evicted pools out of their index entries. `Keys` are
mints and pairs alike and `index` is both index maps in one, since the code treats
them alike; `KeysOf[p]` gives the entries of a pool in the order in which they are
visited. `IndexPool` and `StorePool` are the steps of `upsert`; `Retain`,
`NextVictim`, `CleanEntry`, `RemoveEntry` are those of `evict_stale`: an entry that
became empty is removed in a second access after its lock is dropped
(`cache.rs:238-240`). `Virtual` are the Sanctum pools, which exist before the tasks
start and are rewritten only if they still exist (`sanctum.rs:263`).

`FoundUnlessRaced` says what the cache promises all readers: `pools_for_token` and
`pools_for_pair` find every cached pool. It does not hold without its condition:
`raced[p]` records that an eviction ran while `p` was last written. The race hides
the pool being evicted, and also a pool that merely shares a mint with it, when it is
put into the emptied entry between the two accesses; the next update of the pool
heals it. `NoDanglingIndex` is the converse: what an index lists without being
cached is on its way in or out.

### PoolFeed

One pool and everything that writes its entry. `Arrive` is `process_update` up to
the upsert: the parsed state replaces the whole entry. `FollowUp` is the rest:
cooldown, `bitmap_checked` and array markers are set before the fetches are spawned,
and the router is told if both token programs are known. A fetch task is a record in
`tasks`: `calling`, then `writing` with the copy of the entry it read, changed by the
answer. `WriteBack` upserts the copy, whatever happened in between. Calls end in any
order, fail or find nothing. `kind` is fixed in a behaviour and chosen initially:
`raydium` (AMM v4 and CP: reserves from vaults), `pumpswap` (vaults, but the answer is
not stored), `dlmm` (bitmap extension and bin arrays), `clmm` (tick arrays). A bin or
tick array is an `Area`, the place the price stands in. A mint's program may become
known at any time, because other pools fetch it too. The semaphores that bound
concurrent fetches only delay tasks, and eviction needs ten minutes without an
update; neither is in the module.

The invariants say which of the many ways to lose data exist and that there is no
other. `LatestUnlessSpanned`: only an update between the read and the write of a
fetch task is undone. `MarkerTellsArrays`: only two fetches under way together can
leave a marker for other arrays than those cached, a failure never does.
`ReservesUnlessThrottled`: only a failed or throttled fetch leaves a Raydium pool
without reserves. `AnnouncedWithPrograms`: the router hears of a pool with both
programs known, although they come from three different places. `spanned`,
`throttled`, `vaultFailed` and `crossed` are history variables for these conditions.

### BundleBuilder and GuardedBundle

`BundleBuilder` turns a route into instructions, as `build_arb_instructions` does with
and without the guard program: create token accounts, wrap, the swaps or one
`execute_arb_v2`, unwrap, and the tip that `build_signed_bundle_tx` appends. A swap
instruction keeps its amount and minimum with the byte offsets at which its DEX reads
them, and the wallet's two token accounts, pairs of a mint and the token program it is
derived with. The pools' own accounts are data layout and left out.

`GuardedBundle` executes such transactions, and sequences an operator writes by hand
(`Call`), one instruction or hop a step; any failure is `Revert`. `StartCheck`,
`ProfitCheck`, `EnterArb(V2)`, `Hop`, `LeaveArb` are the program's handlers. `Hop` is
where client and program meet: eight bytes are written at the offset the client
recorded (`Field` says what this does to a field it hits, overlaps or misses), and the
growth of the account the client named is what the next hop spends. A DEX (`Fills`,
external) takes the amount and pays anything not below the minimum: prices move
arbitrarily between building and execution. A bundle need not run at all (`Submit`).
The runtime takes the fee of a transaction even if it fails (`Begin`), and each token account
that `Create` finds missing takes its rent out of the signer's SOL (`atas`; initially any
of `Holdings`). Only the wSOL account is closed again and gives its rent back
(`UnwrapSol`); those of intermediate mints stay open. One `Rent` stands for all accounts,
and the balance that the wallet itself must keep is not modelled. `LearnProgram` is the fetch task that fills
the cache of mint programs between two builds.

`WindowsGain` and `WindowNotRebased` are what the guard promises of a window, however
the calls are ordered and across however many transactions. `NoCommittedLoss` is why
there is a guard and a floor at all: what commits has cost no more than its tip, the fee and
the rent of the accounts it opened and left open. Neither the guard nor the floor, nor
the simulator that chose the route, takes fee or rent into account. `IntermediateUntouched` says that rewriting
amounts on chain makes a hop spend exactly what the hop before received, and holds for
the DEXes that take the whole amount and read it where the client says (`Aligned`).
`MeasuredWherePaid` says that the account whose balance the guard compares is the one
the swap pays into, although the two sides derive it from different sources; the lookup
in `build_execute_arb_v2_ix` makes the build fail otherwise.

### DexQuotes and RouteSearch

Quotes are operators: constant product, CLMM with one tick and across ticks, order
books, DLMM across bins and bin arrays, Sanctum, and the fallbacks between them. Widths
are parameters (`Q` is 2^64 in the code, u128 its square), checked operations return
`None` as in the code (for instance what a deep bin takes, `BinCapacity`, upon which the
pool is quoted as a constant product), casts truncate. The table of tick prices is a parameter that
need only increase.

`RouteSearch` has the cache of pools, changed at any moment by `Refresh`. `Search` is
`find_routes_for_base` with cycles of two pools, `SearchDeeper` with cycles of three
when the first leave room. The index maps return pools in an arbitrary order and the
search stops at a number of pools and routes, so a search returns any choice of that
size, in one step.

The simulation is not one step: `Simulate` starts it, `ReadPool` reads the next pool
(`get_any`, all pools before any quote), `QuoteHop` quotes the next hop with the ticks
and bins that are cached by then, `Conclude` decides. What it accepts may thus be made of
states that were never cached together; the code does not prevent this, and leaves it
to the guard on chain to reject such a route. Searches do not overlap a simulation: the
router runs both one after the other.

`QuotesBelowCurve` compares each quote with a reference that is no quote: what the
input pays at the pool's best price after fees (`Spot`, by whatever quotes the pool:
`QuotedBy`), and, when the ticks ahead only take liquidity away, what it would pay if
there were none. What integer rounding may add is stated as exactly as it can be proved
(`RoundingGain`). The code rounds what a step takes of the input down, and the proof of
this bound showed that a walk gains by it: one unit of the input for every tick it
reaches, `StepsGain`. An earlier form of the property allowed a price one unit off,
`liq / Q` rounded up. That is right for a range without ticks; but at a price far below
one a step may pay for less than one unit of the input, which it then takes for nothing.
No instance had such a price until the attempt to prove it asked for one: `Cheap` of
`MCRouteSearch` violates the earlier form.
`Depth` follows the liquidity behind the ticks, as the last step, where a falling price
is rounded, may have more of it than the pool's.
A curve that falls back to its reserves is measured by its price if the reserves are
those of the curve (`OnCurve`), and as the constant product it is quoted as if they were
capped.

`CpmmExact` says that a constant-product quote is the largest output that does not let
the product fall, unless one of the u128 products of the code overflows, where the code
returns no quote. Both are evaluated in the states in which nothing is under way, since
a quote depends on the cache alone, and for the first quarter of the inputs; the
theorem `EveryQuote` has neither restriction. `AcceptedHasSpread` relates search,
simulation and cache: whatever was found in an older cache, a route is accepted only if
the best prices of the pools, as the simulation itself read them, return the input, the tip
and the minimum profit, but for `RoundingGain` at each hop. That gain is 0 unless a curve
quotes, and a profit that is no more than it may be accepted: the property does not
exclude what rounding invents on a curve, and the code does not either.

`IsPoolState` is what is assumed of the contents of the cache: amounts are u64, prices of
bins u128, and the ticks of a pool have indices of their own
(`fetch_clmm_tick_arrays` computes a tick's index from the start of its array and its
place there, `stream.rs:1120`, and the arrays of a pool start apart). Nothing is assumed
of prices, liquidity, fees or what ticks add and take.

### EngineRouter

Two tasks. The stream stores a change (`Store`) and notices the router with `try_send`
(`Notice`), or does not (`PassOverUnready`). The router takes a notice (`Take`: dedup
by slot, age, little liquidity), searches (`Search`, any outcome) and submits
(`Submit`: window and count per arb, then blockhash, build and dispatch). `RouterEnds`
and `StreamEnds` are the shutdown. `ChangesSeen` lists all ways in which a change can go
unseen, `SubmissionsPerWindow` computes what the constants mean: an entry's window
starts with its first attempt, so a window that starts anywhere sees up to
`2 * MaxSubs - 1` bundles of an arb, more than `main.rs:295` says.

### FeedLink and EngineFeeds

`FeedLink` is the loop that connects, reads until close, error or silence, waits and
reconnects; with `Fallback` a failed connect asks a REST endpoint. `EngineFeeds` takes it
for the tip floor and for the price, and adds the blockhash task with a clock, since
the age of a blockhash is counted from the answer and not from the block:
`BlockhashUsable` is the sum of age limit and request. `FeedsRecover` and `FeedsStop`
are liveness: what goes stale is replaced, and the signal ends all three tasks wherever
it meets them. All types are small enumerations, so the module states no type invariant.

### CexDexInventory

What the desk believes (`onChain`, `reserved`, the cached pools, the book) against what
the wallet holds (`wallet`). `Detect` is `check_all`, the best of the routes that pass
every gate; `Dispatch` is `simulate`, the tips, `reserve` and `mark_dispatched`;
`GiveUp` a rejection. A refresh is two requests and two stores (`Answered`,
`AnsweredZero`, `FetchFails`, `StoreSol`, `StoreUsdc`), the periodic one (0) and one
after each dispatch, in any order. `Lands` and `Dies` are the chain: at most one bundle
of a dispatch lands, which is what `CexDexFanout` shows, and it pays its floor, the
least that may land. It also pays tip, fee and the rent of the token accounts it has to open
(`accounts`): a sale opens the wSOL account if there is none and leaves it open, a purchase
ends in wSOL, closes it and gets its rent back. It fails if the SOL does not suffice for
all that it advances (`Advanced`). wSOL that lies in the account beforehand is not
modelled; a purchase would add it to the wallet. `open`, `paid` and `costs` are history.

The f64 arithmetic of sizes and profits is exact here, rounded down where the code
converts to u64. Pools are constant-product pools; other kinds differ in the quote only.

`CoversOutstanding` is the property of the whole: every balance the desk trades on may
be old, torn between two requests, half stored, or overtaken, and bundles in flight may
spend it at any moment; still it never commits more than there is, up to what no
reservation accounts for: tips and fees already paid, and the rent that lies in token
accounts. That slack is used: after a sale that opened the wSOL account, a second one
sized before may have more committed than is left, and then fails. What makes it true
is that reservations are never returned, see the last divergence below.
`FloorReachable` and `TipsPaidFromProfit` relate the sides of the book and the relays'
tips to the gates of the simulator.

## 3. Runs

| Run | Instance | Shows |
|---|---|---|
| `nonce_checkout` | 3 nonces, 4 checkouts, 2 versions | selection policy and rotation against concurrent changes |
| `fanout_safety` | 1 nonce, 2 relays, 2 opportunities | safety of the fan-out with two opportunities on one nonce, refinement of `FillLedger` |
| `fanout_liveness` | 2 nonces, 2 relays, 1 opportunity, 1 external advance, 1 reconnection | everything settles; caches catch up; only a replay moves a hash back |
| `tracker` | 2 relays, ticks of half a second, calls up to 1 s | contract, longest life, no gap in the polls |
| `pool_index` | 2 pools that share a mint, one of them virtual, 2 writers | only an eviction during the write hides a pool; nothing dangles |
| `pool_feed` | each kind of pool, 2 areas, 3 updates | what fetch tasks, cooldowns and markers can and cannot lose |
| `guarded_bundle` | 3 mints (one of Token-2022), two-hop routes over 4 DEXes, amounts up to 5, 2 transactions, hand-made ones of up to 2 calls, a wallet with no token account or with all | what commits has gained, and cost no more than its tip, the fee and rent |
| `route_search` | 4 pools of 4 kinds, u64 of 8 bits, 2 changes of the cache | quotes stay below prices up to rounding; what is accepted is worth it in the pools as read, up to rounding |
| `engine_router` | 2 pools, 2 slots, a channel of one, 2 submissions in a window of 2, 4 changes, 3 modes | what goes unseen, and how often an arb is sent |
| `engine_feeds` | requests every second, of up to 2 s, age limit 2 s | ages, recovery, shutdown |
| `cexdex_inventory` | 1 pool, 2 books (one inverted), 2 relays, 2 dispatches, 1 refresh after a dispatch, 1 fault, any token accounts at the start | commitments are covered up to tips, fees and rent, floors and tips can be met, balances catch up |
| `guard_break_even` | as `guarded_bundle`, an input of 1 and two other DEXes | violated: a route that returned more than its input is refused by the guard |

The bounds: three nonces are the fewest for a winner, a better one read later and one
that changes behind the scan; four checkouts let the rotation wrap. Two opportunities
on one nonce are the fewest that collide, two relays the fewest that equivocate, and
a late tracker of the first opportunity meets the second. The version bounds follow
from the other bounds: a nonce advances no more often than somebody advances it.
With ticks of half a second polls begin at whole seconds and between them; with `MaxCall` 2
a call ends in the tick in which it began or in one of the next two. Both make every
comparison of the clock with a deadline go both ways. Two pools with a common
mint and mints of their own have both an entry that empties and one that does not;
two writers are the stream and a fetch task, and a third would only repeat the
second. Three updates allow one before, one during and one after a fetch; two areas
suffice for a marker that differs from the arrays.

Two transactions let a guard locked in the first meet the second; a hop may pay
nothing, less than estimated, enough, or more, since an amount runs from 0 to
`MaxU64`, where additions overflow; the four DEXes are one that reads its amount at
offset 8, one at offset 1, an order book and one whose accounts follow the cache of mint
programs, and the run of the guard's break-even has Manifest and PumpSwap in their
place. The pools of `route_search` include one in which a quote crosses ticks that add
and that take liquidity, one that runs out of bins and has one at which the capacity overflows, an empty DLMM pool that falls back,
and reserves at which products overflow eight bits; two changes allow one between
search and simulation and one that undoes it. Every input up to a quarter of a u64 is
quoted in both directions. Two dispatches are the fewest of which one is sized while
the other is in flight, and two sales may commit all SOL, so that `CoversOutstanding` fails
without its term for rent; one refresh per dispatch and the periodic one are the two that
overtake each other. A channel of one is full at the second notice; two submissions
per window let a window straddle two entries.

`CHECK_DEADLOCK FALSE` is set where a run stops when its bounds are used up. `pool_index`,
`route_search`, `engine_router`, `engine_feeds` and `cexdex_inventory` never stop and are
checked for deadlock.

**Fairness.** `FairSpec` of the fan-out assumes that start-up finishes, that a
dispatch once begun is finished (the loop awaits nothing that has no timeout), that
the stream delivers, and that a tracker goes on: its waits are all bounded by a
timeout. Nothing is assumed of relays or of the chain: settling must not depend on
them. The stream does stop for good if its server closes it
(`stream.rs:247-250`); the fairness of `Deliver` excludes that. The tracker's
`FairSpec` adds that time passes. In `EngineFeeds` the tasks are scheduled and their
timers fire (WF of `FeedsTick`, `AskHash`, `HashFails`, `LinkWorks`), a server that is asked
again and again answers at last (SF of `HashArrives`, `Connected`), a connection that
is made again and again delivers at last (SF of `Message`), and the select between the
signal and the timer of the blockhash task takes the signal at last (SF of
`HashStops`). `Message` assumes something away: pings also reset `WS_TIMEOUT`, so a
server that pings and never sends data is never left. In `CexDexInventory` the timer
and the refresh tasks are scheduled (WF of `StartFetch`, `Refresh`) and a bundle that
has not landed expires with its nonce or blockhash (WF of `Dies`); nothing is assumed of
the market.

## 4. Theorems

The constants are unbounded: any number of nonces, relays, opportunities, pools,
routes and changes, any durations and any integer width. The `ASSUME`s of the modules
say what is taken of them; those with content are named below. Each entry gives the
theorems and the strengthening that makes the property inductive. `SeenInv`,
`WindowInv` of `EngineProofs`, `EarlyInv` and `TxInv` were also model-checked, as
invariants of the instances that the runs use.

* `CexDexFanoutProofs` (`Relays # {}`: Jito's relay is always constructed):
  * `SelectionPolicy`, `TakenInTurn`: a nonce that nobody touched meanwhile yields to the
    best candidate (`Yields`, which a better candidate inherits), and the age the scan has
    read of its candidate is still that of the nonce (`BestAge`).
  * `TypeCorrect`, with `CheckoutBounded`.
  * `NonEquivocation`: `OneEntryPerHash` is not inductive; with `EntrySpendsHash`
    (what is on chain has spent its hash, so the chain is past it) it is.
  * `FanoutImplementsLedger`, for `NumNonces > 0`: the refinement needs that a
    landed bundle excludes every other entry of its opportunity (`OneEntryPerHash`,
    as all bundles of `o` carry `hand[o]`) and that a tracker books once
    (`BookedByLanding`).
  * `CacheMonotonic`: from `CacheBehindChain`.
  * `NoEarlyRelease`, `NoLeak`: `TrackersStarted`, `FlagBeforeRelease`,
    `OwnerIsLatest`, `NoOverlapNoHolder` and `InFlightHasOwner` tie the mark of a
    nonce to the trackers of the opportunity that took it last.
* `ConfirmationTrackerProofs`, for any granularity of the clock: `TrackerTypeCorrect`, `BoundedLife` (the invariant
  bounds `wake` and `now` phase by phase), `TrackerHonoursContract` (every step is
  one of `TrackerContract`) and `NoLandingMissed`: under a healthy RPC a sleep is no longer
  than an interval, and one that reaches the deadline follows a poll that found nothing,
  so what is not reported landed after that poll (`EarlyInv`, `LateOnly`).
* `PoolIndexProofs`, for any pools, keys and number of writers, from
  `KeysOf \in [Pools -> [1..3 -> Keys]]` alone: two pools may share all keys and the
  two mints of a pool may be the same. `IndexTypeCorrect`; `OnlyRacesHide`, where
  `RacesSeen` says that whatever an eviction is about to remove belongs to a pool that
  is gone or was written meanwhile, and `ListedOrListing` that some writer that saw no
  eviction has listed or is listing the pool; `NothingDangles`, which is inductive
  with the shape of the eviction.
* `PoolFeedProofs`, for any kinds, areas and number of updates: `FeedTypeCorrect`,
  `ProgramsFirst`, `NothingElseUndoesUpdates` (`CopiesCurrent`: all copies in tasks are
  of the last update too), `MarkerCorrect` (`MarkerInv`: there is one array fetch and
  the marker stands for it), `ReservesKept` (`ReservesInv`: a pool without reserves
  has a vault fetch under way, and no copy lacks what was found).
* `GuardedBundleProofs`, for any routes, hand-made transactions, DEX prices, fee,
  rent, initial token accounts and u64.
  Assumed of a route is what the calculator makes of one, a cycle through wSOL without
  repeated mints of at least two hops (`Cycle`; `calculator.rs:57-200`), and of wSOL
  that the SPL token program owns it and no pool names another one.
  * `ClosedWindowsGain` and `OpenWindowsKept`. The invariant says that a locked guard
    agrees with the history of its window, and says it twice: of the running state and
    of the one a failure restores. `TypeCorrect` adds that only mints' own programs are
    cached.
  * `NoLoss` and `Untouched` need the plan of the whole transaction (`TxInv`): of an
    engine's transaction that is running, the route and mint programs it was built from
    (`Plan`), that the instructions left are the last ones of that plan (`Left`), and what
    the wallet holds by then. Between instructions it is short of no more than `Owed`: the
    input while raw swaps are under way, nothing up to the tip, then the tip. Within
    `execute_arb_v2` only the token that the next hop spends has grown, by what the hop
    before received (`Inside`), which is what that hop spends if the guard finds its
    amount. The raw path closes the gap by the minimum of its last swap, the guarded one
    by the check that ends the call.
    What is compared is the wallet's SOL, wSOL and the rent of its accounts: `Create` and
    `UnwrapSol` turn one into another (`RentOpened`, `RentClosed`), for which the mints
    must be finitely many.
  * `MeasuredPaid`: the builder looks the output account of a hop up among the accounts of
    the swaps so far (`OutputPaid`). As a cycle repeats no mint, only the hop itself, or the
    first one if the mint is wSOL, can have put it there; and for wSOL every builder
    derives the same account (`WsolAccount`).
* `CexDexInventoryProofs`, for any pools, books, slippage, sizes, relays, rent and bounds:
  * `CommitmentsCovered`. `CoversOutstanding` is not inductive. `Bounded` is: with what
    the wallet would hold if it had paid nothing, costs and the rent in accounts included (`Held`, which never shrinks), every
    balance anybody has read, stored or not, is at most `Held`; so is what is reserved;
    and what is open or paid is at most reserved. A trade is sized by what is available
    (`InputBounded`), which keeps the second clause.
  * `FloorsReachable`: the floor is taken from the far side of the book, the positive
    gross profit from the near side, and the book is not inverted (`FloorBelow`, which
    is arithmetic with two products and a division in each direction).
  * `TipsAffordable`: the simulator deducts the largest relay's share of the profit, or
    the least tip, and asks for `MinProfitUsd` beyond; `PartsLeft` is the arithmetic of
    two roundings, `LargestExists` that the largest share exists. Its hypothesis
    `ProfitPaysTip`, that the least tip (1000 lamports) is worth no more than
    `MinProfitUsd`, is true of the defaults by three orders of magnitude, and the
    configuration only enforces that the profit is positive.
  * `DeskTypeCorrect`.
* `EngineProofs`, for any pools, slots, arbs, channel, window and number of changes:
  * `NothingUnseen`: `ChangesSeen` with `NoticesMatch` (a notice on its way that is of the
    cached change of its pool has its slot too, and the stream's own one is of that
    change) and `DedupMatches` (the slot the dedup remembers is the one of the last notice
    handled). It needs that "none" is the name of no pool.
  * `FewSubmissions`: `WindowOf(a)` says that while the entry of an arb counts, only the
    dispatches it has counted are as young as it is, and fewer than `MaxSubs` older ones
    are within the window; without an entry, fewer than `MaxSubs` are.
  * `FreshBlockhash`, for positive durations (`FeedsSpec`): a request
    under way is no older than the limit of a request, and a value no older than its age
    and that limit.
* `RouteSearchProofs`, for pools of any contents (`IsPoolState`, above) and integers of any
  width. The cache only ever holds contents a pool may have (`CacheInv`).
  * `ExactQuotes`: `LargestKept` is the arithmetic, that a quotient is the largest output
    that keeps the product, and `ProductFits` says that the checked operations of the code
    are the products when these fit.
  * `BelowCurve`, and `EveryQuote` without the bounds that the run needs, kind by kind
    (`QuoteBounded`). For a constant product, a book and a range without ticks it is
    arithmetic. A walk along ticks carries an invariant (`Paying`): what was paid so far
    is at most the best price of what was taken, and one `PerStep` for each step;
    `StepWorth` is the single step, in either direction, all the way to its tick or part
    of it. A falling price is rounded down where a step ends between ticks, and pays for
    that up to one unit of the price times the liquidity (`PriceGain`); such a step takes
    all that is left, so this is added once. A walk along bins (`Binned`) gains nothing: a
    bin is paid for with its capacity and fee rounded up.
  * The second half of `BelowCurve` (`ThinningBelow`) needs more than a price: a walk whose
    liquidity only falls stays below the *curve* of its first liquidity. `Held` ties the
    price that a walk has reached to the input it has taken on that curve, and `Kept`
    says of one step that it stays below (`StepUnder`). Ticks that take at most the
    liquidity there is never wrap it, since it fits an i128 (`Thinning`), so the code's
    liquidity is the true one.
  * `AcceptedSpread`: `Quoting` says of a simulation under way that each amount is the
    quote of the one before by the pool that was read, with the ticks and bins of that
    moment (`QuoteHop` replaces those of one pool only, which leaves the mints before it,
    `OtherPool`). The reference grows with the amount (`SpotGrows`), so what bounds each
    hop bounds the cycle (`CycleBelow`); `ConcludeAccepts` is the arithmetic of the decision.

  The folds of the model are where induction over data would be needed. The induction
  theorems with an operator as parameter cannot be used, but those about well-founded
  relations quantify over sets: from `NatLessThanWellFounded`, `SetInduction` says that a
  set with 0 and the successors of its members has all numbers. A fold over a sequence is
  shown to be a walk (`TicksWalked`, `DepthWalked`, `BinsWalked`, `MintsWalked`,
  `HopsWalked`): a function from the number of elements to what they come to, along which
  the invariants are carried.

Only model-checked: liveness (`EverythingSettles`, `CacheCatchesUp`, `FeedsRecover`,
`FeedsStop`, `BalancesCatchUp`, the end promised by `FairContractSpec`), as `ENABLED`,
and with it any argument from fairness, is out of the prover's reach.

## 5. Divergences

What modelling showed of the code against its own comments and documents. The first is
shown by the run `guard_break_even`; the others follow from the models but have no run
of their own.

* **Break-even on the guarded path.** The simulator sets the floor to the route's input.
  `execute_arb_v2` reads the start balance after the input has been wrapped into that
  very account and demands a gain of the floor, so a guarded route must double its
  input (`lib.rs:261`, `325-326`; `bundle_profit.rs:128` says otherwise). On the raw
  path the same floor is a minimum output and a bundle may land at break-even, still
  paying its tip, although `simulator.rs:211` says that the guard ensures no loss.
* **Bootstrap gap.** `bootstrap_nonce_pool` reads each nonce before `start_geyser`
  subscribes (`cexdex.rs:159-179`). An advance in between is in neither, and the cached
  hash stays behind, contrary to `nonce.rs:6-7`, until somebody advances the nonce
  again. `CacheCatchesUp` has it as its condition.
* **Bootstrapped pools go.** `cache.rs:208-210` says they "remain valid ... until Geyser
  updates arrive". `evict_stale` drops a Sanctum virtual pool after 600 s without an
  update, `update_virtual_pool` (`sanctum.rs:263`) only rewrites, and nothing repeats the
  bootstrap.
* **Throttled reserves.** Each update of a Raydium pool stores reserves of 0 and, within
  two seconds of the last fetch, starts no new one (`stream.rs:501-505`); the pool is
  without reserves until a later update, contrary to `DEX-REFERENCE.md:452`.
* **PumpSwap reserves.** Fetched (`parsers/pumpswap.rs:50`), never stored
  (`stream.rs:830-837`): no PumpSwap pool is ever quoted.
* **Bitmap extension.** "Once checked, never re-check" (`stream.rs:84-85`), but the next
  update replaces the entry that carried the answer; routes that need the extension
  are skipped from then on.
* **Reservations.** `inventory.rs:1` promises a "reservation lifecycle"; neither `commit`
  nor `release` is ever called. Availability shrinks with every dispatch until no trade
  is large enough. It is also all that keeps the desk from spending a balance twice:
  with a release at landing `CoversOutstanding` is violated.

Smaller ones. *Builder:* the comment at `bundle.rs:482-489` gives offset 8 to every DEX
but Raydium AMM; Manifest reads its amount at 1, Phoenix at 11, Sanctum at 19, a PumpSwap
purchase at 16. A Phoenix minimum is in base lots whichever side is bought, so a raw
sale has no floor. A PumpSwap purchase in a hop with a floor of 0 asks for 0 tokens. The
rule on token programs at `bundle.rs:217-220` is followed by the DLMM builder only.
Later hops of the raw path spend estimates. The fall-through at `bundle.rs:75-76` never
happens. *Quotes:* a CLMM or DLMM quote that fails falls back to the constant product,
for DLMM on synthetic reserves, where comments say "None"; a step towards a tick rounds
what it takes down (`mod.rs:70`), so a quote promises for up to one unit of the input
per tick that it does not count. *Inventory:* an RPC error in
the body of an answer counts as a balance of 0; `on_landed` books the estimate although
the bundle may have landed at its floor; `_tip_floor_cache` is passed to the loop and
never read (`cexdex.rs:494`). *Router:* attempts count although the blockhash is missing
or the build fails; the key of an arb is its token path in order, not "sorted"
(`main.rs:294`); a pool that has expired in the channel still marks its slot as handled;
when the stream ends by itself the router ends too, but the process waits for Ctrl-C.

## 6. Not modelled

* **Parsers, operator tools, configuration, statistics, metrics, RPC helpers.** Fixed
  offsets, one-shot command lines, constants and counters: no control worth a model.
* **Manifest market maker.** A scaffold: the loop quotes and logs, live mode is not
  implemented, so there is no state on a book to be right about. Its price loop is
  `FeedLink`. (When live mode comes, stale quotes will rest: the staleness gate skips
  the cancellations too.)
* **Encodings of relays**, keep-alives, tip accounts; **account lists of swaps** beyond
  the wallet's own accounts; **Sanctum rates**.
* **Restart.** Nothing is persisted; a restart is an initial state.

## 7. Plan

Done: nonce pool, fan-out, tracker; pool cache and feed; inventory; guard and builder;
router, search and quotes; feeds; a theorem for every safety property the runs check.
Left: the composition of `PoolFeed` with `PoolIndex` for one evicted pool.
