---------------------------- MODULE CexDexInventory ----------------------------
(***************************************************************************)
(* The cexdex desk: what it believes it holds, what it decides to trade and *)
(* what the wallet really holds.                                            *)
(*                                                                          *)
(*   inventory    src/src/cexdex/inventory.rs, shared atomics               *)
(*   detector     src/src/cexdex/detector.rs, check_all and try_route       *)
(*   simulator    src/src/cexdex/simulator.rs                               *)
(*   the loop     src/src/bin/cexdex.rs, run_detector_loop, one thread      *)
(*   refreshes    src/src/bin/cexdex.rs, a periodic task and one task per   *)
(*                dispatch, each of two requests and two stores             *)
(*   prices       src/src/feed/binance.rs into src/src/feed/price_store.rs  *)
(*   chain        external: at most one bundle of a dispatch lands, as      *)
(*                module CexDexFanout shows, and pays its minimum or more   *)
(*                                                                          *)
(* Amounts are in units of lamports and of USDC atoms coarse enough to      *)
(* check; a price is a number of USDC units per unit of SOL, and what the   *)
(* code computes in f64 is an exact fraction, rounded down where the code   *)
(* converts to u64.  Ages are abstracted: a price gets stale and a cooldown *)
(* ends at any time.                                                        *)
(***************************************************************************)
EXTENDS Integers, Sequences, FiniteSets, FiniteSetsExt

CONSTANTS Reserves,      \* [pool -> contents it may have, [sol, usdc]]
          Books,         \* [bid, ask] that Binance may send
          StartSol, StartUsdc,
          HardCap, PreferredLow, PreferredHigh, \* fractions <<num, den>>
          SkewedMultiplier,
          MinSpreadBps, MaxTradeSol, MinTradeSol,
          PoolShare,     \* 100: a trade is at most that part of a side of the pool
          MaxPosition,   \* max_position_fraction, a fraction
          Slippage,      \* slippage_tolerance, a fraction
          MinProfitUsd,
          TipFractions,  \* [relay -> num], over TipDen
          TipDen,
          MinTip,        \* 1_000 lamports
          TxFee,
          Rent,          \* what a token account of the wallet costs to open
          MaxDispatches, \* bound: bundles dispatched
          MaxRefreshes,  \* bound: refreshes after a dispatch under way together
          MaxFaults      \* bound: requests of a refresh that fail

ASSUME DeskAssumption ==
  /\ {StartSol, StartUsdc, MinSpreadBps, MaxTradeSol, MinTradeSol, MinProfitUsd,
      MinTip, TxFee, Rent, MaxDispatches, MaxRefreshes, MaxFaults} \subseteq Nat
  /\ {PoolShare, TipDen, SkewedMultiplier} \subseteq Nat \ {0}
  /\ \A f \in {HardCap, PreferredLow, PreferredHigh, MaxPosition, Slippage} :
       f \in Nat \X (Nat \ {0}) /\ f[1] <= f[2]
  /\ DOMAIN TipFractions # {} /\ \A r \in DOMAIN TipFractions : TipFractions[r] \in 1..TipDen
  /\ \A p \in DOMAIN Reserves : Reserves[p] \subseteq [sol : Nat, usdc : Nat]
  /\ \A b \in Books : b.bid \in Nat \ {0} /\ b.ask \in Nat \ {0}

Pools      == DOMAIN Reserves
Directions == {"BuyOnDex", "SellOnDex"}
Currencies == {"sol", "usdc"}

\* What a trade spends: USDC to buy SOL on the DEX, SOL to sell it.
Spends(dir) == IF dir = "BuyOnDex" THEN "usdc" ELSE "sol"
Gets(dir)   == IF dir = "BuyOnDex" THEN "sol" ELSE "usdc"

NoBook  == [bid |-> 0, ask |-> 0]
NoRoute == [dir |-> "none"]

VARIABLES cex,       \* the snapshot in the PriceStore, or NoBook
          fresh,     \* it is younger than cex_staleness_ms
          pool,      \* the cached reserves
          onChain,   \* Inventory::{sol,usdc}_on_chain
          reserved,  \* Inventory::{sol,usdc}_reserved
          price,     \* Inventory::sol_price_usd, twice the mid
          hot,       \* (pool, direction) dispatched within dedup_window_ms
          hotGlobal, \* anything dispatched within global_submit_cooldown_ms
          route,     \* what check_all returned to the loop, or NoRoute
          sent,      \* the dispatches so far, with what became of them
          fetch,     \* the refresh tasks: 0 is the periodic one
          faults,    \* failed requests so far
          wallet,    \* the wallet on chain
          accounts,  \* its token accounts there, of USDC and of wrapped SOL
          open,      \* history: inputs of the dispatches that may still land
          paid,      \* history: inputs of the dispatches that landed
          costs      \* history: tips and fees the wallet has paid

marketVars == <<cex, fresh, pool>>
invVars    == <<onChain, reserved, price>>
loopVars   == <<hot, hotGlobal, route>>
fetchVars  == <<fetch, faults>>
chainVars  == <<wallet, accounts, open, paid, costs>>
vars       == <<marketVars, invVars, loopVars, sent, fetchVars, chainVars>>

Lesser(x, y) == IF y < x THEN y ELSE x

-----------------------------------------------------------------------------
(* Inventory.                                                               *)

Available(cur) == IF onChain[cur] > reserved[cur] THEN onChain[cur] - reserved[cur] ELSE 0

\* ratio(), with the price about to be set.
Ratio(p) ==
  LET sol == onChain["sol"] * p
      all == sol + 2 * onChain["usdc"]
  IN  IF p = 0 \/ all = 0 THEN <<1, 2>> ELSE <<sol, all>>

Below(f, g) == f[1] * g[2] < g[1] * f[2]

AllowsDirection(dir, p) ==
  IF dir = "BuyOnDex" THEN Below(Ratio(p), HardCap)
                      ELSE Below(<<HardCap[2] - HardCap[1], HardCap[2]>>, Ratio(p))

ProfitMultiplier(dir, p) ==
  IF IF dir = "BuyOnDex" THEN Below(PreferredHigh, Ratio(p)) ELSE Below(Ratio(p), PreferredLow)
  THEN SkewedMultiplier ELSE 1

-----------------------------------------------------------------------------
(* Detector::try_route.                                                     *)

\* get_output_amount_with_cache of a constant-product pool (module DexQuotes).
PoolPays(q, dir, in) ==
  IF dir = "BuyOnDex" THEN (q.sol * in) \div (q.usdc + in) ELSE (q.usdc * in) \div (q.sol + in)

\* How far the pool is on the profitable side of the CEX, times the reserve of
\* SOL; and spread_bps of that, rounded to nearest.
Reference(dir, b) == IF dir = "BuyOnDex" THEN b.bid ELSE b.ask

Divergence(q, dir, b) ==
  IF dir = "BuyOnDex" THEN b.bid * q.sol - q.usdc ELSE q.usdc - b.ask * q.sol

SpreadBps(q, dir, b) ==
  LET ref == Reference(dir, b) * q.sol
  IN  (20000 * Divergence(q, dir, b) + ref) \div (2 * ref)

\* The size of a trade, in what it spends: what is available, but at most the
\* largest trade, a share of the pool's smaller side and a share of the portfolio.
Portfolio(ref) == Available("sol") * ref + Available("usdc")

TradeInput(q, dir, b) ==
  LET ref   == Reference(dir, b)
      unit  == IF dir = "BuyOnDex" THEN 1 ELSE ref      \* USDC per unit of what it spends
      side  == Lesser(q.usdc, q.sol * ref) \div (PoolShare * unit)
      share == (Portfolio(ref) * MaxPosition[1]) \div (MaxPosition[2] * unit)
      most  == IF dir = "BuyOnDex" THEN MaxTradeSol * ref ELSE MaxTradeSol
  IN  Lesser(Lesser(Lesser(Available(Spends(dir)), most), side), share)

\* A trade is worth making if it is not negligible: MinTradeSol in SOL.
Negligible(in, dir, b) ==
  in < (IF dir = "BuyOnDex" THEN MinTradeSol * b.bid ELSE MinTradeSol)

GrossUsd(dir, in, out, b) ==
  IF dir = "BuyOnDex" THEN out * b.bid - in ELSE out - in * b.ask

\* Profits after the slippage discount are in USDC units times Slippage[2].
Discounted(gross) == gross * (Slippage[2] - Slippage[1])

TryRoute(p, dir, b) ==
  LET q   == pool[p]
      in  == TradeInput(q, dir, b)
      out == PoolPays(q, dir, in)
  IN  IF \/ q.sol = 0 \/ q.usdc = 0
         \/ Divergence(q, dir, b) <= 0
         \/ SpreadBps(q, dir, b) < MinSpreadBps
         \/ Negligible(in, dir, b)
         \/ out = 0
         \/ Discounted(GrossUsd(dir, in, out, b)) <= 0
      THEN NoRoute
      ELSE [dir |-> dir, pool |-> p, in |-> in,
            profit |-> Discounted(GrossUsd(dir, in, out, b))]

\* What check_all may return: the routes that pass every gate and profit most.
CheckAll(b, p) ==
  LET found == {TryRoute(x[1], x[2], b) : x \in
                  {y \in Pools \X Directions : y \notin hot /\ AllowsDirection(y[2], p)}}
      good  == {r \in found \ {NoRoute} :
                  r.profit >= MinProfitUsd * ProfitMultiplier(r.dir, p) * Slippage[2]}
  IN  IF hotGlobal \/ ~fresh \/ b = NoBook THEN {}
      ELSE {r \in good : \A other \in good : other.profit <= r.profit}

-----------------------------------------------------------------------------
(* CexDexSimulator::simulate.                                               *)

\* Mutated form: the least of the relays' tip fractions.
MinTipFraction == Min({TipFractions[r] : r \in DOMAIN TipFractions})

\* The simulator is configured with the largest tip fraction of any relay.
MaxTipFraction == Max({TipFractions[r] : r \in DOMAIN TipFractions})

\* Twice the worst-case net profit, in USDC units times Slippage[2] and TipDen.
WorstNet(adjusted, b) ==
  2 * adjusted * (TipDen - MaxTipFraction) - TxFee * (b.bid + b.ask) * Slippage[2] * TipDen

MinFinalOutput(dir, in, b) ==
  LET kept == Slippage[2] - Slippage[1]
  IN  IF dir = "BuyOnDex" THEN (in * kept) \div (b.ask * Slippage[2])
                          ELSE (in * b.bid * kept) \div Slippage[2]

\* max(adjusted_profit_sol * tip_fraction, 1_000), of the loop
TipFor(r, adjusted, b) ==
  LET share == (2 * adjusted * TipFractions[r]) \div (Slippage[2] * (b.bid + b.ask) * TipDen)
  IN  IF share > MinTip THEN share ELSE MinTip

\* The pool is read again, and the CEX price whatever its age.
Simulate(r) ==
  LET out      == PoolPays(pool[r.pool], r.dir, r.in)
      gross    == GrossUsd(r.dir, r.in, out, cex)
      adjusted == Discounted(gross)
  IN  [ok    |-> /\ out > 0
                 /\ gross > 0
                 /\ WorstNet(adjusted, cex) > 0
                 /\ WorstNet(adjusted, cex) >= 2 * MinProfitUsd * Slippage[2] * TipDen,
       out    |-> out,
       profit |-> adjusted,
       min    |-> MinFinalOutput(r.dir, r.in, cex)]

-----------------------------------------------------------------------------
Idle == [at |-> "idle", got |-> [cur \in Currencies |-> 0]]

Init ==
  /\ cex = NoBook /\ fresh = FALSE
  /\ pool \in {f \in [Pools -> UNION {Reserves[p] : p \in Pools}] : \A p \in Pools : f[p] \in Reserves[p]}
  /\ wallet = [cur \in Currencies |-> IF cur = "sol" THEN StartSol ELSE StartUsdc]
  /\ accounts \in SUBSET Currencies
  /\ StartUsdc > 0 => "usdc" \in accounts
  /\ open = [cur \in Currencies |-> 0] /\ paid = open /\ costs = 0
  /\ onChain = wallet
  /\ reserved = [cur \in Currencies |-> 0]
  /\ price = 0
  /\ hot = {} /\ hotGlobal = FALSE
  /\ route = NoRoute
  /\ sent = <<>>
  /\ fetch = [f \in 0..MaxRefreshes |-> Idle]
  /\ faults = 0

\* The bound on dispatches: after the last one, prices and cooldowns change
\* nothing that matters.
Trading == Len(sent) < MaxDispatches

(* The market. *)

\* Mutated form: every book is taken.
AcceptsAll(b) == TRUE

\* parse_book_ticker refuses an inverted book.
Accepts(b) == b.bid <= b.ask

BookTicker(b) ==
  /\ Trading
  /\ IF Accepts(b) THEN cex' = b /\ fresh' = TRUE ELSE UNCHANGED <<cex, fresh>>
  /\ UNCHANGED <<pool, invVars, loopVars, sent, fetchVars, chainVars>>

\* No message for cex_staleness_ms: a quiet or a broken connection.
PriceAges ==
  /\ Trading
  /\ fresh /\ fresh' = FALSE
  /\ UNCHANGED <<cex, pool, invVars, loopVars, sent, fetchVars, chainVars>>

PoolMoves(p) ==
  /\ Trading
  /\ \E q \in Reserves[p] \ {pool[p]} : pool' = [pool EXCEPT ![p] = q]
  /\ UNCHANGED <<cex, fresh, invVars, loopVars, sent, fetchVars, chainVars>>

(* The loop. *)

Mid2 == cex.bid + cex.ask

\* An iteration that finds nothing still passes the price on, as the updater of
\* the P&L gauges does every second.
PassPrice ==
  /\ Trading
  /\ route = NoRoute
  /\ cex # NoBook
  /\ price # Mid2
  /\ price' = Mid2
  /\ UNCHANGED <<marketVars, onChain, reserved, loopVars, sent, fetchVars, chainVars>>

Detect ==
  /\ Trading
  /\ route = NoRoute
  /\ cex # NoBook
  /\ route' \in CheckAll(cex, Mid2)
  /\ price' = Mid2
  /\ UNCHANGED <<marketVars, onChain, reserved, hot, hotGlobal, sent, fetchVars, chainVars>>

\* The simulator rejects the route, or no nonce is free.
GiveUp ==
  /\ route # NoRoute
  /\ route' = NoRoute
  /\ UNCHANGED <<marketVars, invVars, hot, hotGlobal, sent, fetchVars, chainVars>>

\* reserve, the dispatch to every relay, mark_dispatched, and a refresh to come.
Dispatch ==
  /\ route # NoRoute
  /\ Trading
  /\ LET s == Simulate(route)
     IN  /\ s.ok
         /\ sent' = Append(sent, [dir |-> route.dir, in |-> route.in, out |-> s.out,
                                  min |-> s.min, profit |-> s.profit, at |-> cex,
                                  tip |-> [r \in DOMAIN TipFractions |->
                                             TipFor(r, s.profit, cex)],
                                  state |-> "live"])
  /\ reserved' = [reserved EXCEPT ![Spends(route.dir)] = @ + route.in]
  /\ hot' = hot \cup {<<route.pool, route.dir>>}
  /\ hotGlobal' = TRUE
  /\ \E f \in 1..MaxRefreshes :
       /\ fetch[f].at = "idle"
       /\ fetch' = [fetch EXCEPT ![f].at = "sol"]
  /\ route' = NoRoute
  /\ open' = [open EXCEPT ![Spends(route.dir)] = @ + route.in]
  /\ UNCHANGED <<marketVars, onChain, price, faults, wallet, accounts, paid, costs>>

WindowEnds(x) ==
  /\ Trading
  /\ x \in hot
  /\ hot' = hot \ {x}
  /\ UNCHANGED <<marketVars, invVars, hotGlobal, route, sent, fetchVars, chainVars>>

CooldownEnds ==
  /\ Trading
  /\ hotGlobal /\ hotGlobal' = FALSE
  /\ UNCHANGED <<marketVars, invVars, hot, route, sent, fetchVars, chainVars>>

(* The refresh of the balances: fetch_initial_balances, then set_on_chain. *)

\* The periodic task ticks.
StartFetch ==
  /\ fetch[0].at = "idle"
  /\ fetch' = [fetch EXCEPT ![0].at = "sol"]
  /\ UNCHANGED <<marketVars, invVars, loopVars, sent, faults, chainVars>>

Asks(f) == fetch[f].at \in Currencies
NextStep(cur) == IF cur = "sol" THEN "usdc" ELSE "storeSol"

\* The request under way returns n.
Reads(f, n) ==
  LET cur == fetch[f].at
  IN  fetch' = [fetch EXCEPT ![f] = [at |-> NextStep(cur), got |-> [@.got EXCEPT ![cur] = n]]]

Answered(f) ==
  /\ Asks(f)
  /\ Reads(f, wallet[fetch[f].at])
  /\ UNCHANGED <<marketVars, invVars, loopVars, sent, faults, chainVars>>

\* An error in the answer's body counts as a balance of zero.
AnsweredZero(f) ==
  /\ Asks(f)
  /\ faults < MaxFaults
  /\ faults' = faults + 1
  /\ Reads(f, 0)
  /\ UNCHANGED <<marketVars, invVars, loopVars, sent, chainVars>>

\* Mutated form: a failed request ends the periodic task.
FetchFailsForGood(f) ==
  /\ Asks(f)
  /\ faults < MaxFaults
  /\ faults' = faults + 1
  /\ fetch' = [fetch EXCEPT ![f] = [Idle EXCEPT !.at = "ended"]]
  /\ UNCHANGED <<marketVars, invVars, loopVars, sent, chainVars>>

\* A failed request ends this refresh; nothing is stored.
FetchFails(f) ==
  /\ Asks(f)
  /\ faults < MaxFaults
  /\ faults' = faults + 1
  /\ fetch' = [fetch EXCEPT ![f] = Idle]
  /\ UNCHANGED <<marketVars, invVars, loopVars, sent, chainVars>>

\* set_on_chain stores one balance after the other.
StoreSol(f) ==
  /\ fetch[f].at = "storeSol"
  /\ onChain' = [onChain EXCEPT !["sol"] = fetch[f].got["sol"]]
  /\ fetch' = [fetch EXCEPT ![f] = [at |-> "storeUsdc", got |-> [@.got EXCEPT !["sol"] = 0]]]
  /\ UNCHANGED <<marketVars, reserved, price, loopVars, sent, faults, chainVars>>

StoreUsdc(f) ==
  /\ fetch[f].at = "storeUsdc"
  /\ onChain' = [onChain EXCEPT !["usdc"] = fetch[f].got["usdc"]]
  /\ fetch' = [fetch EXCEPT ![f] = Idle]
  /\ UNCHANGED <<marketVars, reserved, price, loopVars, sent, faults, chainVars>>

(* The chain. *)

\* The rent that lies in token accounts.
RentOf(S) == Rent * Cardinality(S)

\* A purchase ends in wrapped SOL and closes that account; a sale leaves it open.
LeftOpen(dir) == IF dir = "BuyOnDex" THEN Currencies \ {"sol"} ELSE Currencies

\* What a bundle takes out of the SOL of the wallet before its swap: the fee, the
\* rent of the accounts it has to open and the SOL it wraps to sell it.
Advanced(order) ==
  TxFee + RentOf(Currencies \ accounts) + (IF order.dir = "SellOnDex" THEN order.in ELSE 0)

\* The bundle of relay r lands and pays its minimum, the least that may land.
Landing(i, r) ==
  /\ sent[i].state = "live"
  /\ sent' = [sent EXCEPT ![i].state = "landed"]
  /\ LET spent  == Spends(sent[i].dir)
         got    == Gets(sent[i].dir)
         cost   == sent[i].tip[r] + TxFee
         traded == [wallet EXCEPT ![spent] = @ - sent[i].in, ![got] = @ + sent[i].min]
         sol    == traded["sol"] - cost + RentOf(accounts) - RentOf(LeftOpen(sent[i].dir))
     IN  /\ sent[i].in \in 0..wallet[spent]
         /\ cost \in Nat
         /\ Advanced(sent[i]) <= wallet["sol"]
         /\ sol >= 0
         /\ wallet' = [traded EXCEPT !["sol"] = sol]
         /\ accounts' = LeftOpen(sent[i].dir)
         /\ open' = [open EXCEPT ![spent] = @ - sent[i].in]
         /\ paid' = [paid EXCEPT ![spent] = @ + sent[i].in]
         /\ costs' = costs + cost
  /\ UNCHANGED <<marketVars, onChain, price, loopVars, fetchVars>>

\* Mutated form: the landing returns the reservation, as Inventory::release would.
LandsReleasing(i, r) ==
  /\ Landing(i, r)
  /\ reserved' = [reserved EXCEPT ![Spends(sent[i].dir)] = @ - sent[i].in]

Lands(i, r) == Landing(i, r) /\ UNCHANGED reserved

\* No bundle of the dispatch can land any more.
Dies(i) ==
  /\ sent[i].state = "live"
  /\ sent' = [sent EXCEPT ![i].state = "dead"]
  /\ open' = [open EXCEPT ![Spends(sent[i].dir)] = @ - sent[i].in]
  /\ UNCHANGED <<marketVars, invVars, loopVars, fetchVars, wallet, accounts, paid, costs>>

Refresh(f) == Answered(f) \/ AnsweredZero(f) \/ FetchFails(f) \/ StoreSol(f) \/ StoreUsdc(f)

Next ==
  \/ \E b \in Books : BookTicker(b)
  \/ PriceAges \/ PassPrice \/ Detect \/ GiveUp \/ Dispatch \/ CooldownEnds \/ StartFetch
  \/ \E p \in Pools : PoolMoves(p)
  \/ \E x \in Pools \X Directions : WindowEnds(x)
  \/ \E f \in 0..MaxRefreshes : Refresh(f)
  \/ \E i \in 1..Len(sent) : Dies(i) \/ \E r \in DOMAIN TipFractions : Lands(i, r)

\* A bundle lands or its nonce or blockhash expires; the timer of the refresh and
\* the executor run every task that is ready.  Nothing is assumed of the market.
Fairness ==
  /\ WF_vars(StartFetch)
  /\ \A f \in 0..MaxRefreshes : WF_vars(Refresh(f))
  /\ \A i \in 1..MaxDispatches : WF_vars(i \in 1..Len(sent) /\ Dies(i))

Spec     == Init /\ [][Next]_vars
FairSpec == Spec /\ Fairness

-----------------------------------------------------------------------------
TypeOK ==
  /\ onChain \in [Currencies -> Nat] /\ reserved \in [Currencies -> Nat]
  /\ wallet \in [Currencies -> Nat] /\ accounts \subseteq Currencies /\ costs \in Nat
  /\ fetch \in [0..MaxRefreshes -> [at : {"idle", "sol", "usdc", "storeSol", "storeUsdc"},
                                     got : [Currencies -> Nat]]]

\* The desk never commits more than the wallet holds: the inputs of the dispatches
\* that may still land are covered, up to tips and fees already paid in SOL and the
\* rent that lies in token accounts, which a sale takes and leaves there.  It
\* sizes trades from balances that are old, torn between two requests, stored one
\* half after the other, or written by a refresh that a newer one has overtaken;
\* what makes this safe is that reservations are never returned (inventory.rs,
\* reserve; cexdex.rs, the two refreshes).
CoversOutstanding ==
  /\ open["usdc"] <= wallet["usdc"]
  /\ open["sol"] <= wallet["sol"] + costs + RentOf(accounts)

\* Every bundle can land at the price that approved it: the minimum output it
\* carries, computed from the far side of the book, is at most what the pool
\* quoted (simulator.rs, step 8).
FloorReachable == \A i \in DOMAIN sent : sent[i].min <= sent[i].out

\* Whichever relay lands the bundle, the discounted profit that approved it pays
\* that relay's tip and the fee: the relays' fractions, the floor under a tip and
\* the simulator's worst case agree.  MinProfitUsd is worth the least tip.
\* (simulator.rs, step 6; cexdex.rs, the tip of each relay)
TipsPaidFromProfit ==
  \A i \in DOMAIN sent, r \in DOMAIN TipFractions :
    2 * sent[i].profit >
      (sent[i].tip[r] + TxFee) * (sent[i].at.bid + sent[i].at.ask) * Slippage[2]

\* Once nothing lands any more the inventory comes to hold what the wallet holds,
\* although refreshes fail, answer zero or finish in the wrong order.  (cexdex.rs,
\* the periodic refresher)
BalancesCatchUp == <>[](onChain = wallet)
=============================================================================
