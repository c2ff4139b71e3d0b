------------------------------ MODULE RouteSearch ------------------------------
(***************************************************************************)
(* From a change of a pool to a decision: RouteCalculator looks for cycles  *)
(* of two or three pools through wSOL (src/src/router/calculator.rs) and    *)
(* ProfitSimulator validates one of them (src/src/router/simulator.rs)      *)
(* against the cache, which the Geyser stream keeps changing in between.    *)
(*                                                                          *)
(* The index maps of the cache return pools in an arbitrary order, and the  *)
(* search stops at a number of pools and of routes, so what it returns is   *)
(* any choice of that size among what it could find.  The simulation reads   *)
(* the cache in steps: all pools first, then hop by hop their ticks and     *)
(* bins.  Its f64 products are exact fractions rounded down.                *)
(***************************************************************************)
EXTENDS DexQuotes, FiniteSetsExt

CONSTANTS Contents,         \* [pool -> contents it may have in the cache]
          Wsol,             \* the base mint
          MaxHops,          \* BotConfig::max_hops
          EarlyExit,        \* EARLY_EXIT_ROUTES, 5
          MaxPoolsPerToken, \* 20
          ReserveShare,     \* 100: the first input is that part of the reserves
          MinInput,         \* 10_000: and at least this
          TestAmount,       \* 1_000_000: the input of a cycle of three pools
          Slippage,         \* slippage tolerance, a fraction <<num, den>>
          TipFraction,      \* tip_fraction, a fraction <<num, den>>
          MinTip,           \* min_tip_lamports
          MinProfit,        \* min_profit_lamports
          MaxSaneProfit,    \* 10 SOL
          Floors,           \* tip floors the cache of floors may answer, or None
          MaxChanges        \* bound: changes of the cache

\* What the parsers and the caches store of a pool.
BinStates == [x : 0..MaxU64, y : 0..MaxU64, price : 0..(U128 - 1)]

IsPoolState(s) ==
  /\ {"dex", "mintA", "mintB", "fee", "a", "b", "bid", "ask", "tick", "price", "liq",
      "ticks", "bins"} = DOMAIN s
  /\ {s.a, s.b} \subseteq 0..MaxU64
  /\ {s.fee, s.price, s.liq} \subseteq Nat /\ {s.bid, s.ask} \subseteq Nat \cup {None}
  /\ IsFiniteSet(s.ticks)
  /\ \A t \in s.ticks : {t.index, t.net} \subseteq Int
  /\ \A t, u \in s.ticks : t.index = u.index => t = u
  /\ \A i \in DOMAIN s.bins : s.bins[i] \in Seq(BinStates)

ASSUME SearchAssumption ==
  /\ {MaxHops, EarlyExit, MaxPoolsPerToken, ReserveShare, MinInput, TestAmount}
       \subseteq Nat \ {0}
  /\ {MinTip, MinProfit, MaxSaneProfit, MaxChanges} \subseteq Nat
  /\ Floors \subseteq Nat \cup {None}
  /\ \A f \in {Slippage, TipFraction} : f[1] \in 0..f[2] /\ f[2] \in Nat \ {0}
  /\ \A p \in DOMAIN Contents : \A s \in Contents[p] : IsPoolState(s)

Pools == DOMAIN Contents

VARIABLES cache,    \* [pool -> its PoolState]
          floor,    \* the dynamic tip floor
          routes,   \* what the last search returned
          sim,      \* the simulation under way, or NoSimulation
          verdict,  \* what the last simulation said
          quoted,   \* history: the pools as that simulation read them
          changes   \* changes of the cache so far

vars == <<cache, floor, routes, sim, verdict, quoted, changes>>

-----------------------------------------------------------------------------
(* Pools and cycles.                                                        *)

OtherToken(pool, mint) == IF pool.mintA = mint THEN pool.mintB ELSE pool.mintA

PoolsForToken(mint) == {p \in Pools : mint \in {cache[p].mintA, cache[p].mintB}}
PoolsForPair(x, y)  == PoolsForToken(x) \cap PoolsForToken(y)

\* At most n members of S, the caller cannot tell which.
AnyOf(S, n) == kSubset(Least(n, Cardinality(S)), S)

\* The reserve of wSOL, whatever the pool's kind.
BaseReserve(p) == IF cache[p].mintA = Wsol THEN cache[p].a ELSE cache[p].b

\* calculate_optimal_input
OptimalInput(p, q) ==
  LET share == Least(BaseReserve(p), BaseReserve(q)) \div ReserveShare
  IN  IF share > MinInput THEN share ELSE MinInput

Pay(pool, mint, in) == Quote(pool, in, pool.mintA = mint)

\* The amounts along a path from wSOL: the input, then what each hop pays.  An
\* empty or a failed hop ends the cycle.
Amounts(c, path, input) ==
  FoldLeft(LAMBDA w, p :
             [mint |-> OtherToken(c[p], w.mint),
              outs |-> Append(w.outs, IF Last(w.outs) \in {None, 0} THEN None
                                      ELSE Pay(c[p], w.mint, Last(w.outs)))],
           [mint |-> Wsol, outs |-> <<input>>], path).outs

AsI64(x) == IF x > MaxU64 \div 2 THEN x - Q ELSE x

\* The routes that look profitable, of those along the paths with an input.
Profitable(input) ==
  LET route(path) == [path |-> path, input |-> input[path],
                      outs |-> Amounts(cache, path, input[path])]
  IN  {r \in {route(path) : path \in DOMAIN input} :
         /\ Last(r.outs) # None
         /\ AsI64(Last(r.outs) - r.input) > 0}

TwoHopPaths(near) ==
  UNION {{<<p, q>> : q \in PoolsForPair(Wsol, OtherToken(cache[p], Wsol)) \ {p}} : p \in near}

TwoHopInputs(near) == [path \in TwoHopPaths(near) |-> OptimalInput(path[1], path[2])]

\* mids[m] : the pools of mint m the search looks at.
ThreeHopPaths(near, mids) ==
  {path \in near \X Pools \X Pools :
     LET first  == OtherToken(cache[path[1]], Wsol)
         second == OtherToken(cache[path[2]], first)
     IN  /\ path[2] \in mids[first] \ {path[1]}
         /\ second # Wsol
         /\ path[3] \in PoolsForPair(second, Wsol) \ {path[1], path[2]}}

-----------------------------------------------------------------------------
(* ProfitSimulator::simulate.                                               *)

Rejected == [accepted |-> FALSE]
NoSimulation == [route |-> Rejected]

EffectiveMinTip == IF floor > MinTip THEN floor ELSE MinTip

Portion(x, f) == (x * f[1]) \div f[2]

\* What a fresh quote of the route comes to, from the amounts along it.
Decide(route, outs) ==
  LET gross    == Last(outs) - route.input
      adjusted == Portion(gross, <<Slippage[2] - Slippage[1], Slippage[2]>>)
      share    == Portion(adjusted, TipFraction)
      tip      == IF share > EffectiveMinTip THEN share ELSE EffectiveMinTip
  IN  IF \/ \E i \in DOMAIN outs : outs[i] \in {None, 0}
         \/ gross <= 0
         \/ gross > MaxSaneProfit
         \/ tip >= adjusted
         \/ adjusted - tip < MinProfit
      THEN Rejected
      ELSE [accepted |-> TRUE, path |-> route.path, input |-> route.input, outs |-> outs,
            tip |-> tip, minOut |-> route.input]

\* Mutated form: the estimates of the search are trusted.
ValidateEstimates(s) == Decide(s.route, s.route.outs)

Validate(s) == Decide(s.route, s.outs)

-----------------------------------------------------------------------------
Init ==
  /\ cache \in {c \in [Pools -> UNION {Contents[p] : p \in Pools}] :
                  \A p \in Pools : c[p] \in Contents[p]}
  /\ floor \in Floors
  /\ routes = {}
  /\ sim = NoSimulation
  /\ verdict = Rejected
  /\ quoted = <<>>
  /\ changes = 0

\* find_routes_for_base
Search ==
  \E near \in AnyOf(PoolsForToken(Wsol), MaxPoolsPerToken) :
  \E two \in AnyOf(Profitable(TwoHopInputs(near)), EarlyExit) :
     /\ routes' = two
     /\ MaxHops < 3 \/ Cardinality(two) = EarlyExit
  /\ sim = NoSimulation
  /\ UNCHANGED <<cache, floor, sim, verdict, quoted, changes>>

\* The same when the cycles of two pools leave room for cycles of three.
SearchDeeper ==
  /\ MaxHops >= 3
  /\ \E near, near3 \in AnyOf(PoolsForToken(Wsol), MaxPoolsPerToken) :
     \E mids \in [{OtherToken(cache[p], Wsol) : p \in near3} -> SUBSET Pools] :
       /\ \A m \in DOMAIN mids : mids[m] \in AnyOf(PoolsForToken(m), MaxPoolsPerToken)
       /\ \E two \in AnyOf(Profitable(TwoHopInputs(near)), EarlyExit) :
            /\ Cardinality(two) < EarlyExit
            /\ \E three \in AnyOf(Profitable([path \in ThreeHopPaths(near3, mids) |-> TestAmount]),
                                  EarlyExit - Cardinality(two)) :
                 routes' = two \cup three
  /\ sim = NoSimulation
  /\ UNCHANGED <<cache, floor, sim, verdict, quoted, changes>>

\* The stream replaces what the cache holds of a pool.
Refresh(p) ==
  /\ changes < MaxChanges
  /\ changes' = changes + 1
  /\ \E s \in Contents[p] \ {cache[p]} : cache' = [cache EXCEPT ![p] = s]
  /\ UNCHANGED <<floor, routes, sim, verdict, quoted>>

FloorMoves ==
  /\ changes < MaxChanges
  /\ changes' = changes + 1
  /\ floor' \in Floors \ {floor}
  /\ UNCHANGED <<cache, routes, sim, verdict, quoted>>

\* Whoever asked for the last verdict has acted on it.
Simulate ==
  /\ sim = NoSimulation
  /\ \E route \in routes :
       /\ sim' = [route |-> route, read |-> <<>>, outs |-> <<route.input>>]
       /\ routes' = routes \ {route}
  /\ verdict' = Rejected
  /\ quoted' = <<>>
  /\ UNCHANGED <<cache, floor, changes>>

\* The path that the simulation has still to read.
Ahead == SubSeq(sim.route.path, Len(sim.read) + 1, Len(sim.route.path))

ReadPool ==
  /\ sim # NoSimulation /\ Ahead # <<>>
  /\ sim' = [sim EXCEPT !.read = Append(@, cache[Head(Ahead)])]
  /\ UNCHANGED <<cache, floor, routes, verdict, quoted, changes>>

\* A hop is quoted with the ticks and bins that are cached by now.
QuoteHop ==
  /\ sim # NoSimulation /\ Ahead = <<>>
  /\ Len(sim.outs) <= Len(sim.read)
  /\ LET i    == Len(sim.outs)
         p    == sim.route.path[i]
         mint == FoldLeft(LAMBDA m, pool : OtherToken(pool, m), Wsol, SubSeq(sim.read, 1, i - 1))
         pool == [sim.read[i] EXCEPT !.ticks = cache[p].ticks, !.bins = cache[p].bins]
         out  == Pay(pool, mint, Last(sim.outs))
     IN  sim' = IF out \in {None, 0} THEN NoSimulation
                ELSE [sim EXCEPT !.outs = Append(@, out), !.read[i] = pool]
  /\ UNCHANGED <<cache, floor, routes, verdict, quoted, changes>>

Conclude ==
  /\ sim # NoSimulation /\ Len(sim.outs) > Len(sim.route.path)
  /\ verdict' = Validate(sim)
  /\ quoted' = sim.read
  /\ sim' = NoSimulation
  /\ UNCHANGED <<cache, floor, routes, changes>>

Next ==
  \/ Search \/ SearchDeeper
  \/ Simulate \/ ReadPool \/ QuoteHop \/ Conclude
  \/ FloorMoves \/ \E p \in Pools : Refresh(p)

Spec == Init /\ [][Next]_vars

-----------------------------------------------------------------------------
(* The reference: what a trade pays when it moves no price at all, at the    *)
(* pool's best price, the fee deducted.  No curve, book or ladder of bins    *)
(* pays more.                                                                *)

SpotCpmm(pool, in, ab) ==
  IF ab THEN (in * (Bps - pool.fee) * pool.b) \div (pool.a * Bps)
        ELSE (in * (Bps - pool.fee) * pool.a) \div (pool.b * Bps)

SpotClmm(pool, in, ab) ==
  IF ab THEN (in * (Bps - pool.fee) * pool.price * pool.price) \div (Bps * Q * Q)
        ELSE (in * (Bps - pool.fee) * Q * Q) \div (Bps * pool.price * pool.price)

SpotBook(pool, in, ab, one) ==
  IF ab THEN (in * (Bps - pool.fee) * pool.bid) \div (Bps * one)
        ELSE (in * (Bps - pool.fee) * one) \div (Bps * pool.ask)

BinPrices(pool) ==
  {bin.price : bin \in UNION {Range(pool.bins[i]) : i \in DOMAIN pool.bins}} \ {0}

SpotDlmm(pool, in, ab) ==
  IF BinPrices(pool) = {} THEN 0
  ELSE IF ab THEN (in * (Bps - pool.fee) * Max(BinPrices(pool))) \div (Bps * Q)
             ELSE (in * (Bps - pool.fee) * Q) \div (Bps * Min(BinPrices(pool)))

\* The reserves are those of the curve, none of them capped.
OnCurve(pool) ==
  /\ pool.a * pool.price <= pool.liq * Q /\ pool.liq * Q < (pool.a + 1) * pool.price
  /\ pool.b * Q <= pool.liq * pool.price /\ pool.liq * pool.price < (pool.b + 1) * Q

\* What quotes the pool.  A curve whose walk fails falls back to its reserves.
QuotedBy(pool, in, ab) ==
  CASE pool.dex \in {"OrcaWhirlpool", "RaydiumClmm"} /\ Orca(pool, in, ab) # None ->
         IF pool.ticks = {} THEN "range" ELSE "ticks"
    [] pool.dex \in {"OrcaWhirlpool", "RaydiumClmm"} /\ Orca(pool, in, ab) = None
         /\ HasClmmState(pool) /\ OnCurve(pool) -> "fallback"
    [] pool.dex \in {"MeteoraDammV2", "SanctumInfinity"} /\ HasClmmState(pool) -> "range"
    [] pool.dex \in {"Phoenix", "Manifest"} -> pool.dex
    [] pool.dex = "MeteoraDlmm" /\ Dlmm(pool, in, ab) # None -> "bins"
    [] OTHER -> "product"

Spot(by, pool, in, ab) ==
  CASE by \in {"ticks", "range", "fallback"} -> SpotClmm(pool, in, ab)
    [] by = "Phoenix"  -> SpotBook(pool, in, ab, 1)
    [] by = "Manifest" -> SpotBook(pool, in, ab, PriceOne)
    [] by = "bins"     -> SpotDlmm(pool, in, ab)
    [] by = "product"  -> SpotCpmm(pool, in, ab)

\* The liquidity behind the ticks that a quote may reach: as the code follows it,
\* the most of it, and as it is if nothing wraps.
Deepen(w, tick, ab) ==
  LET liq == CrossTick(w.liq, tick, ab)
  IN  [liq |-> liq, most |-> IF liq > w.most THEN liq ELSE w.most,
       plain |-> IF ab THEN w.plain - tick.net ELSE w.plain + tick.net]

Depth(pool, ab) ==
  FoldLeft(LAMBDA w, t : Deepen(w, t, ab),
           [liq |-> pool.liq, most |-> pool.liq, plain |-> pool.liq], TicksReached(pool, ab))

\* What a number of steps gains by rounding what they take: one unit of the input
\* each and, where the price falls, the price's part of another.
StepsGain(pool, ab, steps) ==
  IF ab THEN CeilDiv(steps * pool.price * (pool.price + Q), Q * Q)
        ELSE CeilDiv(steps * Q * Q, pool.price * pool.price)

\* A falling price is rounded down, which adds a unit of the price.
PriceGain(liq, ab) == IF ab THEN CeilDiv(liq, Q) ELSE 0

RoundingGain(by, pool, ab) ==
  CASE by = "range"    -> PriceGain(pool.liq, ab)
    [] by = "ticks"    -> StepsGain(pool, ab, Len(TicksReached(pool, ab)) + 1)
                          + PriceGain(Depth(pool, ab).most, ab)
    [] by = "fallback" -> StepsGain(pool, ab, 1)
    [] OTHER           -> 0

\* What a hop can pay at most, if out was quoted for in.
Above(pool, in, ab, amount) ==
  Spot(QuotedBy(pool, in, ab), pool, amount, ab) + RoundingGain(QuotedBy(pool, in, ab), pool, ab)

\* Along pools, quoted for the amounts ins.
PastHop(w, i, pools, ins) ==
  LET ab == pools[i].mintA = w.mint
  IN  [mint |-> OtherToken(pools[i], w.mint), amount |-> Above(pools[i], ins[i], ab, w.amount)]

SpotAlong(pools, ins) ==
  FoldLeft(LAMBDA w, i : PastHop(w, i, pools, ins), [mint |-> Wsol, amount |-> ins[1]],
           [i \in 1..Len(pools) |-> i]).amount

\* Every tick ahead takes liquidity away, all of them no more than there is.
Thinning(pool, ab) ==
  /\ \A t \in Range(TicksAhead(pool, ab)) : IF ab THEN t.net >= 0 ELSE t.net <= 0
  /\ Depth(pool, ab).plain >= 0
  /\ pool.liq < U128 \div 2

\* What rounding loses on a curve without ticks.
RoundingLoss(pool, ab) ==
  IF ab THEN CeilDiv(pool.price, Q)
  ELSE CeilDiv(Q, pool.price) + CeilDiv(pool.liq * Q, pool.price * pool.price)

Inputs == 1..(MaxU64 \div 4)

\* A quote depends on a pool alone: a state in which nothing is under way stands
\* for all in which the cache holds the same.
Quiet == sim = NoSimulation /\ routes = {} /\ quoted = <<>>

BelowAt(pool, in, ab) ==
  LET out == Quote(pool, in, ab)
  IN  /\ out # None => out <= Above(pool, in, ab, in)
      /\ QuotedBy(pool, in, ab) = "ticks" /\ Thinning(pool, ab) /\ SingleTick(pool, in, ab) # None
           => out <= SingleTick(pool, in, ab) + RoundingLoss(pool, ab)
                  + RoundingGain("ticks", pool, ab)

\* A quote of any pool, for any input and in both directions, never promises
\* more than the best price of the pool pays after fees; and when the ticks
\* ahead only take liquidity away, no more than if there were no ticks.  The
\* crossing of ticks and bins, the depth of books and the fallbacks all stay
\* below, up to what rounding gains.  (get_output_amount_with_cache)
QuotesBelowCurve ==
  Quiet => \A p \in Pools, in \in Inputs, ab \in BOOLEAN : BelowAt(cache[p], in, ab)

ExactAt(pool, in, ab) ==
  LET rin  == IF ab THEN pool.a ELSE pool.b
      rout == IF ab THEN pool.b ELSE pool.a
      net  == in * (Bps - pool.fee)
      kept(out) == (rin * Bps + net) * (rout - out) >= rin * Bps * rout
      fits == rout * net < U128 /\ rin * Bps + net < U128
  IN  pool.dex = "RaydiumAmm" /\ rin * rout > 0 /\ pool.fee <= Bps /\ fits =>
        Quote(pool, in, ab) = Max({out \in 0..rout : kept(out)})

\* Unless a product overflows, a constant-product quote is the most the pool can
\* pay without its product falling.  (cpmm::quote)
CpmmExact ==
  Quiet => \A p \in Pools, in \in Inputs, ab \in BOOLEAN : ExactAt(cache[p], in, ab)

\* A route is accepted only if the pools, as the simulation itself read them, are
\* worth it: at their best prices after fees the input comes to the input, the tip
\* and the least profit again, but for what rounding gains on the curves along the
\* way (RoundingGain, nothing on products, books and bins).  A profit the search saw
\* in an older cache is not enough; one that rounding invented on a curve may be.
\* The reads are not of one moment.  (ProfitSimulator::simulate)
AcceptedHasSpread ==
  verdict.accepted =>
    SpotAlong(quoted, verdict.outs) >= verdict.input + verdict.tip + MinProfit
=============================================================================
