------------------------------- MODULE DexQuotes -------------------------------
(***************************************************************************)
(* What the engine believes a pool pays: the quoting arithmetic of          *)
(* src/src/router/dex/ and the dispatch of src/src/router/pool.rs.  Pure    *)
(* operators.  An amount that the code returns as None, because a checked   *)
(* operation failed or data is missing, is the value None here, and every   *)
(* checked operation passes it on, as the code's ? does.                    *)
(*                                                                          *)
(* Widths are parameters: a u64 has Q values and a u128 the square of that, *)
(* and Q, 2^64 in the code, is its fixed-point unit.  Fee arithmetic in      *)
(* millionths and billionths is written in basis points: the factors 100    *)
(* and 100000 of the code cancel in every floor and every ceiling.          *)
(***************************************************************************)
EXTENDS Integers, Sequences, FiniteSets, SequencesExt

CONSTANTS Q,            \* 2^64
          Bps,          \* 10_000: what a fee is a fraction of
          PriceOne,     \* 10^18: one, as a Manifest price
          TickPrice,    \* tick_index_to_sqrt_price_x64, an increasing function
          MinPrice,     \* MIN_SQRT_PRICE_X64
          MaxPrice,     \* MAX_SQRT_PRICE_X64
          BinsPerArray, \* DLMM_MAX_BIN_PER_ARRAY
          MaxSteps,     \* 50: ticks a quote crosses at most
          MaxBins       \* 200: bins a quote visits at most

ASSUME QuoteAssumption ==
  /\ {Q, Bps, PriceOne, MinPrice, MaxPrice, BinsPerArray, MaxSteps, MaxBins}
       \subseteq Nat \ {0}
  /\ MinPrice < MaxPrice
  /\ \A s, t \in DOMAIN TickPrice :
       /\ TickPrice[s] \in MinPrice..MaxPrice
       /\ s < t => TickPrice[s] < TickPrice[t]

None == -1

MaxU64 == Q - 1
U128   == Q * Q

-----------------------------------------------------------------------------
(* Checked u128 arithmetic, and the casts.                                  *)

Add(x, y) == IF x = None \/ y = None \/ x + y >= U128 THEN None ELSE x + y
Sub(x, y) == IF x = None \/ y = None \/ x < y THEN None ELSE x - y
Div(x, y) == IF x = None \/ y \in {None, 0} THEN None ELSE x \div y
Mul(x, y) == IF x = None \/ y = None \/ (x # 0 /\ y > (U128 - 1) \div x)
             THEN None ELSE x * y

CeilDiv(x, y) == IF y = 0 THEN 0 ELSE (x + y - 1) \div y

\* The final test of the quotes: an output that does not fit u64 is no output.
FitsU64(x) == IF x > MaxU64 THEN None ELSE x

OrElse(x, y) == IF x = None THEN y ELSE x

Least(x, y) == IF x < y THEN x ELSE y

\* The input that is left after the fee.
AfterFee(pool, in) == Div(Mul(in, Sub(Bps, pool.fee)), Bps)

-----------------------------------------------------------------------------
(* Constant product.                                                        *)

\* Mutated form: the fee is forgotten in the numerator.
CpmmGross(pool, in, ab) ==
  LET rin  == IF ab THEN pool.a ELSE pool.b
      rout == IF ab THEN pool.b ELSE pool.a
      net  == Mul(in, Sub(Bps, pool.fee))
      out  == Div(Mul(rout, Mul(in, Bps)), Add(Mul(rin, Bps), net))
  IN  IF rin = 0 \/ rout = 0 \/ out >= rout THEN None ELSE out

Cpmm(pool, in, ab) ==
  LET rin  == IF ab THEN pool.a ELSE pool.b
      rout == IF ab THEN pool.b ELSE pool.a
      net  == Mul(in, Sub(Bps, pool.fee))
      out  == Div(Mul(rout, net), Add(Mul(rin, Bps), net))
  IN  IF rin = 0 \/ rout = 0 \/ out >= rout THEN None ELSE out

-----------------------------------------------------------------------------
(* Order books: the best price only, capped by the depth behind it.  price  *)
(* is per PriceOne on Manifest and per 1 on Phoenix.                        *)

TopOfBook(pool, in, ab, one) ==
  LET net == AfterFee(pool, in)
  IN  IF ab
      THEN IF pool.bid = 0 THEN None
           ELSE FitsU64(Div(Mul(Least(net, pool.a), pool.bid), one))
      ELSE FitsU64(Least(Div(Mul(net, one), pool.ask), pool.b))

Phoenix(pool, in, ab)  == TopOfBook(pool, in, ab, 1)
Manifest(pool, in, ab) == TopOfBook(pool, in, ab, PriceOne)

-----------------------------------------------------------------------------
(* Concentrated liquidity.  A step within one range of liquidity: what is   *)
(* consumed, what is paid and the price it ends at.                         *)

NewPriceDown(price, liq, in) ==
  Div(Mul(liq, price), Add(liq, Div(Mul(in, price), Q)))

NewPriceUp(price, liq, in) == Add(price, Div(Mul(in, Q), liq))

PaidDown(from, to, liq) == Div(Mul(liq, Sub(from, to)), Q)
PaidUp(from, to, liq)   == Div(Mul(Div(Mul(liq, Sub(to, from)), from), Q), to)

\* ab: the price falls, token a is paid in.
PriceAfter(price, liq, in, ab) ==
  IF ab THEN NewPriceDown(price, liq, in) ELSE NewPriceUp(price, liq, in)

Paid(from, to, liq, ab) == IF ab THEN PaidDown(from, to, liq) ELSE PaidUp(from, to, liq)

\* What it takes to move the price to the target.
MostIn(price, target, liq, ab) ==
  IF ab THEN Div(Mul(Div(Mul(liq, Sub(price, target)), price), Q), target)
        ELSE Div(Mul(liq, Sub(target, price)), Q)

Stepped(in, out, to) ==
  IF None \in {in, out, to} THEN [in |-> None, out |-> None, price |-> None]
  ELSE [in |-> in, out |-> out, price |-> to]

StepEndingAt(price, to, liq, in, ab) == Stepped(in, Paid(price, to, liq, ab), to)

StepTowards(price, target, liq, left, ab, most) ==
  IF left >= most THEN StepEndingAt(price, target, liq, most, ab)
  ELSE StepEndingAt(price, PriceAfter(price, liq, left, ab), liq, left, ab)

SwapStep(price, target, liq, left, ab) ==
  StepTowards(price, target, liq, left, ab, MostIn(price, target, liq, ab))

SingleTick(pool, in, ab) ==
  LET net == AfterFee(pool, in)
      to  == PriceAfter(pool.price, pool.liq, net, ab)
      out == Paid(pool.price, to, pool.liq, ab)
  IN  IF net = 0 THEN 0
      ELSE IF to = None \/ (ab /\ to >= pool.price) \/ (~ab /\ to <= pool.price)
      THEN None
      ELSE FitsU64(out)

\* as i128
Signed(x) == IF x >= U128 \div 2 THEN x - U128 ELSE x

\* Mutated form: liquidity_net is added in both directions.
CrossTickUnsigned(liq, tick, ab) ==
  LET r == Signed(liq) + tick.net
  IN  IF r \in -(U128 \div 2)..(U128 \div 2 - 1) THEN r % U128 ELSE None

\* liquidity +- liquidity_net, through i128 and back: a negative result wraps.
CrossTick(liq, tick, ab) ==
  LET r == IF ab THEN Signed(liq) - tick.net ELSE Signed(liq) + tick.net
  IN  IF r \in -(U128 \div 2)..(U128 \div 2 - 1) THEN r % U128 ELSE None

\* The initialised ticks on the way, nearest first: the i-th has i - 1 before it.
TicksAhead(pool, ab) ==
  LET S == {t \in pool.ticks : /\ t.gross > 0
                               /\ IF ab THEN t.index <= pool.tick ELSE t.index > pool.tick}
      before(t) == {s \in S : IF ab THEN s.index > t.index ELSE s.index < t.index}
  IN  [i \in 1..Cardinality(S) |-> CHOOSE t \in S : Cardinality(before(t)) = i - 1]

\* Those that a quote reaches at most.
TicksReached(pool, ab) ==
  LET ahead == TicksAhead(pool, ab)
  IN  SubSeq(ahead, 1, Least(MaxSteps, Len(ahead)))

StepOver(w, target, crossed, step) ==
  LET next == IF step.price = target THEN crossed ELSE w.liq
  IN  [left |-> w.left - Least(w.left, step.in), out |-> w.out + step.out,
       price |-> step.price, liq |-> next, fail |-> None \in {step.in, next}]

ReachTick(w, target, crossed, ab) ==
  IF IF ab THEN target >= w.price ELSE target <= w.price
  THEN [w EXCEPT !.liq = crossed, !.fail = crossed = None]
  ELSE IF w.liq = 0
  THEN [w EXCEPT !.price = target, !.liq = crossed, !.fail = crossed = None]
  ELSE StepOver(w, target, crossed, SwapStep(w.price, target, w.liq, w.left, ab))

\* One iteration of multi_tick_output.  w.fail stands for a return of None.
VisitTick(w, tick, ab) ==
  IF w.fail \/ w.left = 0 THEN w
  ELSE IF tick.index \notin DOMAIN TickPrice THEN [w EXCEPT !.fail = TRUE]
  ELSE ReachTick(w, TickPrice[tick.index], CrossTick(w.liq, tick, ab), ab)

\* What is left after the last tick goes up to the end of all prices.
PaidBehind(w, ab) ==
  LET rest == SwapStep(w.price, IF ab THEN MinPrice ELSE MaxPrice, w.liq, w.left, ab)
  IN  IF w.left > 0 /\ w.liq > 0 /\ rest.in # None THEN rest.out ELSE 0

PaidAlong(w, ab) == IF w.fail THEN None ELSE FitsU64(w.out + PaidBehind(w, ab))

MultiTick(pool, in, ab) ==
  LET net == AfterFee(pool, in)
  IN  IF net \in {None, 0} THEN net
      ELSE PaidAlong(FoldLeft(LAMBDA w, t : VisitTick(w, t, ab),
                              [left |-> net, out |-> 0, price |-> pool.price,
                               liq |-> pool.liq, fail |-> FALSE],
                              TicksReached(pool, ab)), ab)

HasClmmState(pool) == pool.price > 0 /\ pool.liq > 0

Orca(pool, in, ab) ==
  IF ~HasClmmState(pool) THEN None
  ELSE IF pool.ticks = {} THEN SingleTick(pool, in, ab)
  ELSE MultiTick(pool, in, ab)

\* clmm_raydium.rs is clmm_orca.rs line by line.
RaydiumClmm(pool, in, ab) == Orca(pool, in, ab)

DammV2(pool, in, ab) ==
  IF HasClmmState(pool) THEN SingleTick(pool, in, ab) ELSE Cpmm(pool, in, ab)

Sanctum(pool, in, ab) ==
  IF HasClmmState(pool) THEN SingleTick(pool, in, ab) ELSE Cpmm(pool, in, ab)

-----------------------------------------------------------------------------
(* Meteora DLMM: bin by bin from the active one.  bins maps the index of a  *)
(* cached array to its sequence of bins.                                    *)

NoBin == [x |-> 0, y |-> 0, price |-> 0]

BinAt(bins, id) ==
  LET arr == id \div BinsPerArray
      off == (id % BinsPerArray) + 1
  IN  IF arr \in DOMAIN bins /\ off \in DOMAIN bins[arr] THEN bins[arr][off] ELSE NoBin

\* ceil_div of a product that may have overflowed.
CeilOf(x, y) == IF x = None THEN None ELSE CeilDiv(x, y)

\* What the bin takes after fees.
BinCapacity(bin, ab) ==
  IF ab THEN Div(Add(bin.y * Q, bin.price - 1), bin.price)
        ELSE CeilOf(Mul(bin.x, bin.price), Q)

BinFee(pool, amount) == CeilDiv(amount * pool.fee, Bps - pool.fee)

\* One iteration of bin_output.  A missing bin and a zero price end the walk;
\* out = None stands for a return of None.
VisitBin(w, pool, ab) ==
  LET bin   == BinAt(pool.bins, w.id)
      next  == IF ab THEN w.id - 1 ELSE w.id + 1
      there == IF ab THEN bin.y ELSE bin.x
      most  == BinCapacity(bin, ab)
      net   == w.left - Least(w.left, BinFee(pool, w.left))
      gross == most + BinFee(pool, most)
      part  == IF ab THEN Div(Mul(net, bin.price), Q) ELSE Div(net * Q, bin.price)
  IN  IF w.stop \/ w.left = 0 \/ bin.price = 0
      THEN [w EXCEPT !.stop = TRUE]
      ELSE IF there = 0
      THEN [w EXCEPT !.id = next]
      ELSE IF most = None
      THEN [w EXCEPT !.stop = TRUE, !.out = None]
      ELSE IF net >= most
      THEN [w EXCEPT !.left = w.left - Least(w.left, gross),
                     !.out = w.out + there, !.id = next]
      ELSE [w EXCEPT !.left = 0, !.out = Add(w.out, part)]

Dlmm(pool, in, ab) ==
  LET walked == FoldLeft(LAMBDA w, i : VisitBin(w, pool, ab),
                         [left |-> in, out |-> 0, id |-> pool.tick, stop |-> FALSE],
                         [i \in 1..MaxBins |-> i])
  IN  IF DOMAIN pool.bins = {} \/ pool.fee >= Bps THEN None
      ELSE FitsU64(walked.out)

-----------------------------------------------------------------------------
(* PoolState::get_output_amount_with_cache.  A concentrated or binned pool  *)
(* whose quote fails is quoted as a constant product.                       *)

QuoteBy(pool, in, ab) ==
  CASE pool.dex = "MeteoraDlmm"     -> OrElse(Dlmm(pool, in, ab), Cpmm(pool, in, ab))
    [] pool.dex = "OrcaWhirlpool"   -> OrElse(Orca(pool, in, ab), Cpmm(pool, in, ab))
    [] pool.dex = "RaydiumClmm"     -> OrElse(RaydiumClmm(pool, in, ab), Cpmm(pool, in, ab))
    [] pool.dex = "Phoenix"         -> Phoenix(pool, in, ab)
    [] pool.dex = "Manifest"        -> Manifest(pool, in, ab)
    [] pool.dex = "MeteoraDammV2"   -> DammV2(pool, in, ab)
    [] pool.dex = "SanctumInfinity" -> Sanctum(pool, in, ab)
    [] OTHER                        -> Cpmm(pool, in, ab)

Quote(pool, in, ab) == IF in = 0 THEN 0 ELSE QuoteBy(pool, in, ab)

\* The reserves the parsers give a concentrated pool: those of its curve, none
\* when they overflow, and at most a u64.
VirtualReserves(price, liq) ==
  LET fit(r) == IF r = None THEN 0 ELSE Least(r, MaxU64)
  IN  [a |-> fit(Div(Mul(liq, Q), price)), b |-> fit(Div(Mul(liq, price), Q))]
=============================================================================
