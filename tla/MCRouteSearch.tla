----------------------------- MODULE MCRouteSearch -----------------------------
(***************************************************************************)
(* Four pools of four kinds: two between wSOL and USDC, one between USDC    *)
(* and an LST, one between the LST and wSOL.  A u64 has eight bits, prices  *)
(* are around one, and a trade crosses a tick or uses up a bin.             *)
(***************************************************************************)
EXTENDS RouteSearch

Pool(dex, x, y, fee) ==
  [dex |-> dex, mintA |-> x, mintB |-> y, fee |-> fee, a |-> 0, b |-> 0, bid |-> None,
   ask |-> None, tick |-> 0, price |-> 0, liq |-> 0, ticks |-> {}, bins |-> <<>>]

Amm(a, b) == [Pool("RaydiumAmm", "wsol", "usdc", 1) EXCEPT !.a = a, !.b = b]

\* Liquidity changes at the ticks around the price.
Whirlpool(price, liq, below, above) ==
  [Pool("OrcaWhirlpool", "usdc", "wsol", 1) EXCEPT
     !.price = price, !.liq = liq,
     !.a = VirtualReserves(price, liq).a, !.b = VirtualReserves(price, liq).b,
     !.ticks = {[index |-> 0, net |-> below, gross |-> 1],
                [index |-> 1, net |-> above, gross |-> 1]}]

\* A price so low that a step to the next tick takes less than one unit.
Cheap ==
  [Whirlpool(49, 250, 0, 0) EXCEPT
     !.tick = -4,
     !.ticks = {[index |-> -3, net |-> -20, gross |-> 1],
                [index |-> -2, net |-> -30, gross |-> 1]}]

Book(bid, ask, depth) ==
  [Pool("Manifest", "usdc", "lst", 0) EXCEPT !.bid = bid, !.ask = ask, !.a = depth, !.b = depth]

\* Two arrays of two bins, the active one is number 0; and behind them a bin so
\* deep that what it takes does not fit a u128.
Bins(low, high) ==
  [Pool("MeteoraDlmm", "lst", "wsol", 1) EXCEPT
     !.a = 145, !.b = 145,
     !.bins = (-1 :> <<[x |-> 0, y |-> 6, price |-> low - 16],
                       [x |-> 0, y |-> 6, price |-> low]>>) @@
              (0  :> <<[x |-> 5, y |-> 5, price |-> high],
                       [x |-> 6, y |-> 0, price |-> high + 16]>>) @@
              (1  :> <<[x |-> 134, y |-> 0, price |-> 2 * high]>>)]

MCContents ==
  [amm   |-> {Amm(100, 150), Amm(100, 90)},
   whirl |-> {Whirlpool(256, 40, 37, -37), Whirlpool(250, 120, -40, 40),
              Cheap,
              [Whirlpool(128, 1000, 0, 0) EXCEPT !.ticks = {}]},
   book  |-> {Book(5, 6, 20), Book(4, 4, 10)},
   dlmm  |-> {Bins(240, 256), [Bins(240, 256) EXCEPT !.bins = <<>>]}]

MCTickPrice == (-3 :> 50) @@ (-2 :> 52) @@ (0 :> 240) @@ (1 :> 272)
MCFloors == {None, 2}
MCSlippage == <<1, 4>>
MCTip == <<1, 2>>
=============================================================================
