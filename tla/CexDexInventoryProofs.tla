---- MODULE CexDexInventoryProofs ----
(***************************************************************************)
(* The desk never commits more than the wallet holds and never asks for    *)
(* more than the pool quoted, for any pools, books, relays and bounds.     *)
(***************************************************************************)
EXTENDS CexDexInventory, WellFoundedInduction, FiniteSetTheorems, TLAPS

----------------------------------------------------------------------------
(* Arithmetic.                                                             *)

LEMMA DivNat == ASSUME NEW a \in Nat, NEW c \in Nat \ {0} PROVE a \div c \in Nat
OBVIOUS

LEMMA DivInt == ASSUME NEW a \in Int, NEW c \in Nat \ {0} PROVE a \div c \in Int
OBVIOUS

LEMMA DivMul == ASSUME NEW a \in Nat, NEW c \in Nat \ {0} PROVE c * (a \div c) <= a
OBVIOUS

LEMMA MulCancel == ASSUME NEW x \in Int, NEW b \in Int, NEW c \in Nat \ {0}, c * x <= b * c PROVE x <= b
OBVIOUS

LEMMA DivLe == ASSUME NEW a \in Nat, NEW c \in Nat \ {0}, NEW b \in Nat, a <= b * c PROVE a \div c <= b
<1>1. a \div c \in Nat /\ c * (a \div c) <= a
  BY DivNat, DivMul
<1> QED BY <1>1, MulCancel

LEMMA MulMono == ASSUME NEW a \in Nat, NEW b \in Nat, NEW c \in Nat, a <= b PROVE a * c <= b * c
OBVIOUS

LEMMA MulPos == ASSUME NEW a \in Nat \ {0}, NEW b \in Nat \ {0} PROVE a * b \in Nat \ {0}
OBVIOUS

LEMMA MulNat == ASSUME NEW a \in Nat, NEW b \in Nat PROVE a * b \in Nat
OBVIOUS

LEMMA SumNat == ASSUME NEW a \in Nat, NEW b \in Nat PROVE a + b \in Nat
OBVIOUS

LEMMA MulInt == ASSUME NEW a \in Int, NEW b \in Int PROVE a * b \in Int
OBVIOUS

----------------------------------------------------------------------------
(* The invariant.                                                          *)

RouteOK ==
  route # NoRoute => /\ cex \in Books
                     /\ route.dir \in Directions /\ route.pool \in Pools
                     /\ route.in \in Nat \ {0}

Orders == [dir : Directions, in : Nat, out : Nat, min : Nat, profit : Int, at : Books,
           tip : [DOMAIN TipFractions -> Int], state : {"live", "landed", "dead"}]

Fetches == [at : {"idle", "sol", "usdc", "storeSol", "storeUsdc"}, got : [Currencies -> Nat]]

Typed ==
  /\ cex \in Books \cup {NoBook} /\ cex.bid <= cex.ask
  /\ pool \in [Pools -> [sol : Nat, usdc : Nat]]
  /\ onChain \in [Currencies -> Nat] /\ reserved \in [Currencies -> Nat]
  /\ wallet \in [Currencies -> Nat] /\ accounts \in SUBSET Currencies /\ costs \in Nat
  /\ open \in [Currencies -> Int] /\ paid \in [Currencies -> Nat]
  /\ sent \in Seq(Orders)
  /\ fetch \in [0..MaxRefreshes -> Fetches]
  /\ RouteOK

\* What the wallet would hold if it had paid nothing: it never shrinks.
Paying(cur) == IF cur = "sol" THEN costs + RentOf(accounts) ELSE 0
Spent(cur)  == paid[cur] + Paying(cur)
Held(cur)  == wallet[cur] + Spent(cur)

\* Every balance that anybody has read is at most what is held, and so is what is
\* reserved; and what is reserved covers everything that landed or may still land.
Bounded ==
  /\ \A cur \in Currencies :
       /\ reserved[cur] <= Held(cur)
       /\ onChain[cur] <= Held(cur)
       /\ open[cur] + paid[cur] <= reserved[cur]
       /\ \A f \in 0..MaxRefreshes : fetch[f].got[cur] <= Held(cur)
  /\ route # NoRoute =>
       route.in + reserved[Spends(route.dir)] <= Held(Spends(route.dir))

Inv == Typed /\ Bounded /\ FloorReachable

----------------------------------------------------------------------------
(* Decisions.                                                              *)

LEMMA SlippageFacts == Slippage[1] \in Nat /\ Slippage[2] \in Nat \ {0} /\ Slippage[1] <= Slippage[2]
BY DeskAssumption

LEMMA BookFacts ==
  ASSUME NEW b \in Books PROVE b.bid \in Nat \ {0} /\ b.ask \in Nat \ {0} /\ b # NoBook
BY DeskAssumption DEF NoBook

\* What a pool pays is a natural number.
LEMMA PaysNat ==
  ASSUME NEW q \in [sol : Nat, usdc : Nat], NEW dir \in Directions, NEW in \in Nat,
         in # 0 \/ (q.sol # 0 /\ q.usdc # 0)
  PROVE  PoolPays(q, dir, in) \in Nat
<1>1. /\ q.sol * in \in Nat /\ q.usdc * in \in Nat
      /\ q.usdc + in \in Nat \ {0} /\ q.sol + in \in Nat \ {0}
  BY MulNat
<1> QED BY <1>1, DivNat DEF PoolPays

\* A trade is sized to what is available of what it spends.
LEMMA InputBounded ==
  ASSUME Typed, NEW q \in [sol : Nat, usdc : Nat], NEW dir \in Directions, NEW b \in Books,
         q.sol # 0, q.usdc # 0
  PROVE  TradeInput(q, dir, b) \in Nat /\ TradeInput(q, dir, b) <= Available(Spends(dir))
<1> DEFINE ref   == Reference(dir, b)
           unit  == IF dir = "BuyOnDex" THEN 1 ELSE ref
           side  == Lesser(q.usdc, q.sol * ref) \div (PoolShare * unit)
           share == (Portfolio(ref) * MaxPosition[1]) \div (MaxPosition[2] * unit)
           most  == IF dir = "BuyOnDex" THEN MaxTradeSol * ref ELSE MaxTradeSol
<1>1. ref \in Nat \ {0} /\ unit \in Nat \ {0}
  BY BookFacts DEF Reference
<1>2. \A cur \in Currencies : Available(cur) \in Nat
  BY DEF Typed, Available
<1>3. Spends(dir) \in Currencies /\ "sol" \in Currencies /\ "usdc" \in Currencies
  BY DEF Spends, Currencies
<1>4. MaxPosition[1] \in Nat /\ MaxPosition[2] \in Nat \ {0} /\ PoolShare \in Nat \ {0} /\ MaxTradeSol \in Nat
  BY DeskAssumption
<1> HIDE DEF ref, unit
<1>5. Lesser(q.usdc, q.sol * ref) \in Nat
  BY <1>1, MulNat DEF Lesser
<1>6. side \in Nat
  BY <1>1, <1>4, <1>5, MulPos, DivNat
<1>7. Portfolio(ref) \in Nat
  BY <1>1, <1>2, <1>3, MulNat DEF Portfolio
<1>8. share \in Nat
  BY <1>1, <1>4, <1>7, MulNat, MulPos, DivNat
<1>9. most \in Nat
  BY <1>1, <1>4, MulNat
<1>10. TradeInput(q, dir, b) = Lesser(Lesser(Lesser(Available(Spends(dir)), most), side), share)
  BY DEF TradeInput, ref, unit
<1> HIDE DEF side, share, most
<1> QED BY <1>2, <1>3, <1>6, <1>8, <1>9, <1>10 DEF Lesser

\* Without an input there is no route.
LEMMA NothingForNothing ==
  ASSUME NEW q \in [sol : Nat, usdc : Nat], NEW dir \in Directions, q.sol # 0, q.usdc # 0
  PROVE  PoolPays(q, dir, 0) = 0
<1>1. q.sol * 0 = 0 /\ q.usdc * 0 = 0 /\ q.usdc + 0 = q.usdc /\ q.sol + 0 = q.sol
  OBVIOUS
<1>2. 0 \div q.usdc = 0 /\ 0 \div q.sol = 0
  OBVIOUS
<1> QED BY <1>1, <1>2 DEF PoolPays

LEMMA RouteFound ==
  ASSUME Typed, NEW p, NEW r \in CheckAll(cex, p)
  PROVE  /\ cex \in Books
         /\ r # NoRoute /\ r.dir \in Directions /\ r.pool \in Pools /\ r.in \in Nat \ {0}
         /\ r.in <= Available(Spends(r.dir))
<1>1. cex \in Books
  BY DEF CheckAll, Typed
<1>2. PICK a \in Pools, dir \in Directions : r = TryRoute(a, dir, cex) /\ r # NoRoute
  BY DEF CheckAll
<1>3. pool[a] \in [sol : Nat, usdc : Nat]
  BY DEF Typed
<1> DEFINE in == TradeInput(pool[a], dir, cex)
<1>4. /\ r.dir = dir /\ r.pool = a /\ r.in = in
      /\ pool[a].sol # 0 /\ pool[a].usdc # 0
      /\ PoolPays(pool[a], dir, in) # 0
  BY <1>2 DEF TryRoute
<1>5. in \in Nat /\ in <= Available(Spends(dir))
  BY <1>1, <1>3, <1>4, InputBounded
<1>6. in # 0
  BY <1>3, <1>4, NothingForNothing
<1> QED BY <1>1, <1>2, <1>4, <1>5, <1>6

\* A floor is at most what the pool pays whenever the trade gains, at the near side of
\* the book, more than nothing: the floor is taken from the far side.
LEMMA FloorBelow ==
  ASSUME NEW b \in Books, b.bid <= b.ask, NEW dir \in Directions,
         NEW in \in Nat \ {0}, NEW out \in Nat, GrossUsd(dir, in, out, b) > 0
  PROVE  MinFinalOutput(dir, in, b) \in Nat /\ MinFinalOutput(dir, in, b) <= out
<1> DEFINE S2   == Slippage[2]
           kept == S2 - Slippage[1]
<1>1. S2 \in Nat \ {0} /\ kept \in Nat /\ kept <= S2
  BY SlippageFacts
<1>2. b.bid \in Nat \ {0} /\ b.ask \in Nat \ {0}
  BY BookFacts
<1>3. CASE dir = "BuyOnDex"
  <2>1. MinFinalOutput(dir, in, b) = (in * kept) \div (b.ask * S2)
    BY <1>3 DEF MinFinalOutput
  <2>2. in <= out * b.bid
    BY <1>2, <1>3, MulNat DEF GrossUsd
  <2> HIDE DEF S2, kept
  <2>3. out * b.bid <= out * b.ask /\ out * b.ask \in Nat /\ out * b.bid \in Nat
    <3>1. b.bid * out <= b.ask * out
      BY <1>2, MulMono
    <3> QED BY <1>2, <3>1, MulNat
  <2>4. in * kept <= in * S2
    <3>1. kept * in <= S2 * in
      BY <1>1, MulMono
    <3> QED BY <1>1, <3>1
  <2>5. in * S2 <= (out * b.ask) * S2
    BY <1>1, <2>2, <2>3, MulMono
  <2>6. (out * b.ask) * S2 = out * (b.ask * S2)
    BY <1>1, <1>2
  <2>7. in * kept \in Nat /\ b.ask * S2 \in Nat \ {0} /\ in * S2 \in Nat
    BY <1>1, <1>2, MulNat, MulPos
  <2>8. in * kept <= out * (b.ask * S2)
    BY <2>4, <2>5, <2>6, <2>7, MulNat
  <2> QED BY <2>1, <2>7, <2>8, DivNat, DivLe
<1>4. CASE dir # "BuyOnDex"
  <2>1. MinFinalOutput(dir, in, b) = (in * b.bid * kept) \div S2
    BY <1>4 DEF MinFinalOutput
  <2>2. in * b.ask <= out
    BY <1>2, <1>4, MulNat DEF GrossUsd
  <2> HIDE DEF S2, kept
  <2>3. in * b.bid <= in * b.ask /\ in * b.ask \in Nat /\ in * b.bid \in Nat
    <3>1. b.bid * in <= b.ask * in
      BY <1>2, MulMono
    <3> QED BY <1>2, <3>1, MulNat
  <2> DEFINE x == in * b.bid
  <2>4. x \in Nat /\ x <= out
    BY <2>2, <2>3
  <2>5. MinFinalOutput(dir, in, b) = (x * kept) \div S2
    BY <2>1
  <2> HIDE DEF x
  <2>6. x * kept <= x * S2 /\ x * S2 <= out * S2
    <3>1. kept * x <= S2 * x
      BY <1>1, <2>4, MulMono
    <3> QED BY <1>1, <2>4, <3>1, MulMono
  <2>7. x * kept \in Nat /\ x * S2 \in Nat /\ out * S2 \in Nat
    BY <1>1, <2>4, MulNat
  <2> QED BY <1>1, <2>5, <2>6, <2>7, DivNat, DivLe
<1> QED BY <1>3, <1>4

LEMMA TipInt ==
  ASSUME NEW b \in Books, NEW r \in DOMAIN TipFractions, NEW adjusted \in Int
  PROVE  TipFor(r, adjusted, b) \in Int
<1>1. /\ TipFractions[r] \in Int /\ TipDen \in Nat \ {0} /\ MinTip \in Int
      /\ Slippage[2] \in Nat \ {0} /\ b.bid + b.ask \in Nat \ {0}
  BY DeskAssumption, SlippageFacts, BookFacts
<1>2. Slippage[2] * (b.bid + b.ask) * TipDen \in Nat \ {0}
  BY <1>1, MulPos
<1>3. 2 * adjusted * TipFractions[r] \in Int
  BY <1>1, MulInt
<1> QED BY <1>1, <1>2, <1>3, DivInt DEF TipFor

LEMMA Simulated ==
  ASSUME Typed, route # NoRoute, Simulate(route).ok
  PROVE  /\ Simulate(route).out \in Nat /\ Simulate(route).min \in Nat
         /\ Simulate(route).profit \in Int
         /\ Simulate(route).min <= Simulate(route).out
<1> DEFINE out == PoolPays(pool[route.pool], route.dir, route.in)
           gross == GrossUsd(route.dir, route.in, out, cex)
<1>1. cex \in Books /\ cex.bid <= cex.ask /\ route.dir \in Directions /\ route.in \in Nat \ {0}
      /\ pool[route.pool] \in [sol : Nat, usdc : Nat]
  BY DEF Typed, RouteOK
<1>2. out \in Nat
  BY <1>1, PaysNat
<1>3. cex.bid \in Nat /\ cex.ask \in Nat
  BY <1>1, BookFacts
<1> HIDE DEF out
<1>4. gross \in Int
  BY <1>1, <1>2, <1>3, MulInt DEF GrossUsd
<1>5. gross > 0 /\ Simulate(route).out = out /\ Simulate(route).profit = Discounted(gross)
      /\ Simulate(route).min = MinFinalOutput(route.dir, route.in, cex)
  BY DEF Simulate, out
<1>6. Discounted(gross) \in Int
  BY <1>4, SlippageFacts, MulInt DEF Discounted
<1> QED BY <1>1, <1>2, <1>5, <1>6, FloorBelow

----------------------------------------------------------------------------
(* Steps.                                                                  *)

LEMMA Sides ==
  ASSUME NEW dir \in Directions
  PROVE  Spends(dir) \in Currencies /\ Gets(dir) \in Currencies /\ Spends(dir) # Gets(dir)
BY DEF Spends, Gets, Currencies, Directions

LEMMA RentNat == ASSUME NEW S \in SUBSET Currencies PROVE RentOf(S) \in Nat
<1>1. IsFiniteSet(Currencies)
  <2>1. IsFiniteSet({"sol"}) /\ {"sol"} \cup {"usdc"} = Currencies
    BY FS_Singleton DEF Currencies
  <2> QED BY <2>1, FS_AddElement
<1>2. Cardinality(S) \in Nat
  BY <1>1, FS_Subset, FS_CardinalityType
<1>3. Rent \in Nat
  BY DeskAssumption
<1> QED BY <1>2, <1>3, MulNat DEF RentOf

LEMMA HeldNat ==
  ASSUME Typed, NEW cur \in Currencies
  PROVE  Held(cur) \in Nat /\ Paying(cur) \in Nat /\ wallet[cur] <= Held(cur)
<1>1. wallet[cur] \in Nat /\ paid[cur] \in Nat /\ costs \in Nat /\ RentOf(accounts) \in Nat
  BY RentNat DEF Typed
<1> QED BY <1>1 DEF Held, Spent, Paying

\* It depends on the chain alone.
LEMMA HeldSame ==
  ASSUME UNCHANGED <<wallet, accounts, paid, costs>>
  PROVE  \A cur \in Currencies : Held(cur)' = Held(cur)
BY DEF Held, Spent, Paying, RentOf

LEMMA InitInv == Init => Inv
<1> SUFFICES ASSUME Init PROVE Inv
  OBVIOUS
<1>1. StartSol \in Nat /\ StartUsdc \in Nat /\ MaxRefreshes \in Nat
  BY DeskAssumption
<1>2. wallet \in [Currencies -> Nat] /\ onChain = wallet
  BY <1>1 DEF Init
<1>3. pool \in [Pools -> [sol : Nat, usdc : Nat]]
  BY DeskAssumption DEF Init, Pools
<1>4. open = [cur \in Currencies |-> 0] /\ paid = open /\ reserved = open /\ costs = 0
  BY DEF Init
<1>5. fetch = [f \in 0..MaxRefreshes |-> Idle] /\ Idle \in Fetches
  BY DEF Init, Idle, Fetches
<1>6. sent = <<>> /\ sent \in Seq(Orders) /\ route = NoRoute /\ cex = NoBook /\ NoBook.bid = 0 /\ NoBook.ask = 0
  BY DEF Init, NoBook
<1>7. Typed
  <2>1. accounts \in SUBSET Currencies
    BY DEF Init
  <2> QED BY <2>1, <1>2, <1>3, <1>4, <1>5, <1>6 DEF Typed, RouteOK
<1>8. Bounded
  <2>1. \A cur \in Currencies : wallet[cur] <= Held(cur) /\ Held(cur) \in Nat /\ wallet[cur] \in Nat
    BY <1>2, <1>7, HeldNat
  <2> QED BY <2>1, <1>2, <1>4, <1>5, <1>6 DEF Bounded, Idle
<1>9. FloorReachable
  BY <1>6 DEF FloorReachable
<1> QED BY <1>7, <1>8, <1>9 DEF Inv

LEMMA DetectKeeps == ASSUME Inv, Detect PROVE Inv'
<1>1. /\ cex \in Books
      /\ route' # NoRoute /\ route'.dir \in Directions /\ route'.pool \in Pools
      /\ route'.in \in Nat \ {0}
      /\ route'.in <= Available(Spends(route'.dir))
  BY RouteFound DEF Detect, Inv
<1>2. UNCHANGED <<cex, pool, onChain, reserved, wallet, accounts, costs, open, paid, sent, fetch>>
  BY DEF Detect, marketVars, fetchVars, chainVars
<1>3. Typed'
  BY <1>1, <1>2 DEF Inv, Typed, RouteOK
<1> DEFINE s == Spends(route'.dir)
<1>4. s \in Currencies
  BY <1>1, Sides
<1>5. /\ onChain[s] \in Nat /\ reserved[s] \in Nat /\ Held(s) \in Nat
      /\ reserved[s] <= Held(s) /\ onChain[s] <= Held(s)
  BY <1>4, HeldNat DEF Inv, Typed, Bounded
<1> HIDE DEF s
<1>6. route'.in + reserved[s] <= Held(s)
  BY <1>1, <1>5 DEF Available, s
<1>7. Bounded'
  <2>1. (Spends(route.dir))' = s
    BY DEF Spends, s
  <2> QED BY <2>1, <1>1, <1>2, <1>4, <1>6, HeldSame DEF Inv, Bounded
<1>8. FloorReachable'
  BY <1>2 DEF Inv, FloorReachable
<1> QED BY <1>3, <1>7, <1>8 DEF Inv

\* A refresh task that only moves on keeps what it has read.
LEMMA FetchMoves ==
  ASSUME Typed, NEW f \in 0..MaxRefreshes, NEW at \in {"idle", "sol", "usdc", "storeSol", "storeUsdc"},
         fetch' = [fetch EXCEPT ![f].at = at]
  PROVE  /\ fetch' \in [0..MaxRefreshes -> Fetches]
         /\ \A g \in 0..MaxRefreshes : fetch'[g].got = fetch[g].got
<1>1. fetch \in [0..MaxRefreshes -> Fetches]
  BY DEF Typed
<1>2. fetch[f] \in Fetches
  BY <1>1
<1>3. [fetch[f] EXCEPT !.at = at] \in Fetches /\ [fetch[f] EXCEPT !.at = at].got = fetch[f].got
  BY <1>2 DEF Fetches
<1>4. fetch' = [fetch EXCEPT ![f] = [fetch[f] EXCEPT !.at = at]]
  OBVIOUS
<1> QED BY <1>1, <1>3, <1>4

LEMMA DispatchKeeps == ASSUME Inv, Dispatch PROVE Inv'
<1> DEFINE s == Simulate(route)
           d == route.dir
           x == Spends(d)
           order == [dir |-> d, in |-> route.in, out |-> s.out, min |-> s.min, profit |-> s.profit,
                     at |-> cex, tip |-> [r \in DOMAIN TipFractions |-> TipFor(r, s.profit, cex)],
                     state |-> "live"]
<1>1. /\ route # NoRoute /\ s.ok
      /\ sent' = Append(sent, order)
      /\ reserved' = [reserved EXCEPT ![x] = @ + route.in]
      /\ route' = NoRoute
      /\ open' = [open EXCEPT ![x] = @ + route.in]
      /\ UNCHANGED <<cex, fresh, pool, onChain, wallet, accounts, paid, costs>>
  BY DEF Dispatch, marketVars
<1>2. PICK f \in 1..MaxRefreshes : fetch' = [fetch EXCEPT ![f].at = "sol"]
  BY DEF Dispatch
<1>3. /\ s.out \in Nat /\ s.min \in Nat /\ s.profit \in Int /\ s.min <= s.out
  BY <1>1, Simulated DEF Inv
<1>4. cex \in Books /\ d \in Directions /\ route.in \in Nat \ {0}
  BY <1>1 DEF Inv, Typed, RouteOK
<1>5. x \in Currencies
  BY <1>4, Sides
<1> HIDE DEF s
<1>6. order \in Orders
  BY <1>3, <1>4, TipInt DEF Orders
<1> HIDE DEF order
<1>7. /\ sent' \in Seq(Orders) /\ Len(sent') = Len(sent) + 1
      /\ \A i \in 1..Len(sent) : sent'[i] = sent[i]
      /\ sent'[Len(sent) + 1] = order
  BY <1>1, <1>6 DEF Inv, Typed
<1>8. fetch' \in [0..MaxRefreshes -> Fetches]
      /\ \A g \in 0..MaxRefreshes : fetch'[g].got = fetch[g].got
  <2>1. f \in 0..MaxRefreshes
    BY DeskAssumption
  <2> QED BY <1>2, <2>1, FetchMoves DEF Inv
<1>9. Typed'
  <2>1. reserved \in [Currencies -> Nat] /\ open \in [Currencies -> Int]
    BY DEF Inv, Typed
  <2>2. reserved' \in [Currencies -> Nat] /\ open' \in [Currencies -> Int]
    BY <2>1, <1>1, <1>4, <1>5
  <2>3. RouteOK'
    BY <1>1 DEF RouteOK, NoRoute
  <2> QED BY <1>1, <1>7, <1>8, <2>2, <2>3 DEF Inv, Typed
<1> HIDE DEF x
<1>10. /\ \A cur \in Currencies : Held(cur)' = Held(cur) /\ Held(cur) \in Nat
       /\ route.in + reserved[x] <= Held(x)
  BY <1>1, <1>5, HeldNat, HeldSame DEF Inv, Bounded, x
<1>11. Bounded'
  <2>1. ASSUME NEW cur \in Currencies
        PROVE  /\ reserved'[cur] <= Held(cur)' /\ onChain'[cur] <= Held(cur)'
               /\ open'[cur] + paid'[cur] <= reserved'[cur]
    <3>1. CASE cur = x
      BY <3>1, <1>1, <1>4, <1>5, <1>10 DEF Inv, Typed, Bounded
    <3>2. CASE cur # x
      BY <3>2, <1>1, <1>4, <1>5, <1>10 DEF Inv, Typed, Bounded
    <3> QED BY <3>1, <3>2
  <2>2. \A cur \in Currencies : \A g \in 0..MaxRefreshes : fetch'[g].got[cur] <= Held(cur)'
    BY <1>8, <1>10 DEF Inv, Bounded
  <2> QED BY <2>1, <2>2, <1>1 DEF Bounded
<1>12. FloorReachable'
  <2> SUFFICES ASSUME NEW i \in DOMAIN sent' PROVE sent'[i].min <= sent'[i].out
    BY DEF FloorReachable
  <2>1. i \in 1..(Len(sent) + 1) /\ Len(sent) \in Nat
    BY <1>7 DEF Inv, Typed
  <2>2. CASE i \in 1..Len(sent)
    BY <2>2, <1>7 DEF Inv, Typed, FloorReachable
  <2>3. CASE i = Len(sent) + 1
    <3>1. order.min = s.min /\ order.out = s.out
      BY DEF order
    <3>2. sent'[Len(sent) + 1] = order
      BY <1>7
    <3> QED BY <2>3, <3>1, <3>2, <1>3
  <2> QED BY <2>1, <2>2, <2>3
<1> QED BY <1>9, <1>11, <1>12 DEF Inv

\* An order whose state changes stays the order it was.
LEMMA StateChange ==
  ASSUME Typed, FloorReachable, NEW i \in 1..Len(sent), NEW st \in {"landed", "dead"},
         sent' = [sent EXCEPT ![i].state = st]
  PROVE  sent' \in Seq(Orders) /\ FloorReachable'
<1>1. sent[i] \in Orders
  BY DEF Typed
<1>2. [sent[i] EXCEPT !.state = st] \in Orders
  BY <1>1 DEF Orders
<1>3. sent' \in Seq(Orders) /\ Len(sent') = Len(sent)
  BY <1>2 DEF Typed
<1>4. \A j \in 1..Len(sent) : sent'[j].min = sent[j].min /\ sent'[j].out = sent[j].out
  <2>1. [sent[i] EXCEPT !.state = st].min = sent[i].min /\ [sent[i] EXCEPT !.state = st].out = sent[i].out
    BY <1>1 DEF Orders
  <2>2. \A j \in 1..Len(sent) : sent'[j] = IF j = i THEN [sent[i] EXCEPT !.state = st] ELSE sent[j]
    BY DEF Typed
  <2> QED BY <2>1, <2>2
<1> QED BY <1>3, <1>4 DEF FloorReachable, Typed

\* A step on chain that returns no more than it takes keeps the balances bounded.
LEMMA HeldGrows ==
  ASSUME Inv, UNCHANGED <<onChain, reserved, route, fetch>>,
         \A cur \in Currencies : /\ Held(cur)' >= Held(cur)
                                 /\ Held(cur) \in Nat /\ Held(cur)' \in Nat
                                 /\ open'[cur] + paid'[cur] <= open[cur] + paid[cur]
                                 /\ open'[cur] + paid'[cur] \in Int
  PROVE  Bounded'
<1>1. ASSUME NEW cur \in Currencies
      PROVE  /\ reserved'[cur] <= Held(cur)' /\ onChain'[cur] <= Held(cur)'
             /\ open'[cur] + paid'[cur] <= reserved'[cur]
             /\ \A f \in 0..MaxRefreshes : fetch'[f].got[cur] <= Held(cur)'
  <2>1. /\ reserved[cur] \in Nat /\ onChain[cur] \in Nat /\ open[cur] + paid[cur] \in Int
        /\ \A f \in 0..MaxRefreshes : fetch[f].got[cur] \in Nat
    <3>1. fetch \in [0..MaxRefreshes -> Fetches] /\ open[cur] \in Int /\ paid[cur] \in Nat
      BY DEF Inv, Typed
    <3>2. \A f \in 0..MaxRefreshes : fetch[f].got[cur] \in Nat
      BY <3>1 DEF Fetches
    <3> QED BY <3>1, <3>2 DEF Inv, Typed
  <2>2. /\ reserved[cur] <= Held(cur) /\ onChain[cur] <= Held(cur)
        /\ open[cur] + paid[cur] <= reserved[cur]
        /\ \A f \in 0..MaxRefreshes : fetch[f].got[cur] <= Held(cur)
    BY DEF Inv, Bounded
  <2> QED BY <2>1, <2>2
<1>2. ASSUME route # NoRoute
      PROVE  route.in + reserved[Spends(route.dir)] <= Held(Spends(route.dir))'
  <2>1. PICK y \in Currencies : y = Spends(route.dir)
    BY <1>2, Sides DEF Inv, Typed, RouteOK
  <2>2. route.in \in Nat /\ reserved[y] \in Nat /\ route.in + reserved[y] <= Held(y)
    BY <1>2, <2>1 DEF Inv, Typed, RouteOK, Bounded
  <2>3. route.in + reserved[y] <= Held(y)'
    BY <2>2
  <2>4. Spends(route.dir)' = y
    BY <2>1 DEF Spends
  <2>5. Held(Spends(route.dir))' = Held(y)'
    BY <2>4 DEF Held, Spent
  <2> QED BY <2>1, <2>3, <2>5
<1>3. (Spends(route.dir))' = Spends(route.dir)
  BY DEF Spends
<1> QED BY <1>1, <1>2, <1>3 DEF Bounded

LEMMA LandsKeeps ==
  ASSUME Inv, NEW i \in 1..Len(sent), NEW r \in DOMAIN TipFractions, Lands(i, r) PROVE Inv'
<1> DEFINE o == sent[i]
           spent == Spends(o.dir)
           got == Gets(o.dir)
           cost == o.tip[r] + TxFee
           traded == [wallet EXCEPT ![spent] = @ - o.in, ![got] = @ + o.min]
           left == LeftOpen(o.dir)
           sol == traded["sol"] - cost + RentOf(accounts) - RentOf(left)
<1>0. sent' = [sent EXCEPT ![i].state = "landed"]
  BY DEF Lands, Landing
<1>1. /\ o.in \in 0..wallet[spent]
      /\ cost \in Nat /\ sol >= 0
      /\ wallet' = [traded EXCEPT !["sol"] = sol]
      /\ accounts' = left
      /\ open' = [open EXCEPT ![spent] = @ - o.in]
      /\ paid' = [paid EXCEPT ![spent] = @ + o.in]
      /\ costs' = costs + cost
      /\ UNCHANGED <<cex, fresh, pool, onChain, price, hot, hotGlobal, route, fetch, reserved>>
  BY DEF Lands, Landing, marketVars, loopVars, fetchVars
<1>2. o \in Orders
  BY DEF Inv, Typed
<1>3. o.dir \in Directions /\ o.in \in Nat /\ o.min \in Nat
  BY <1>2 DEF Orders
<1>4. spent \in Currencies /\ got \in Currencies /\ spent # got
  BY <1>3, Sides
<1>5. sent' \in Seq(Orders) /\ FloorReachable'
  BY <1>0, StateChange DEF Inv
<1>12. left \in SUBSET Currencies
  BY DEF LeftOpen
<1> HIDE DEF o, spent, got, cost, left
<1>6. /\ wallet \in [Currencies -> Nat] /\ paid \in [Currencies -> Nat]
      /\ open \in [Currencies -> Int] /\ costs \in Nat
  BY DEF Inv, Typed
<1>7. /\ traded \in [Currencies -> Nat]
      /\ traded[spent] = wallet[spent] - o.in /\ traded[got] = wallet[got] + o.min
      /\ \A cur \in Currencies : cur = spent \/ cur = got
  <2>1. wallet[spent] - o.in \in Nat /\ wallet[got] + o.min \in Nat
    <3>1. wallet[spent] \in Nat /\ wallet[got] \in Nat
      BY <1>4, <1>6
    <3>2. o.in \in 0..wallet[spent]
      BY <1>1
    <3> QED BY <1>3, <3>1, <3>2
  <2> QED BY <2>1, <1>4, <1>6 DEF Currencies
<1> HIDE DEF traded
<1>13. RentOf(accounts) \in Nat /\ RentOf(left) \in Nat
  BY <1>12, RentNat DEF Inv, Typed
<1>14. RentOf(accounts)' = RentOf(left)
  BY <1>1 DEF RentOf
<1> DEFINE a == RentOf(accounts)
           b == RentOf(left)
<1> HIDE DEF a, b
<1>15. sol = traded["sol"] - cost + a - b /\ a \in Nat /\ b \in Nat
  BY <1>13 DEF a, b
<1> HIDE DEF sol
<1>8. /\ wallet' \in [Currencies -> Nat] /\ costs' \in Nat /\ cost \in Nat
      /\ paid' \in [Currencies -> Nat] /\ open' \in [Currencies -> Int]
  <2>1. "sol" \in Currencies
    BY DEF Currencies
  <2>2. cost \in Nat /\ sol \in Nat
    BY <1>1, <1>7, <1>15, <2>1
  <2>3. wallet' \in [Currencies -> Nat]
    <3>1. wallet' = [traded EXCEPT !["sol"] = sol]
      BY <1>1
    <3> QED BY <1>7, <2>2, <3>1
  <2>5. costs' \in Nat
    BY <1>1, <1>6, <2>2
  <2>4. paid' \in [Currencies -> Nat] /\ open' \in [Currencies -> Int]
    <3>1. /\ open' = [open EXCEPT ![spent] = @ - o.in]
          /\ paid' = [paid EXCEPT ![spent] = @ + o.in]
      BY <1>1
    <3>2. open[spent] - o.in \in Int /\ paid[spent] + o.in \in Nat
      BY <1>3, <1>4, <1>6
    <3> QED BY <1>6, <3>1, <3>2
  <2> QED BY <2>2, <2>3, <2>4, <2>5
<1>9. \A cur \in Currencies : /\ Held(cur)' >= Held(cur)
                              /\ Held(cur) \in Nat /\ Held(cur)' \in Nat
                              /\ open'[cur] + paid'[cur] <= open[cur] + paid[cur]
                              /\ open'[cur] + paid'[cur] \in Int
  <2> SUFFICES ASSUME NEW cur \in Currencies
               PROVE  /\ Held(cur)' >= Held(cur)
                      /\ Held(cur) \in Nat /\ Held(cur)' \in Nat
                      /\ open'[cur] + paid'[cur] <= open[cur] + paid[cur]
                      /\ open'[cur] + paid'[cur] \in Int
    OBVIOUS
  <2>1. wallet'[cur] + (IF cur = "sol" THEN costs' + b ELSE 0)
          = traded[cur] + (IF cur = "sol" THEN costs + a ELSE 0)
    <3>1. wallet' = [traded EXCEPT !["sol"] = sol]
      BY <1>1
    <3>2. CASE cur = "sol"
      <4>1. wallet'["sol"] = sol
        BY <3>1, <3>2, <1>7
      <4>2. traded["sol"] \in Nat
        BY <3>2, <1>7
      <4>3. costs \in Nat /\ costs' = costs + cost /\ cost \in Nat
        BY <1>1, <1>6, <1>8
      <4>4. sol + (costs' + b) = traded["sol"] + (costs + a)
        BY <4>2, <4>3, <1>15
      <4> QED BY <3>2, <4>1, <4>4
    <3>3. CASE cur # "sol"
      BY <3>1, <3>3, <1>7
    <3> QED BY <3>2, <3>3
  <2>2. /\ traded[cur] + paid'[cur] >= wallet[cur] + paid[cur]
        /\ open'[cur] + paid'[cur] = open[cur] + paid[cur]
    <3>0. /\ open' = [open EXCEPT ![spent] = @ - o.in]
          /\ paid' = [paid EXCEPT ![spent] = @ + o.in]
          /\ wallet[cur] \in Nat /\ paid[cur] \in Nat /\ open[cur] \in Int
      BY <1>1, <1>6
    <3>1. CASE cur = spent
      <4>1. open'[cur] = open[cur] - o.in /\ paid'[cur] = paid[cur] + o.in
        BY <3>0, <3>1, <1>6
      <4>2. traded[cur] = wallet[cur] - o.in
        BY <3>1, <1>7
      <4> QED BY <3>0, <4>1, <4>2, <1>3
    <3>2. CASE cur # spent
      <4>1. open'[cur] = open[cur] /\ paid'[cur] = paid[cur]
        BY <3>0, <3>2, <1>6
      <4>2. traded[cur] = wallet[cur] + o.min
        BY <3>2, <1>7
      <4> QED BY <3>0, <4>1, <4>2, <1>3
    <3> QED BY <3>1, <3>2
  <2>3. /\ wallet[cur] \in Nat /\ wallet'[cur] \in Nat /\ paid[cur] \in Nat /\ paid'[cur] \in Nat
        /\ traded[cur] \in Nat /\ open[cur] \in Int /\ open'[cur] \in Int
    BY <1>6, <1>7, <1>8
  <2> DEFINE c == IF cur = "sol" THEN costs + a ELSE 0
             d == IF cur = "sol" THEN costs' + b ELSE 0
  <2>4. c \in Nat /\ d \in Nat
    <3>1. costs \in Nat /\ costs' \in Nat /\ a \in Nat /\ b \in Nat
      BY <1>6, <1>8, <1>15
    <3>2. costs + a \in Nat /\ costs' + b \in Nat
      BY <3>1, SumNat
    <3> QED BY <3>2
  <2>5. Held(cur) = wallet[cur] + (paid[cur] + c) /\ Held(cur)' = wallet'[cur] + (paid'[cur] + d)
    BY <1>14 DEF Held, Spent, Paying, a, b
  <2>6. wallet'[cur] + d = traded[cur] + c
    BY <2>1
  <2> HIDE DEF c, d
  <2>7. /\ wallet'[cur] + (paid'[cur] + d) >= wallet[cur] + (paid[cur] + c)
        /\ wallet'[cur] + (paid'[cur] + d) \in Nat /\ wallet[cur] + (paid[cur] + c) \in Nat
    <3>1. c \in Nat /\ d \in Nat /\ wallet[cur] \in Nat /\ wallet'[cur] \in Nat
          /\ paid[cur] \in Nat /\ paid'[cur] \in Nat /\ traded[cur] \in Nat
      BY <2>3, <2>4
    <3>2. wallet'[cur] + d = traded[cur] + c
      BY <2>6
    <3>3. traded[cur] + paid'[cur] >= wallet[cur] + paid[cur]
      BY <2>2
    <3> DEFINE w == wallet[cur]
               w1 == wallet'[cur]
               p == paid[cur]
               p1 == paid'[cur]
               t == traded[cur]
    <3>4. /\ c \in Nat /\ d \in Nat /\ w \in Nat /\ w1 \in Nat /\ p \in Nat /\ p1 \in Nat
          /\ t \in Nat /\ w1 + d = t + c /\ t + p1 >= w + p
      BY <3>1, <3>2, <3>3
    <3> HIDE DEF w, w1, p, p1, t
    <3>5. /\ w1 + (p1 + d) >= w + (p + c)
          /\ w1 + (p1 + d) \in Nat /\ w + (p + c) \in Nat
      BY <3>4
    <3> QED BY <3>5 DEF w, w1, p, p1
  <2>8. /\ open'[cur] + paid'[cur] <= open[cur] + paid[cur]
        /\ open'[cur] + paid'[cur] \in Int
    BY <2>2, <2>3
  <2> QED BY <2>5, <2>7, <2>8
<1>10. Typed'
  BY <1>1, <1>5, <1>8, <1>12 DEF Inv, Typed, RouteOK
<1>11. Bounded'
  BY <1>1, <1>9, HeldGrows
<1> QED BY <1>5, <1>10, <1>11 DEF Inv

LEMMA DiesKeeps == ASSUME Inv, NEW i \in 1..Len(sent), Dies(i) PROVE Inv'
<1> DEFINE o == sent[i]
           spent == Spends(o.dir)
<1>0. sent' = [sent EXCEPT ![i].state = "dead"]
  BY DEF Dies
<1>1. /\ open' = [open EXCEPT ![spent] = @ - o.in]
      /\ UNCHANGED <<cex, fresh, pool, onChain, reserved, route, fetch, wallet, accounts, paid, costs>>
  BY DEF Dies, marketVars, invVars, loopVars, fetchVars
<1>2. o \in Orders
  BY DEF Inv, Typed
<1>3. o.dir \in Directions /\ o.in \in Nat
  BY <1>2 DEF Orders
<1>4. spent \in Currencies
  BY <1>3, Sides
<1>5. sent' \in Seq(Orders) /\ FloorReachable'
  BY <1>0, StateChange DEF Inv
<1> HIDE DEF o, spent
<1>6. /\ wallet \in [Currencies -> Nat] /\ paid \in [Currencies -> Nat]
      /\ open \in [Currencies -> Int] /\ costs \in Nat
  BY DEF Inv, Typed
<1>7. open' \in [Currencies -> Int] /\ \A cur \in Currencies : open'[cur] <= open[cur]
  BY <1>1, <1>3, <1>4, <1>6
<1>8. Typed'
  BY <1>1, <1>5, <1>7 DEF Inv, Typed, RouteOK
<1>9. \A cur \in Currencies : Held(cur)' = Held(cur) /\ Held(cur) \in Nat
  BY <1>1, HeldNat, HeldSame DEF Inv
<1>10. \A cur \in Currencies : /\ open'[cur] + paid'[cur] <= open[cur] + paid[cur]
                               /\ open'[cur] + paid'[cur] \in Int
  <2> SUFFICES ASSUME NEW cur \in Currencies
               PROVE  /\ open'[cur] + paid[cur] <= open[cur] + paid[cur]
                      /\ open'[cur] + paid[cur] \in Int
    BY <1>1
  <2>1. open'[cur] \in Int /\ open[cur] \in Int /\ paid[cur] \in Nat /\ open'[cur] <= open[cur]
    BY <1>6, <1>7
  <2> QED BY <2>1
<1>11. Bounded'
  BY <1>1, <1>9, <1>10, HeldGrows
<1> QED BY <1>5, <1>8, <1>11 DEF Inv

\* Steps of the market and of the loop that move no amount.
LEMMA NothingMoves ==
  ASSUME Inv, UNCHANGED <<onChain, reserved, chainVars, sent, fetch>>,
         route' \in {route, NoRoute}, pool' \in [Pools -> [sol : Nat, usdc : Nat]],
         cex' = cex \/ (cex' \in Books /\ cex'.bid <= cex'.ask)
  PROVE  Inv'
<1>1. UNCHANGED <<onChain, reserved, wallet, accounts, open, paid, costs, sent, fetch>>
  BY DEF chainVars
<1>2. RouteOK'
  BY DEF Inv, Typed, RouteOK
<1>3. Typed'
  BY <1>1, <1>2 DEF Inv, Typed
<1>4. Bounded'
  <2>1. route # NoRoute => Spends(route.dir) \in Currencies
    BY Sides DEF Inv, Typed, RouteOK
  <2>2. (Spends(route.dir))' = Spends(route'.dir)
    BY DEF Spends
  <2> QED BY <1>1, <2>1, <2>2, HeldSame DEF Inv, Bounded
<1>5. FloorReachable'
  BY <1>1 DEF Inv, FloorReachable
<1> QED BY <1>3, <1>4, <1>5 DEF Inv

LEMMA MarketKeeps ==
  ASSUME Inv,
         \/ \E b \in Books : BookTicker(b)
         \/ PriceAges
         \/ \E p \in Pools : PoolMoves(p)
  PROVE  Inv'
<1>0. pool \in [Pools -> [sol : Nat, usdc : Nat]]
  BY DEF Inv, Typed
<1>1. ASSUME NEW b \in Books, BookTicker(b) PROVE Inv'
  <2>1. /\ UNCHANGED <<onChain, reserved, chainVars, sent, fetch, route, pool>>
        /\ cex' = cex \/ (cex' \in Books /\ cex'.bid <= cex'.ask)
    BY <1>1 DEF BookTicker, Accepts, invVars, loopVars, fetchVars
  <2> QED BY <1>0, <2>1, NothingMoves
<1>2. CASE PriceAges
  BY <1>0, <1>2, NothingMoves DEF PriceAges, invVars, loopVars, fetchVars
<1>3. ASSUME NEW p \in Pools, PoolMoves(p) PROVE Inv'
  <2>1. UNCHANGED <<onChain, reserved, chainVars, sent, fetch, route, cex>>
    BY <1>3 DEF PoolMoves, invVars, loopVars, fetchVars
  <2>2. PICK q \in Reserves[p] : pool' = [pool EXCEPT ![p] = q]
    BY <1>3 DEF PoolMoves
  <2>3. q \in [sol : Nat, usdc : Nat]
    BY DeskAssumption DEF Pools
  <2>4. pool' \in [Pools -> [sol : Nat, usdc : Nat]]
    BY <1>0, <2>2, <2>3
  <2> QED BY <2>1, <2>4, NothingMoves
<1> QED BY <1>1, <1>2, <1>3

LEMMA LoopKeeps ==
  ASSUME Inv,
         \/ PassPrice \/ GiveUp \/ CooldownEnds \/ UNCHANGED vars
         \/ \E x \in Pools \X Directions : WindowEnds(x)
  PROVE  Inv'
<1>0. pool \in [Pools -> [sol : Nat, usdc : Nat]]
  BY DEF Inv, Typed
<1>1. UNCHANGED <<onChain, reserved, chainVars, sent, fetch, cex, pool>> /\ route' \in {route, NoRoute}
  BY DEF PassPrice, GiveUp, CooldownEnds, WindowEnds, marketVars, invVars, loopVars, fetchVars, vars
<1> QED BY <1>0, <1>1, NothingMoves

----------------------------------------------------------------------------
(* Refreshes.                                                              *)

\* A refresh that has read no more than is held, and stores no more than that.
LEMMA FetchStep ==
  ASSUME Inv, NEW f \in 0..MaxRefreshes, NEW v \in Fetches,
         fetch' = [fetch EXCEPT ![f] = v],
         \A cur \in Currencies : v.got[cur] <= Held(cur),
         onChain' \in [Currencies -> Nat], \A cur \in Currencies : onChain'[cur] <= Held(cur),
         UNCHANGED <<marketVars, reserved, loopVars, sent, chainVars>>
  PROVE  Inv'
<1>1. UNCHANGED <<cex, pool, reserved, route, sent, wallet, accounts, open, paid, costs>>
  BY DEF marketVars, loopVars, chainVars
<1>2. fetch \in [0..MaxRefreshes -> Fetches]
  BY DEF Inv, Typed
<1>3. fetch' \in [0..MaxRefreshes -> Fetches]
  BY <1>2
<1>4. Typed'
  BY <1>1, <1>3 DEF Inv, Typed, RouteOK
<1>5. \A cur \in Currencies : Held(cur)' = Held(cur)
  BY <1>1, HeldSame
<1>6. \A cur \in Currencies, g \in 0..MaxRefreshes : fetch'[g].got[cur] <= Held(cur)'
  <2> SUFFICES ASSUME NEW cur \in Currencies, NEW g \in 0..MaxRefreshes
               PROVE  fetch'[g].got[cur] <= Held(cur)
    BY <1>5
  <2>1. CASE g = f
    BY <2>1, <1>2
  <2>2. CASE g # f
    BY <2>2, <1>2 DEF Inv, Bounded
  <2> QED BY <2>1, <2>2
<1>7. route # NoRoute => route.in + reserved[Spends(route.dir)] <= Held(Spends(route.dir))'
  <2>1. Held(Spends(route.dir))' = Held(Spends(route.dir))
    BY <1>1 DEF Held, Spent, Paying, RentOf, Spends
  <2> QED BY <2>1 DEF Inv, Bounded
<1>8. Bounded'
  <2>1. (Spends(route.dir))' = Spends(route.dir)
    BY <1>1 DEF Spends
  <2>2. \A cur \in Currencies : /\ reserved'[cur] <= Held(cur)' /\ onChain'[cur] <= Held(cur)'
                                /\ open'[cur] + paid'[cur] <= reserved'[cur]
    BY <1>1, <1>5 DEF Inv, Bounded
  <2> QED BY <1>1, <1>6, <1>7, <2>1, <2>2 DEF Bounded
<1>9. FloorReachable'
  BY <1>1 DEF Inv, FloorReachable
<1> QED BY <1>4, <1>8, <1>9 DEF Inv

LEMMA StartKeeps == ASSUME Inv, StartFetch PROVE Inv'
<1>1. 0 \in 0..MaxRefreshes
  BY DeskAssumption
<1>2. /\ fetch' = [fetch EXCEPT ![0].at = "sol"]
      /\ UNCHANGED <<marketVars, onChain, reserved, loopVars, sent, chainVars>>
  BY DEF StartFetch, invVars
<1>3. fetch \in [0..MaxRefreshes -> Fetches] /\ onChain \in [Currencies -> Nat]
  BY DEF Inv, Typed
<1> DEFINE v == [fetch[0] EXCEPT !.at = "sol"]
<1>4. fetch[0] \in Fetches
  BY <1>1, <1>3
<1>5. v \in Fetches /\ v.got = fetch[0].got
  BY <1>4 DEF Fetches
<1>6. fetch' = [fetch EXCEPT ![0] = v]
  BY <1>2
<1>7. \A cur \in Currencies : fetch[0].got[cur] <= Held(cur) /\ onChain[cur] <= Held(cur)
  BY <1>1 DEF Inv, Bounded
<1> HIDE DEF v
<1> QED BY <1>1, <1>2, <1>3, <1>5, <1>6, <1>7, FetchStep

LEMMA RefreshKeeps == ASSUME Inv, NEW f \in 0..MaxRefreshes, Refresh(f) PROVE Inv'
<1>1. fetch \in [0..MaxRefreshes -> Fetches] /\ onChain \in [Currencies -> Nat]
      /\ wallet \in [Currencies -> Nat]
  BY DEF Inv, Typed
<1>2. fetch[f] \in Fetches
  BY <1>1
<1>3. \A cur \in Currencies : /\ fetch[f].got[cur] \in Nat /\ fetch[f].got[cur] <= Held(cur)
                              /\ onChain[cur] <= Held(cur)
  BY <1>2 DEF Fetches, Inv, Bounded
<1>4. \A cur \in Currencies : Held(cur) \in Nat /\ wallet[cur] \in Nat /\ wallet[cur] <= Held(cur)
  BY <1>1, HeldNat DEF Inv
<1>5. Idle \in Fetches /\ \A cur \in Currencies : Idle.got[cur] <= Held(cur)
  BY <1>4 DEF Idle, Fetches
<1>6. ASSUME NEW cur \in Currencies, NEW n \in Nat, n <= Held(cur), cur = fetch[f].at,
             Reads(f, n), UNCHANGED <<marketVars, invVars, loopVars, sent, chainVars>>
      PROVE  Inv'
  <2> DEFINE v == [at |-> NextStep(cur), got |-> [fetch[f].got EXCEPT ![cur] = n]]
  <2>1. NextStep(cur) \in {"usdc", "storeSol"}
    BY DEF NextStep
  <2>2. fetch[f].got \in [Currencies -> Nat]
    BY <1>2 DEF Fetches
  <2>3. v \in Fetches
    BY <2>1, <2>2 DEF Fetches
  <2>4. fetch' = [fetch EXCEPT ![f] = v]
    BY <1>6 DEF Reads
  <2>5. \A c \in Currencies : v.got[c] <= Held(c)
    BY <1>3, <1>6, <2>2
  <2>6. UNCHANGED <<marketVars, onChain, reserved, loopVars, sent, chainVars>>
    BY <1>6 DEF invVars
  <2> HIDE DEF v
  <2> QED BY <1>1, <1>3, <2>3, <2>4, <2>5, <2>6, FetchStep
<1>7. CASE Answered(f)
  <2>1. /\ fetch[f].at \in Currencies
        /\ Reads(f, wallet[fetch[f].at])
        /\ UNCHANGED <<marketVars, invVars, loopVars, sent, chainVars>>
    BY <1>7 DEF Answered, Asks
  <2> QED BY <2>1, <1>4, <1>6
<1>8. CASE AnsweredZero(f)
  <2>1. /\ fetch[f].at \in Currencies
        /\ Reads(f, 0)
        /\ UNCHANGED <<marketVars, invVars, loopVars, sent, chainVars>>
    BY <1>8 DEF AnsweredZero, Asks
  <2> QED BY <2>1, <1>4, <1>6
<1>9. CASE FetchFails(f)
  <2>1. /\ fetch' = [fetch EXCEPT ![f] = Idle]
        /\ UNCHANGED <<marketVars, onChain, reserved, loopVars, sent, chainVars>>
    BY <1>9 DEF FetchFails, invVars
  <2> QED BY <2>1, <1>1, <1>3, <1>5, FetchStep
<1>10. CASE StoreSol(f)
  <2> DEFINE v == [at |-> "storeUsdc", got |-> [fetch[f].got EXCEPT !["sol"] = 0]]
  <2>1. /\ onChain' = [onChain EXCEPT !["sol"] = fetch[f].got["sol"]]
        /\ fetch' = [fetch EXCEPT ![f] = v]
        /\ UNCHANGED <<marketVars, reserved, loopVars, sent, chainVars>>
    BY <1>10 DEF StoreSol
  <2>2. fetch[f].got \in [Currencies -> Nat]
    BY <1>2 DEF Fetches
  <2>3. v \in Fetches
    BY <2>2 DEF Fetches
  <2>5. \A c \in Currencies : v.got[c] <= Held(c)
    BY <1>3, <1>4, <2>2
  <2>6. onChain' \in [Currencies -> Nat] /\ \A c \in Currencies : onChain'[c] <= Held(c)
    BY <1>1, <1>3, <2>1, <2>2
  <2> HIDE DEF v
  <2> QED BY <2>1, <2>3, <2>5, <2>6, FetchStep
<1>11. CASE StoreUsdc(f)
  <2>1. /\ onChain' = [onChain EXCEPT !["usdc"] = fetch[f].got["usdc"]]
        /\ fetch' = [fetch EXCEPT ![f] = Idle]
        /\ UNCHANGED <<marketVars, reserved, loopVars, sent, chainVars>>
    BY <1>11 DEF StoreUsdc
  <2>2. fetch[f].got \in [Currencies -> Nat]
    BY <1>2 DEF Fetches
  <2>3. onChain' \in [Currencies -> Nat] /\ \A c \in Currencies : onChain'[c] <= Held(c)
    BY <1>1, <1>3, <2>1, <2>2
  <2> QED BY <2>1, <2>3, <1>5, FetchStep
<1> QED BY <1>7, <1>8, <1>9, <1>10, <1>11 DEF Refresh

----------------------------------------------------------------------------
(* Tips.                                                                   *)

\* A set of naturals that is bounded has a largest element.
LEMMA LargestExists ==
  ASSUME NEW S, S \subseteq Nat, S # {}, NEW top \in Nat, \A x \in S : x <= top
  PROVE  \E x \in S : \A y \in S : y <= x
<1> DEFINE T == {n \in Nat : top - n \in S}
<1>1. T \subseteq Nat /\ T # {}
  <2>1. PICK x \in S : TRUE
    OBVIOUS
  <2>2. x \in Nat /\ top - x \in Nat /\ top - (top - x) = x
    BY <2>1
  <2> QED BY <2>1, <2>2
<1>2. PICK n \in T : \A m \in T : ~ (<<m, n>> \in OpToRel(<, Nat))
  <2> HIDE DEF T
  <2> QED BY <1>1, NatLessThanWellFounded, WFMin
<1>3. \A m \in T : ~ (m < n)
  BY <1>1, <1>2 DEF OpToRel
<1>4. ASSUME NEW y \in S PROVE y <= top - n
  <2>1. y \in Nat /\ top - y \in Nat /\ top - (top - y) = y /\ n \in Nat
    BY <1>1
  <2>2. top - y \in T
    BY <2>1
  <2>3. ~ (top - y < n)
    BY <1>3, <2>2
  <2> QED BY <2>1, <2>3
<1> QED BY <1>4

\* The simulator's fraction is one of the relays', and none is larger.
LEMMA MaxFraction ==
  /\ MaxTipFraction \in 1..TipDen
  /\ \A r \in DOMAIN TipFractions : TipFractions[r] <= MaxTipFraction
<1> DEFINE S == {TipFractions[r] : r \in DOMAIN TipFractions}
<1>1. S \subseteq 1..TipDen /\ S # {} /\ TipDen \in Nat
  BY DeskAssumption
<1>2. \E x \in S : \A y \in S : x >= y
  <2> HIDE DEF S
  <2>1. S \subseteq Nat /\ \A x \in S : x <= TipDen
    BY <1>1
  <2>2. PICK x \in S : \A y \in S : y <= x
    BY <1>1, <2>1, LargestExists
  <2> QED BY <2>1, <2>2
<1>3. Max(S) \in S /\ \A y \in S : Max(S) >= y
  <2> HIDE DEF S
  <2> QED BY <1>2 DEF Max
<1> QED BY <1>1, <1>3 DEF MaxTipFraction

\* The least tip is worth no more than MinProfitUsd at any price that is accepted:
\* 1_000 lamports, and CEXDEX_MIN_PROFIT_USD is 10 cents unless it is set.
ProfitPaysTip == \A b \in Books : Accepts(b) => MinTip * (b.bid + b.ask) <= 2 * MinProfitUsd

\* What is left of D parts of a after m of them is more than d parts of y, and those
\* m are at least d parts of x: a is more than both together.
LEMMA PartsLeft ==
  ASSUME NEW a \in Nat, NEW d \in Nat \ {0}, NEW m \in 0..d, NEW x \in Nat, NEW y \in Nat,
         \/ a * (d - m) > y * d /\ a * m >= x * d
         \/ a * (d - m) >= (x + y) * d /\ a * m > 0
  PROVE  a > x + y
<1>1. a * (d - m) + a * m = a * d
  OBVIOUS
<1>2. /\ a * (d - m) \in Nat /\ a * m \in Nat /\ a * d \in Nat
      /\ x * d \in Nat /\ y * d \in Nat /\ (x + y) * d \in Nat
  BY MulNat
<1>3. (x + y) * d = x * d + y * d
  OBVIOUS
<1>4. a * d > (x + y) * d
  BY <1>1, <1>2, <1>3
<1>5. ASSUME a <= x + y PROVE FALSE
  BY <1>2, <1>4, <1>5, MulMono
<1> QED BY <1>5

\* What the simulator lets through pays any relay's tip and the fee.
LEMMA TipCovered ==
  ASSUME ProfitPaysTip, NEW b \in Books, b.bid <= b.ask, NEW r \in DOMAIN TipFractions,
         NEW adjusted \in Nat,
         WorstNet(adjusted, b) > 0,
         WorstNet(adjusted, b) >= 2 * MinProfitUsd * Slippage[2] * TipDen
  PROVE  2 * adjusted > (TipFor(r, adjusted, b) + TxFee) * (b.bid + b.ask) * Slippage[2]
<1> DEFINE a == 2 * adjusted
           k == (b.bid + b.ask) * Slippage[2]
           m == MaxTipFraction
           share == (a * TipFractions[r]) \div (Slippage[2] * (b.bid + b.ask) * TipDen)
<1>1. /\ TipDen \in Nat \ {0} /\ MinTip \in Nat /\ TxFee \in Nat /\ MinProfitUsd \in Nat
      /\ Slippage[2] \in Nat \ {0} /\ b.bid + b.ask \in Nat \ {0} /\ TipFractions[r] \in Nat \ {0}
  BY DeskAssumption, SlippageFacts, BookFacts
<1>2. m \in 1..TipDen /\ TipFractions[r] <= m
  BY MaxFraction
<1>3. a \in Nat /\ k \in Nat \ {0}
  BY <1>1, MulPos
<1>4. TxFee * k \in Nat /\ MinTip * k \in Nat /\ a * (TipDen - m) \in Nat /\ (TxFee * k) * TipDen \in Nat
  BY <1>1, <1>2, <1>3, MulNat
<1>5. WorstNet(adjusted, b) = a * (TipDen - m) - (TxFee * k) * TipDen
  <2>1. TxFee * (b.bid + b.ask) * Slippage[2] * TipDen = (TxFee * k) * TipDen
    BY <1>1
  <2> QED BY <2>1 DEF WorstNet
<1>6. a * (TipDen - m) > (TxFee * k) * TipDen
  BY <1>4, <1>5
<1>7. TipFor(r, adjusted, b) = IF share > MinTip THEN share ELSE MinTip
  BY DEF TipFor
<1>8. share \in Nat /\ (share * k) * TipDen <= a * TipFractions[r]
  <2> DEFINE c == Slippage[2] * (b.bid + b.ask) * TipDen
  <2>1. c \in Nat \ {0} /\ a * TipFractions[r] \in Nat
    BY <1>1, <1>3, MulPos, MulNat
  <2>2. share = (a * TipFractions[r]) \div c
    OBVIOUS
  <2>3. c = k * TipDen
    BY <1>1
  <2> HIDE DEF c, share, a
  <2>4. share \in Nat /\ c * share <= a * TipFractions[r]
    BY <2>1, <2>2, DivNat, DivMul
  <2>5. c * share = (share * k) * TipDen
    BY <1>1, <1>3, <2>3, <2>4
  <2> QED BY <2>4, <2>5
<1> HIDE DEF a, k, m, share
<1>9. CASE share > MinTip
  <2>1. a * TipFractions[r] <= a * m /\ a * m \in Nat
    <3>1. TipFractions[r] * a <= m * a
      BY <1>1, <1>2, <1>3, MulMono
    <3> QED BY <1>1, <1>2, <1>3, <3>1, MulNat
  <2>2. a * m >= (share * k) * TipDen /\ share * k \in Nat
    BY <1>1, <1>3, <1>8, <2>1, MulNat
  <2>3. a > share * k + TxFee * k
    <3> DEFINE x == share * k
               y == TxFee * k
    <3>1. /\ x \in Nat /\ y \in Nat /\ a \in Nat /\ TipDen \in Nat \ {0} /\ m \in 0..TipDen
          /\ a * (TipDen - m) > y * TipDen /\ a * m >= x * TipDen
      BY <1>1, <1>2, <1>3, <1>4, <1>6, <2>2
    <3> HIDE DEF x, y
    <3>2. a > x + y
      BY <3>1, PartsLeft
    <3> QED BY <3>2 DEF x, y
  <2>4. (share + TxFee) * k = share * k + TxFee * k
    BY <1>1, <1>3, <1>8
  <2>5. a > (TipFor(r, adjusted, b) + TxFee) * k
    BY <1>7, <1>9, <2>3, <2>4
  <2>6. TipFor(r, adjusted, b) \in Nat
    BY <1>7, <1>8, <1>9
  <2>7. (TipFor(r, adjusted, b) + TxFee) * k = (TipFor(r, adjusted, b) + TxFee) * (b.bid + b.ask) * Slippage[2]
    BY <1>1, <2>6 DEF k
  <2> QED BY <2>5, <2>7 DEF a
<1>10. CASE ~ (share > MinTip)
  <2>1. MinTip * (b.bid + b.ask) <= 2 * MinProfitUsd
    BY DEF ProfitPaysTip, Accepts
  <2>2. (MinTip * k) * TipDen <= 2 * MinProfitUsd * Slippage[2] * TipDen
    <3>1. MinTip * (b.bid + b.ask) \in Nat /\ 2 * MinProfitUsd \in Nat
      BY <1>1, MulNat
    <3>2. /\ (MinTip * (b.bid + b.ask)) * Slippage[2] <= (2 * MinProfitUsd) * Slippage[2]
          /\ (MinTip * (b.bid + b.ask)) * Slippage[2] \in Nat /\ (2 * MinProfitUsd) * Slippage[2] \in Nat
      BY <1>1, <2>1, <3>1, MulMono, MulNat
    <3>3. (MinTip * (b.bid + b.ask)) * Slippage[2] = MinTip * k
      BY <1>1 DEF k
    <3> QED BY <1>1, <3>2, <3>3, MulMono
  <2>3. /\ (MinTip * k) * TipDen \in Nat
        /\ (MinTip * k + TxFee * k) * TipDen = (MinTip * k) * TipDen + (TxFee * k) * TipDen
    BY <1>1, <1>4, MulNat
  <2>4. a * (TipDen - m) >= (MinTip * k + TxFee * k) * TipDen
    <3>1. 2 * MinProfitUsd * Slippage[2] * TipDen \in Nat
      BY <1>1, MulNat
    <3> QED BY <1>4, <1>5, <2>2, <2>3, <3>1
  <2>5. a * m > 0
    <3>1. a # 0
      <4>1. 0 * (TipDen - m) = 0
        BY <1>1, <1>2
      <4> QED BY <1>4, <1>6, <4>1
    <3>2. m \in Nat \ {0}
      BY <1>1, <1>2
    <3> QED BY <1>3, <3>1, <3>2, MulPos
  <2>6. a > MinTip * k + TxFee * k
    <3> DEFINE x == MinTip * k
               y == TxFee * k
    <3>1. /\ x \in Nat /\ y \in Nat /\ a \in Nat /\ TipDen \in Nat \ {0} /\ m \in 0..TipDen
          /\ a * (TipDen - m) >= (x + y) * TipDen /\ a * m > 0
      BY <1>1, <1>2, <1>3, <1>4, <2>4, <2>5
    <3> HIDE DEF x, y
    <3>2. a > x + y
      BY <3>1, PartsLeft
    <3> QED BY <3>2 DEF x, y
  <2>7. (MinTip + TxFee) * k = MinTip * k + TxFee * k
    BY <1>1, <1>3
  <2>8. a > (TipFor(r, adjusted, b) + TxFee) * k
    BY <1>7, <1>10, <2>6, <2>7
  <2>9. (MinTip + TxFee) * k = (MinTip + TxFee) * (b.bid + b.ask) * Slippage[2]
    BY <1>1 DEF k
  <2> QED BY <1>7, <1>10, <2>8, <2>9 DEF a
<1> QED BY <1>9, <1>10

----------------------------------------------------------------------------
(* The theorems.                                                           *)

LEMMA StepKeeps == ASSUME Inv, [Next]_vars PROVE Inv'
<1>1. CASE \/ \E b \in Books : BookTicker(b)
           \/ PriceAges
           \/ \E p \in Pools : PoolMoves(p)
  BY <1>1, MarketKeeps
<1>2. CASE \/ PassPrice \/ GiveUp \/ CooldownEnds \/ UNCHANGED vars
           \/ \E x \in Pools \X Directions : WindowEnds(x)
  BY <1>2, LoopKeeps
<1>3. CASE Detect
  BY <1>3, DetectKeeps
<1>4. CASE Dispatch
  BY <1>4, DispatchKeeps
<1>5. CASE StartFetch
  BY <1>5, StartKeeps
<1>6. CASE \E f \in 0..MaxRefreshes : Refresh(f)
  BY <1>6, RefreshKeeps
<1>7. CASE \E i \in 1..Len(sent) : Dies(i) \/ \E r \in DOMAIN TipFractions : Lands(i, r)
  BY <1>7, DiesKeeps, LandsKeeps
<1> QED BY <1>1, <1>2, <1>3, <1>4, <1>5, <1>6, <1>7 DEF Next

\* Only a dispatch makes an order that the property is not known to hold of.
LEMMA SameOrders == ASSUME TipsPaidFromProfit, sent' = sent PROVE TipsPaidFromProfit'
BY DEF TipsPaidFromProfit

\* Every step keeps every order's tips affordable.
LEMMA TipsKept ==
  ASSUME ProfitPaysTip, Inv, Inv', TipsPaidFromProfit, [Next]_vars
  PROVE  TipsPaidFromProfit'
<1> DEFINE Paid(o) == \A r \in DOMAIN TipFractions :
                        2 * o.profit > (o.tip[r] + TxFee) * (o.at.bid + o.at.ask) * Slippage[2]
<1>1. \A i \in 1..Len(sent) : Paid(sent[i])
  BY DEF TipsPaidFromProfit, Inv, Typed
<1>2. sent \in Seq(Orders) /\ sent' \in Seq(Orders)
  BY DEF Inv, Typed
<1>3. CASE Dispatch
  <2> DEFINE s == Simulate(route)
             out == PoolPays(pool[route.pool], route.dir, route.in)
             gross == GrossUsd(route.dir, route.in, out, cex)
             order == [dir |-> route.dir, in |-> route.in, out |-> s.out, min |-> s.min,
                       profit |-> s.profit, at |-> cex,
                       tip |-> [r \in DOMAIN TipFractions |-> TipFor(r, s.profit, cex)],
                       state |-> "live"]
  <2>1. route # NoRoute /\ s.ok /\ sent' = Append(sent, order)
    BY <1>3 DEF Dispatch
  <2>2. s.profit \in Int
    BY <2>1, Simulated DEF Inv
  <2>3. s.profit = Discounted(gross) /\ gross > 0
        /\ WorstNet(s.profit, cex) > 0
        /\ WorstNet(s.profit, cex) >= 2 * MinProfitUsd * Slippage[2] * TipDen
    BY <2>1 DEF Simulate
  <2>4. cex \in Books /\ cex.bid <= cex.ask
    BY <2>1 DEF Inv, Typed, RouteOK
  <2>5. gross \in Int
    <3>1. /\ route.dir \in Directions /\ route.in \in Nat \ {0}
          /\ pool[route.pool] \in [sol : Nat, usdc : Nat]
      BY <2>1 DEF Inv, Typed, RouteOK
    <3>2. out \in Nat
      BY <3>1, PaysNat
    <3> HIDE DEF out
    <3> QED BY <2>4, <3>1, <3>2, BookFacts, MulInt DEF GrossUsd
  <2>6. s.profit \in Nat
    <3> HIDE DEF gross
    <3> QED BY <2>3, <2>5, SlippageFacts, MulNat DEF Discounted
  <2> HIDE DEF s, gross
  <2>7. \A r \in DOMAIN TipFractions :
          2 * s.profit > (TipFor(r, s.profit, cex) + TxFee) * (cex.bid + cex.ask) * Slippage[2]
    BY <2>3, <2>4, <2>6, TipCovered
  <2>8. Paid(order)
    BY <2>7
  <2> HIDE DEF order, Paid
  <2>9. Len(sent') = Len(sent) + 1 /\ sent'[Len(sent) + 1] = order
        /\ \A i \in 1..Len(sent) : sent'[i] = sent[i]
    BY <1>2, <2>1
  <2>10. \A i \in 1..Len(sent') : Paid(sent'[i])
    BY <1>1, <1>2, <2>8, <2>9
  <2> QED BY <1>2, <2>10 DEF TipsPaidFromProfit, Paid
<1>4. ASSUME NEW i \in 1..Len(sent), NEW st \in {"landed", "dead"}, sent' = [sent EXCEPT ![i].state = st]
      PROVE  TipsPaidFromProfit'
  <2>1. sent[i] \in Orders
    BY <1>2
  <2>2. Paid([sent[i] EXCEPT !.state = st])
    BY <1>1, <2>1 DEF Orders
  <2> HIDE DEF Paid
  <2>3. /\ \A j \in 1..Len(sent) : sent'[j] = IF j = i THEN [sent[i] EXCEPT !.state = st] ELSE sent[j]
        /\ Len(sent') = Len(sent)
    BY <1>2, <1>4
  <2>4. \A j \in 1..Len(sent') : Paid(sent'[j])
    BY <1>1, <2>2, <2>3
  <2> QED BY <1>2, <2>4 DEF TipsPaidFromProfit, Paid
<1>5. CASE \E i \in 1..Len(sent) : Dies(i) \/ \E r \in DOMAIN TipFractions : Lands(i, r)
  BY <1>4, <1>5 DEF Dies, Lands, Landing
<1>6. CASE sent' = sent
  BY <1>6, SameOrders
<1>7. CASE \/ \E b \in Books : BookTicker(b)
           \/ PriceAges \/ PassPrice \/ Detect \/ GiveUp \/ CooldownEnds \/ StartFetch
           \/ \E p \in Pools : PoolMoves(p)
           \/ \E x \in Pools \X Directions : WindowEnds(x)
  BY <1>6, <1>7 DEF BookTicker, PriceAges, PassPrice, Detect, GiveUp, CooldownEnds, StartFetch,
                    PoolMoves, WindowEnds
<1>8. CASE \E f \in 0..MaxRefreshes : Refresh(f)
  BY <1>6, <1>8 DEF Refresh, Answered, AnsweredZero, FetchFails, StoreSol, StoreUsdc
<1>9. CASE UNCHANGED vars
  BY <1>6, <1>9 DEF vars
<1> QED BY <1>3, <1>5, <1>7, <1>8, <1>9 DEF Next

LEMMA InvHolds == Spec => []Inv
<1>1. Init => Inv
  BY InitInv
<1>2. Inv /\ [Next]_vars => Inv'
  BY StepKeeps
<1> QED BY <1>1, <1>2, PTL DEF Spec

\* Balances, reservations and what refreshes have read are amounts, whatever the
\* interleaving of the loop, the refreshes and the chain (inventory.rs).
THEOREM DeskTypeCorrect == Spec => []TypeOK
<1>1. Inv => TypeOK
  <2> SUFFICES ASSUME Inv PROVE TypeOK
    OBVIOUS
  <2>1. fetch \in [0..MaxRefreshes -> Fetches]
    BY DEF Inv, Typed
  <2> QED BY <2>1 DEF Inv, Typed, TypeOK, Fetches
<1> QED BY <1>1, InvHolds, PTL

\* The inputs of the dispatches that may still land are covered by the wallet, its
\* token accounts' rent and the tips and fees it has paid, whatever balances the desk
\* has read and in whatever order (inventory.rs, reserve).
THEOREM CommitmentsCovered == Spec => []CoversOutstanding
<1>1. Inv => CoversOutstanding
  <2> SUFFICES ASSUME Inv PROVE CoversOutstanding
    OBVIOUS
  <2>1. "sol" \in Currencies /\ "usdc" \in Currencies
    BY DEF Currencies
  <2>2. \A cur \in Currencies :
          /\ reserved[cur] \in Nat /\ wallet[cur] \in Nat /\ paid[cur] \in Nat /\ costs \in Nat
          /\ open[cur] \in Int /\ open[cur] + paid[cur] <= reserved[cur]
    BY DEF Inv, Typed, Bounded
  <2>3. /\ reserved["sol"] <= wallet["sol"] + (paid["sol"] + (costs + RentOf(accounts)))
        /\ reserved["usdc"] <= wallet["usdc"] + (paid["usdc"] + 0)
    BY <2>1 DEF Inv, Bounded, Held, Spent, Paying
  <2>4. RentOf(accounts) \in Nat
    BY RentNat DEF Inv, Typed
  <2> QED BY <2>1, <2>2, <2>3, <2>4 DEF CoversOutstanding
<1> QED BY <1>1, InvHolds, PTL

\* Whatever the books, the pools and the slippage, no dispatch asks for more than the
\* pool quoted: the gate on a positive gross profit implies it (simulator.rs, step 8).
THEOREM FloorsReachable == Spec => []FloorReachable
<1>1. Inv => FloorReachable
  BY DEF Inv
<1> QED BY <1>1, InvHolds, PTL

\* Whichever relay lands a bundle, the profit that approved it pays that relay's tip
\* and the fee, whatever the relays' fractions: the simulator reserves the largest of
\* them, and the least tip if that is more (simulator.rs, step 6; cexdex.rs).
THEOREM TipsAffordable == ASSUME ProfitPaysTip PROVE Spec => []TipsPaidFromProfit
<1>1. Init => Inv /\ TipsPaidFromProfit
  BY InitInv DEF Init, TipsPaidFromProfit
<1>2. Inv /\ TipsPaidFromProfit /\ [Next]_vars => Inv' /\ TipsPaidFromProfit'
  BY StepKeeps, TipsKept
<1> QED BY <1>1, <1>2, PTL DEF Spec
====
