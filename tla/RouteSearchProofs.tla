-------------------------- MODULE RouteSearchProofs --------------------------
(***************************************************************************)
(* What a quote comes to, for pools of any contents and integers of any     *)
(* width.  A constant product is exact.  Every quote stays below the best   *)
(* price of its pool, up to what rounding gains: each step of a walk along  *)
(* ticks or bins does, and what was paid so far is carried along the walk.  *)
(* Where ticks only take liquidity, the walk also stays below a curve       *)
(* without them.  So an accepted route has prices that differ by more than  *)
(* fees, rounding and tip, whatever moved during its simulation.            *)
(*                                                                          *)
(* The folds of the model have no induction theorem here: a fold is shown   *)
(* to be a walk, a function from the number of elements to what they come   *)
(* to, and the invariant is carried along the walk with SetInduction.       *)
(***************************************************************************)
EXTENDS RouteSearch, FiniteSetTheorems, WellFoundedInduction, TLAPS

-----------------------------------------------------------------------------
(* Arithmetic.                                                              *)

(* Natural numbers are closed under products.                               *)
LEMMA ProductType == ASSUME NEW x \in Nat, NEW y \in Nat PROVE x * y \in Nat
OBVIOUS

(* Products keep the order.                                                 *)
LEMMA ProductOrder ==
  ASSUME NEW x \in Nat, NEW y \in Nat, NEW z \in Nat, x <= y PROVE x * z <= y * z
OBVIOUS

(* What a quotient is between.                                              *)
LEMMA QuotientType ==
  ASSUME NEW m \in Nat, NEW d \in Nat \ {0}
  PROVE  /\ m \div d \in Nat
         /\ (m \div d) * d <= m
         /\ m < (m \div d) * d + d
<1>1. m \div d \in Nat /\ m = d * (m \div d) + (m % d) /\ m % d \in 0..(d - 1)
  OBVIOUS
<1> QED
  BY <1>1

(* And can be cancelled.                                                    *)
LEMMA ProductCancel ==
  ASSUME NEW x \in Nat, NEW y \in Nat, NEW z \in Nat \ {0}, x * z <= y * z
  PROVE  x <= y
<1> SUFFICES ASSUME y + 1 <= x PROVE FALSE
  OBVIOUS
<1>1. (y + 1) * z <= x * z
  BY ProductOrder
<1>2. (y + 1) * z = y * z + z /\ {y * z, x * z} \subseteq Nat
  BY ProductType
<1> QED
  BY <1>1, <1>2

(* What is at most a quotient before rounding is so after it.               *)
LEMMA QuotientAbove ==
  ASSUME NEW m \in Nat, NEW d \in Nat \ {0}, NEW k \in Nat, k * d <= m
  PROVE  k <= m \div d
<1> DEFINE q == m \div d
<1>1. q \in Nat /\ m < q * d + d
  BY QuotientType
<1> HIDE DEF q
<1>2. k * d < (q + 1) * d
  BY <1>1
<1>3. k < q + 1
  BY <1>1, <1>2
<1> QED
  BY <1>1, <1>3 DEF q

(* A checked operation that has a result has the plain one.                 *)
LEMMA Checked ==
  ASSUME NEW x, NEW y
  PROVE  /\ Mul(x, y) # None => x # None /\ y # None /\ Mul(x, y) = x * y
         /\ Div(x, y) # None => x # None /\ y # None /\ y # 0 /\ Div(x, y) = x \div y
         /\ Add(x, y) # None => x # None /\ y # None /\ Add(x, y) = x + y
         /\ Sub(x, y) # None => x # None /\ y # None /\ ~(x < y) /\ Sub(x, y) = x - y
         /\ FitsU64(x) # None => x # None /\ FitsU64(x) = x
BY DEF Mul, Div, Add, Sub, FitsU64

(* The input after the fee is no more than that part of the input.          *)
LEMMA AfterFeeBelow ==
  ASSUME NEW pool, pool.fee \in Nat, NEW in \in Nat, AfterFee(pool, in) # None
  PROVE  /\ pool.fee \in 0..Bps
         /\ AfterFee(pool, in) \in Nat
         /\ AfterFee(pool, in) * Bps <= in * (Bps - pool.fee)
<1>1. Bps \in Nat \ {0}
  BY QuoteAssumption
<1>2. AfterFee(pool, in) = Mul(in, Sub(Bps, pool.fee)) \div Bps /\ Mul(in, Sub(Bps, pool.fee)) # None
  BY Checked DEF AfterFee
<1>3. /\ Sub(Bps, pool.fee) # None
      /\ Mul(in, Sub(Bps, pool.fee)) = in * Sub(Bps, pool.fee)
  BY <1>2, Checked
<1>4. pool.fee \in 0..Bps /\ Sub(Bps, pool.fee) = Bps - pool.fee
  BY <1>1, <1>3, Checked
<1>5. in * (Bps - pool.fee) \in Nat
  BY <1>1, <1>4, ProductType
<1> QED
  BY <1>1, <1>2, <1>3, <1>4, <1>5, QuotientType

(* A checked product or sum that fits is the product or the sum.            *)
LEMMA ProductFits ==
  ASSUME NEW x \in Nat, NEW y \in Nat, x * y < U128
  PROVE  Mul(x, y) = x * y
<1>1. U128 \in Nat
  BY ProductType, QuoteAssumption DEF U128
<1>2. ASSUME x # 0 PROVE y <= (U128 - 1) \div x
  <2> DEFINE m == U128 - 1
             k == m \div x
  <2>1. m \in Nat /\ x * y <= m
    BY <1>1, ProductType
  <2>2. k \in Nat /\ m < k * x + x
    BY <1>2, <2>1, QuotientType
  <2> HIDE DEF m, k
  <2>3. x * y < x * (k + 1)
    BY <2>1, <2>2, ProductType
  <2>4. y < k + 1
    BY <2>2, <2>3
  <2> QED
    BY <2>2, <2>4 DEF k, m
<1> QED
  BY <1>1, <1>2 DEF Mul, None

(* The quotient is the largest output that keeps the product: with more      *)
(* than it, the quotient times its divisor would pass what was divided.     *)
LEMMA LargestKept ==
  ASSUME NEW r \in Nat \ {0}, NEW t \in Nat \ {0}, NEW n \in Nat
  PROVE  LET out == (t * n) \div (r + n)
             S   == {x \in 0..t : (r + n) * (t - x) >= r * t}
         IN  out \in S /\ out < t /\ \A x \in S : x <= out
<1> DEFINE d == r + n
           out == (t * n) \div d
<1>1. d \in Nat \ {0} /\ t * n \in Nat /\ r * t \in Nat /\ d * t = r * t + t * n
  BY ProductType
<1>2. out \in Nat /\ out * d <= t * n /\ t * n < out * d + d
  BY <1>1, QuotientType
<1>3. r * t > 0
  OBVIOUS
<1> HIDE DEF out, d
<1>4. out < t
  <2>1. out * d < t * d
    BY <1>1, <1>2, <1>3
  <2> QED
    BY <1>1, <1>2, <2>1
<1>5. d * (t - out) >= r * t
  <2>1. d * (t - out) = d * t - out * d
    BY <1>1, <1>2
  <2> QED
    BY <1>1, <1>2, <2>1
<1>6. ASSUME NEW x \in 0..t, d * (t - x) >= r * t PROVE x <= out
  <2>1. d * (t - x) = d * t - x * d /\ x * d \in Nat
    BY <1>1, ProductType
  <2>2. x * d <= t * n
    BY <1>1, <1>6, <2>1
  <2>3. x * d < (out + 1) * d
    BY <1>1, <1>2, <2>2
  <2>4. x < out + 1
    BY <1>1, <1>2, <2>3
  <2> QED
    BY <1>2, <2>4
<1> QED
  BY <1>2, <1>4, <1>5, <1>6 DEF d, out

(* A constant-product quote, unless a product overflows.                     *)
LEMMA CpmmLargest ==
  ASSUME NEW pool, pool.a \in Nat, pool.b \in Nat, pool.fee \in 0..Bps,
         pool.dex = "RaydiumAmm", NEW in \in Nat \ {0}, NEW ab \in BOOLEAN,
         NEW rin, NEW rout, NEW net,
         rin = IF ab THEN pool.a ELSE pool.b,
         rout = IF ab THEN pool.b ELSE pool.a,
         net = in * (Bps - pool.fee),
         rin * rout > 0, rout * net < U128, rin * Bps + net < U128
  PROVE  Quote(pool, in, ab) =
           Max({x \in 0..rout : (rin * Bps + net) * (rout - x) >= rin * Bps * rout})
<1>1. /\ rin \in Nat \ {0} /\ rout \in Nat \ {0}
      /\ Bps \in Nat \ {0} /\ Bps - pool.fee \in Nat
  BY QuoteAssumption
<1>2. net \in Nat /\ rin * Bps \in Nat \ {0} /\ rout * net \in Nat /\ U128 \in Nat
  BY <1>1, ProductType, QuoteAssumption DEF U128
<1> DEFINE out == (rout * net) \div (rin * Bps + net)
<1>3. /\ out \in {x \in 0..rout : (rin * Bps + net) * (rout - x) >= rin * Bps * rout}
      /\ out < rout
      /\ \A x \in {x \in 0..rout : (rin * Bps + net) * (rout - x) >= rin * Bps * rout} : x <= out
  BY <1>1, <1>2, LargestKept
<1>4. Quote(pool, in, ab) = out
  <2>1. net <= rout * net /\ rin * Bps <= rin * Bps + net
    BY <1>1, <1>2
  <2>2. Sub(Bps, pool.fee) = Bps - pool.fee
    BY <1>1 DEF Sub, None
  <2>3. Mul(in, Sub(Bps, pool.fee)) = net
    BY <1>1, <1>2, <2>1, <2>2, ProductFits
  <2>4. Mul(rin, Bps) = rin * Bps
    BY <1>1, <1>2, <2>1, ProductFits
  <2>5. Mul(rout, net) = rout * net
    BY <1>1, <1>2, ProductFits
  <2>6. Add(rin * Bps, net) = rin * Bps + net
    BY <1>2 DEF Add, None
  <2>7. Div(rout * net, rin * Bps + net) = out
    BY <1>2 DEF Div, None
  <2>8. Cpmm(pool, in, ab) = out
    <3> HIDE DEF out
    <3> QED
      BY <1>1, <1>3, <2>3, <2>4, <2>5, <2>6, <2>7 DEF Cpmm
  <2> QED
    BY <2>8 DEF Quote, QuoteBy
<1> QED
  BY <1>3, <1>4 DEF Max

(* A constant product: what the pool holds afterwards is no less.           *)
LEMMA CpmmBelow ==
  ASSUME NEW pool, pool.a \in Nat, pool.b \in Nat, pool.fee \in Nat, NEW in \in Nat,
         NEW ab \in BOOLEAN, Cpmm(pool, in, ab) # None
  PROVE  /\ Cpmm(pool, in, ab) \in Nat /\ SpotCpmm(pool, in, ab) \in Nat
         /\ Cpmm(pool, in, ab) <= SpotCpmm(pool, in, ab)
         /\ pool.fee \in 0..Bps /\ (IF ab THEN pool.a ELSE pool.b) # 0
<1> DEFINE rin  == IF ab THEN pool.a ELSE pool.b
           rout == IF ab THEN pool.b ELSE pool.a
           fee  == Sub(Bps, pool.fee)
           net  == Mul(in, fee)
           num  == Mul(rout, net)
           den  == Add(Mul(rin, Bps), net)
           out  == Cpmm(pool, in, ab)
<1>1. Bps \in Nat \ {0}
  BY QuoteAssumption
<1>2. rin \in Nat \ {0} /\ rout \in Nat \ {0} /\ out = Div(num, den)
  BY DEF Cpmm
<1>3. num # None /\ den # None /\ out = num \div den
  BY <1>2, Checked
<1>4. net # None /\ num = rout * net /\ den = rin * Bps + net
  <2>1. net # None /\ num = rout * net /\ Mul(rin, Bps) # None /\ den = Mul(rin, Bps) + net
    BY <1>3, Checked
  <2> QED
    BY <2>1, Checked
<1>5. net = in * (Bps - pool.fee) /\ pool.fee \in 0..Bps
  BY <1>1, <1>4, Checked
<1> HIDE DEF rin, rout, fee, net, num, den, out
<1>6. net \in Nat /\ rin * Bps \in Nat \ {0} /\ rout * net \in Nat
  BY <1>1, <1>2, <1>5, ProductType
<1>7. out \in Nat /\ out * (rin * Bps + net) <= rout * net
  BY <1>3, <1>4, <1>6, QuotientType
<1>8. out * (rin * Bps) <= net * rout
  <2>1. out * (rin * Bps + net) = out * (rin * Bps) + out * net /\ out * net \in Nat
    BY <1>6, <1>7, ProductType
  <2> QED
    BY <1>2, <1>6, <1>7, <2>1, ProductType
<1>9. out <= (net * rout) \div (rin * Bps)
  BY <1>2, <1>6, <1>7, <1>8, QuotientAbove, ProductType
<1>10. (net * rout) \div (rin * Bps) \in Nat
  BY <1>2, <1>6, ProductType, QuotientType
<1> QED
  BY <1>2, <1>5, <1>7, <1>9, <1>10 DEF SpotCpmm, rin, rout, out

(* A book: the depth only takes away.                                       *)
LEMMA BookBelow ==
  ASSUME NEW pool, pool.a \in Nat, pool.b \in Nat, pool.fee \in Nat,
         pool.bid \in Nat \cup {None}, pool.ask \in Nat \cup {None}, NEW in \in Nat,
         NEW ab \in BOOLEAN, NEW one \in Nat \ {0}, TopOfBook(pool, in, ab, one) # None
  PROVE  /\ TopOfBook(pool, in, ab, one) \in Nat /\ SpotBook(pool, in, ab, one) \in Nat
         /\ TopOfBook(pool, in, ab, one) <= SpotBook(pool, in, ab, one)
         /\ pool.fee \in 0..Bps
         /\ IF ab THEN pool.bid # None ELSE pool.ask \notin {None, 0}
<1> DEFINE net == AfterFee(pool, in)
           out == TopOfBook(pool, in, ab, one)
<1>1. Bps \in Nat \ {0} /\ in \in Nat /\ None = -1
  BY QuoteAssumption DEF None
<1>2. net # None =>
        /\ pool.fee \in 0..Bps /\ net \in Nat /\ net * Bps <= in * (Bps - pool.fee)
        /\ in * (Bps - pool.fee) \in Nat
  BY <1>1, AfterFeeBelow, ProductType
<1>3. CASE ab
  <2> DEFINE taken == Least(net, pool.a)
  <2>1. out = FitsU64(Div(Mul(taken, pool.bid), one)) /\ pool.bid # 0
    BY <1>3 DEF TopOfBook
  <2>2. Div(Mul(taken, pool.bid), one) # None /\ out = Div(Mul(taken, pool.bid), one)
    BY <2>1, Checked
  <2>3. Mul(taken, pool.bid) # None /\ out = Mul(taken, pool.bid) \div one
    BY <2>2, Checked
  <2>4. taken # None /\ pool.bid # None /\ out = (taken * pool.bid) \div one
    BY <2>3, Checked
  <2>5. net # None /\ taken <= net
    BY <2>4, <1>1, <1>2 DEF Least
  <2>6. taken \in Nat /\ pool.bid \in Nat
    BY <2>4, <2>5, <1>2 DEF Least
  <2> HIDE DEF taken, net, out
  <2>7. out \in Nat /\ out * one <= taken * pool.bid
    BY <2>4, <2>6, ProductType, QuotientType
  <2>8. out * (Bps * one) <= in * (Bps - pool.fee) * pool.bid
    <3>1. out * one <= net * pool.bid
      BY <2>5, <2>6, <2>7, <1>2
    <3>2. out * (Bps * one) = (out * one) * Bps /\ (net * pool.bid) * Bps = (net * Bps) * pool.bid
      BY <2>5, <2>6, <2>7, <1>1, <1>2
    <3>3. (out * one) * Bps <= (net * pool.bid) * Bps
      BY <3>1, <2>5, <2>6, <2>7, <1>1, <1>2, ProductType
    <3>4. (net * Bps) * pool.bid <= in * (Bps - pool.fee) * pool.bid
      BY <2>5, <2>6, <1>1, <1>2, ProductType, ProductOrder
    <3> QED
      BY <3>2, <3>3, <3>4, <2>5, <2>6, <2>7, <1>1, <1>2, ProductType
  <2>9. out <= (in * (Bps - pool.fee) * pool.bid) \div (Bps * one)
        /\ (in * (Bps - pool.fee) * pool.bid) \div (Bps * one) \in Nat
    <3>1. Bps * one \in Nat \ {0} /\ in * (Bps - pool.fee) * pool.bid \in Nat
      BY <2>5, <2>6, <1>1, <1>2, ProductType
    <3> QED
      BY <2>7, <2>8, <3>1, QuotientAbove, QuotientType
  <2> QED
    BY <1>2, <1>3, <2>4, <2>5, <2>7, <2>9 DEF SpotBook, out
<1>4. CASE ~ab
  <2> DEFINE paid == Div(Mul(net, one), pool.ask)
  <2>1. out = FitsU64(Least(paid, pool.b))
    BY <1>4 DEF TopOfBook
  <2>2. Least(paid, pool.b) # None /\ out = Least(paid, pool.b)
    BY <2>1, Checked
  <2>3. paid # None /\ out \in {paid, pool.b}
    BY <2>2, <1>1 DEF Least
  <2>4. Mul(net, one) # None /\ pool.ask \in Nat \ {0} /\ paid = Mul(net, one) \div pool.ask
    BY <2>3, Checked
  <2>5. net # None /\ paid = (net * one) \div pool.ask
    BY <2>4, Checked
  <2> HIDE DEF paid, net, out
  <2>6. paid \in Nat /\ paid * pool.ask <= net * one
    <3>1. net * one \in Nat
      BY <2>5, <1>2, ProductType
    <3> QED
      BY <2>4, <2>5, <3>1, QuotientType
  <2>7. out \in Nat /\ out <= paid
    BY <2>2, <2>3, <2>6 DEF Least
  <2>8. out * (Bps * pool.ask) <= in * (Bps - pool.fee) * one
    <3>1. out * pool.ask <= net * one
      BY <2>4, <2>5, <2>6, <2>7, <1>2, ProductType
    <3>2. out * (Bps * pool.ask) = (out * pool.ask) * Bps /\ (net * one) * Bps = (net * Bps) * one
      BY <2>4, <2>5, <2>7, <1>1, <1>2
    <3>3. (out * pool.ask) * Bps <= (net * one) * Bps
      BY <3>1, <2>4, <2>5, <2>7, <1>1, <1>2, ProductType
    <3>4. (net * Bps) * one <= in * (Bps - pool.fee) * one
      BY <2>5, <1>1, <1>2, ProductType, ProductOrder
    <3> QED
      BY <3>2, <3>3, <3>4, <2>4, <2>5, <2>7, <1>1, <1>2, ProductType
  <2>9. out <= (in * (Bps - pool.fee) * one) \div (Bps * pool.ask)
        /\ (in * (Bps - pool.fee) * one) \div (Bps * pool.ask) \in Nat
    <3>1. Bps * pool.ask \in Nat \ {0} /\ in * (Bps - pool.fee) * one \in Nat
      BY <2>4, <2>5, <1>1, <1>2, ProductType
    <3> QED
      BY <2>7, <2>8, <3>1, QuotientAbove, QuotientType
  <2> QED
    BY <1>1, <1>2, <1>4, <2>4, <2>5, <2>7, <2>9 DEF SpotBook, out
<1> QED
  BY <1>3, <1>4

(* Rounding up is no less than the quotient.                                *)
LEMMA CeilAbove ==
  ASSUME NEW x \in Nat, NEW d \in Nat \ {0}
  PROVE  CeilDiv(x, d) \in Nat /\ CeilDiv(x, d) * d >= x
<1>1. x + d - 1 \in Nat
  OBVIOUS
<1>2. /\ (x + d - 1) \div d \in Nat
      /\ x + d - 1 < ((x + d - 1) \div d) * d + d
  BY <1>1, QuotientType
<1>3. CeilDiv(x, d) = (x + d - 1) \div d
  BY DEF CeilDiv
<1> HIDE DEF CeilDiv
<1>4. CeilDiv(x, d) * d \in Nat
  BY <1>2, <1>3, ProductType
<1> QED
  BY <1>2, <1>3, <1>4

(* The price falls to the quotient of liq * p and liq + x rounded down, so  *)
(* what is paid is below x * p + liq.                                       *)
LEMMA FallBelow ==
  ASSUME NEW liq \in Nat \ {0}, NEW p \in Nat, NEW x \in Nat, NEW to \in Nat,
         to = (liq * p) \div (liq + x), to <= p
  PROVE  liq * (p - to) < x * p + liq
<1> DEFINE d == liq + x
           fall == p - to
<1>1. d \in Nat \ {0} /\ fall \in Nat /\ liq * p \in Nat /\ x * p \in Nat /\ d >= liq
  BY ProductType
<1>2. liq * p < to * d + d
  BY <1>1, QuotientType
<1>3. fall * d = liq * p + x * p - to * d /\ to * d \in Nat
  <2>1. fall * d = p * d - to * d
    BY <1>1
  <2>2. p * d = liq * p + x * p
    OBVIOUS
  <2>3. to * d \in Nat
    BY <1>1, ProductType
  <2> QED
    BY <2>1, <2>2, <2>3
<1>4. fall * d < x * p + d
  BY <1>1, <1>2, <1>3
<1> HIDE DEF fall, d
<1>5. (fall * d) * liq < (x * p + d) * liq
  BY <1>1, <1>4, ProductType
<1>6. (x * p) * liq <= (x * p) * d
  BY <1>1, ProductOrder
<1>7. (x * p + d) * liq <= (x * p + liq) * d
  BY <1>1, <1>6
<1>8. (liq * fall) * d < (x * p + liq) * d
  BY <1>1, <1>5, <1>7
<1>9. liq * fall \in Nat /\ x * p + liq \in Nat
  <2>1. liq * fall \in Nat
    BY <1>1, ProductType
  <2> QED
    BY <1>1, <2>1
<1>10. liq * fall < x * p + liq
  BY <1>1, <1>8, <1>9
<1> QED
  BY <1>10 DEF fall

-----------------------------------------------------------------------------
(* Induction.  The theorems of the library about induction are parameterised  *)
(* by an operator; those about well-founded relations by sets.               *)

(* The natural numbers are well-founded.                                    *)
LEMMA NatWellFounded == IsWellFoundedOn({ss \in Nat \X Nat : ss[1] < ss[2]}, Nat)
BY NatLessThanWellFounded, Zenon DEF OpToRel

(* A set that has 0 and the successors of its members has all numbers.       *)
LEMMA SetInduction ==
  ASSUME NEW S, 0 \in S, \A n \in Nat : n \in S => n + 1 \in S
  PROVE  Nat \subseteq S
<1> DEFINE T == Nat \ S
           R == {ss \in Nat \X Nat : ss[1] < ss[2]}
<1> SUFFICES ASSUME T # {} PROVE FALSE
  OBVIOUS
<1>1. IsWellFoundedOn(R, Nat)
  BY NatWellFounded
<1>2. \A x, y \in Nat : y < x => <<y, x>> \in R
  OBVIOUS
<1>3. T \subseteq Nat
  OBVIOUS
<1> HIDE DEF T, R
<1>4. PICK m \in T : \A k \in T : ~ (<<k, m>> \in R)
  BY <1>1, <1>3, WFMin
<1>5. m \in Nat /\ m # 0
  BY <1>4 DEF T
<1>6. m - 1 \in Nat /\ m - 1 < m
  BY <1>5
<1>7. m - 1 \in S
  BY <1>2, <1>4, <1>5, <1>6 DEF T
<1> QED
  BY <1>4, <1>5, <1>6, <1>7 DEF T

(* The largest of the first numbers, if it is among some of them.            *)
LEMMA LargestOf ==
  ASSUME NEW n \in Nat, NEW s \in SUBSET (1..n + 1), n + 1 \in s
  PROVE  Max(s) = n + 1
<1> DEFINE P(x) == x \in s /\ \A y \in s : x >= y
<1>1. ASSUME NEW x, P(x) PROVE x = n + 1
  <2>1. x \in 1..n + 1 /\ x >= n + 1
    BY <1>1
  <2> QED
    BY <2>1
<1>2. P(n + 1)
  OBVIOUS
<1> HIDE DEF P
<1>3. (CHOOSE x : P(x)) = n + 1
  BY <1>1, <1>2
<1> QED
  BY <1>3 DEF Max, P

(* One step of a walk, k says of which: along ticks and bins, and what the    *)
(* reference keeps of ticks and hops.  As data, one induction serves all.     *)
Visit(k, w, x) ==
  IF k.walk = "ticks" THEN VisitTick(w, x, k.ab)
  ELSE IF k.walk = "depth" THEN Deepen(w, x, k.ab)
  ELSE IF k.walk = "bins" THEN VisitBin(w, k.pool, k.ab)
  ELSE IF k.walk = "mints" THEN OtherToken(x, w)
  ELSE PastHop(w, x, k.pools, k.ins)

(* The function that a fold over seq, of length n, defines.                 *)
Folds(f, k, base, seq, n) ==
  f = [s \in SUBSET (1..n) |->
         IF s = {} THEN base ELSE Visit(k, f[s \ {Max(s)}], seq[Max(s)])]

(* It exists.                                                               *)
LEMMA FoldExists ==
  ASSUME NEW k, NEW base, NEW seq, NEW N \in Nat
  PROVE  \E f : Folds(f, k, base, seq, N)
<1> DEFINE S == {n \in Nat : \E f : Folds(f, k, base, seq, n)}
<1>1. 0 \in S
  <2> DEFINE f == [s \in SUBSET (1..0) |-> base]
  <2>1. Folds(f, k, base, seq, 0)
    <3>1. \A s \in SUBSET (1..0) : s = {}
      OBVIOUS
    <3> QED
      BY <3>1 DEF Folds
  <2> QED
    BY <2>1
<1>2. ASSUME NEW n \in Nat, n \in S PROVE n + 1 \in S
  <2>1. PICK f : Folds(f, k, base, seq, n)
    BY <1>2
  <2> DEFINE top == n + 1
             g == [s \in SUBSET (1..top) |->
                     IF top \in s THEN Visit(k, f[s \ {top}], seq[top]) ELSE f[s]]
  <2>2. ASSUME NEW s \in SUBSET (1..top)
        PROVE  g[s] = IF s = {} THEN base ELSE Visit(k, g[s \ {Max(s)}], seq[Max(s)])
    <3>1. CASE top \in s
      <4>1. Max(s) = top /\ s # {}
        BY <3>1, LargestOf
      <4>2. s \ {top} \in SUBSET (1..n) /\ s \ {top} \in SUBSET (1..top) /\ top \notin s \ {top}
        OBVIOUS
      <4>3. g[s \ {top}] = f[s \ {top}]
        BY <4>2
      <4> QED
        BY <3>1, <4>1, <4>3
    <3>2. CASE top \notin s
      <4>1. s \in SUBSET (1..n)
        BY <3>2
      <4>2. s \ {Max(s)} \in SUBSET (1..top) /\ top \notin s \ {Max(s)}
        BY <3>2
      <4>3. g[s] = f[s] /\ g[s \ {Max(s)}] = f[s \ {Max(s)}]
        BY <3>2, <4>2
      <4> HIDE DEF g
      <4>4. f[s] = IF s = {} THEN base ELSE Visit(k, f[s \ {Max(s)}], seq[Max(s)])
        BY <2>1, <4>1 DEF Folds
      <4> QED
        BY <4>3, <4>4
    <3> QED
      BY <3>1, <3>2
  <2>3. Folds(g, k, base, seq, top)
    <3> DEFINE h == [s \in SUBSET (1..top) |->
                       IF s = {} THEN base ELSE Visit(k, g[s \ {Max(s)}], seq[Max(s)])]
    <3>1. DOMAIN g = SUBSET (1..top) /\ DOMAIN h = SUBSET (1..top)
      OBVIOUS
    <3>2. g = [s \in SUBSET (1..top) |-> g[s]]
      OBVIOUS
    <3> HIDE DEF g
    <3>3. g = h
      BY <2>2, <3>2
    <3> QED
      BY <3>3 DEF Folds
  <2> QED
    BY <2>3
<1> HIDE DEF S
<1>3. Nat \subseteq S
  BY <1>1, <1>2, SetInduction
<1> QED
  BY <1>3 DEF S

(* What it is of the first members, one after another.                      *)
Unfolds(f, k, base, seq, n) ==
  /\ f[1..0] = base
  /\ \A i \in 0..(n - 1) : f[1..(i + 1)] = Visit(k, f[1..i], seq[i + 1])

(* It takes the walk step by step.                                          *)
LEMMA FoldSteps ==
  ASSUME NEW k, NEW base, NEW seq, NEW N \in Nat, NEW f, Folds(f, k, base, seq, N)
  PROVE  Unfolds(f, k, base, seq, N)
<1>1. f[1..0] = base
  <2>1. 1..0 = {} /\ 1..0 \in SUBSET (1..N)
    OBVIOUS
  <2> QED
    BY <2>1 DEF Folds
<1>2. ASSUME NEW i \in 0..(N - 1)
      PROVE  f[1..(i + 1)] = Visit(k, f[1..i], seq[i + 1])
  <2>1. 1..(i + 1) \in SUBSET (1..N) /\ 1..(i + 1) # {} /\ i \in Nat
    OBVIOUS
  <2>2. Max(1..(i + 1)) = i + 1
    BY <2>1, LargestOf
  <2>3. (1..(i + 1)) \ {i + 1} = 1..i
    BY <2>1
  <2> QED
    BY <2>1, <2>2, <2>3 DEF Folds
<1> QED
  BY <1>1, <1>2 DEF Unfolds

(* The walks of the model.                                                  *)
TicksFold(ab, base, seq) == FoldLeft(LAMBDA v, t : VisitTick(v, t, ab), base, seq)
DepthFold(ab, base, seq) == FoldLeft(LAMBDA v, t : Deepen(v, t, ab), base, seq)
BinsFold(pool, ab, base, seq) == FoldLeft(LAMBDA v, j : VisitBin(v, pool, ab), base, seq)
MintsFold(base, seq) == FoldLeft(LAMBDA v, j : OtherToken(j, v), base, seq)
HopsFold(pools, ins, base, seq) == FoldLeft(LAMBDA v, j : PastHop(v, j, pools, ins), base, seq)

(* From base to end.                                                        *)
TicksWalk(w, ab, base, seq, n, end) ==
  /\ w[0] = base /\ w[n] = end
  /\ \A i \in 0..(n - 1) : w[i + 1] = VisitTick(w[i], seq[i + 1], ab)

DepthWalk(w, ab, base, seq, n, end) ==
  /\ w[0] = base /\ w[n] = end
  /\ \A i \in 0..(n - 1) : w[i + 1] = Deepen(w[i], seq[i + 1], ab)

(* Each goes step by step: along ticks,                                       *)
LEMMA TicksWalked ==
  ASSUME NEW ab, NEW base, NEW seq, NEW N \in Nat, DOMAIN seq = 1..N,
         NEW end, end = TicksFold(ab, base, seq)
  PROVE  \E w : TicksWalk(w, ab, base, seq, N, end)
<1> DEFINE k == [walk |-> "ticks", ab |-> ab]
           Is(f) == f = [s \in SUBSET (1..N) |->
                           IF s = {} THEN base ELSE VisitTick(f[s \ {Max(s)}], seq[Max(s)], ab)]
<1>1. \A v, x : Visit(k, v, x) = VisitTick(v, x, ab)
  BY DEF Visit
<1> HIDE DEF k
<1>2. PICK f : Folds(f, k, base, seq, N)
  BY FoldExists
<1>3. Is(f)
  BY <1>1, <1>2 DEF Folds
<1>4. \E g : Is(g) /\ FoldLeft(LAMBDA v, t : VisitTick(v, t, ab), base, seq) = g[1..N]
  BY <1>3 DEF FoldLeft, MapThenFoldSet
<1>5. PICK g : Is(g) /\ FoldLeft(LAMBDA v, t : VisitTick(v, t, ab), base, seq) = g[1..N]
  BY <1>4, Zenon
<1>6. Folds(g, k, base, seq, N)
  <2>1. \A s \in SUBSET (1..N) :
          VisitTick(g[s \ {Max(s)}], seq[Max(s)], ab)
            = Visit(k, g[s \ {Max(s)}], seq[Max(s)])
    BY <1>1
  <2>2. Is(g)
    BY <1>5, Zenon
  <2> HIDE DEF k
  <2> QED
    BY <2>1, <2>2 DEF Folds
<1> DEFINE w == [i \in 0..N |-> g[1..i]]
<1>7. /\ w[0] = base /\ w[N] = g[1..N]
      /\ \A i \in 0..(N - 1) : w[i + 1] = Visit(k, w[i], seq[i + 1])
  <2>1. Unfolds(g, k, base, seq, N)
    BY <1>6, FoldSteps
  <2>2. \A i \in 0..N : w[i] = g[1..i]
    BY Zenon
  <2>3. 0 \in 0..N /\ N \in 0..N
    OBVIOUS
  <2>4. ASSUME NEW i \in 0..(N - 1) PROVE w[i + 1] = Visit(k, w[i], seq[i + 1])
    <3>1. i \in 0..N /\ i + 1 \in 0..N
      OBVIOUS
    <3> HIDE DEF w
    <3> QED
      BY <2>1, <2>2, <3>1 DEF Unfolds
  <2> HIDE DEF w
  <2> QED
    BY <2>1, <2>2, <2>3, <2>4 DEF Unfolds
<1> HIDE DEF w
<1>8. \A i \in 0..(N - 1) : w[i + 1] = VisitTick(w[i], seq[i + 1], ab)
  BY <1>1, <1>7
<1>9. TicksWalk(w, ab, base, seq, N, end)
  BY <1>5, <1>7, <1>8, Zenon DEF TicksFold, TicksWalk
<1> QED
  BY <1>9

(* along the liquidity behind them,                                          *)
LEMMA DepthWalked ==
  ASSUME NEW ab, NEW base, NEW seq, NEW N \in Nat, DOMAIN seq = 1..N,
         NEW end, end = DepthFold(ab, base, seq)
  PROVE  \E w : DepthWalk(w, ab, base, seq, N, end)
<1> DEFINE k == [walk |-> "depth", ab |-> ab]
           Is(f) == f = [s \in SUBSET (1..N) |->
                           IF s = {} THEN base ELSE Deepen(f[s \ {Max(s)}], seq[Max(s)], ab)]
<1>1. \A v, x : Visit(k, v, x) = Deepen(v, x, ab)
  BY DEF Visit
<1> HIDE DEF k
<1>2. PICK f : Folds(f, k, base, seq, N)
  BY FoldExists
<1>3. Is(f)
  BY <1>1, <1>2 DEF Folds
<1>4. \E g : Is(g) /\ FoldLeft(LAMBDA v, t : Deepen(v, t, ab), base, seq) = g[1..N]
  BY <1>3 DEF FoldLeft, MapThenFoldSet
<1>5. PICK g : Is(g) /\ FoldLeft(LAMBDA v, t : Deepen(v, t, ab), base, seq) = g[1..N]
  BY <1>4, Zenon
<1>6. Folds(g, k, base, seq, N)
  <2>1. \A s \in SUBSET (1..N) :
          Deepen(g[s \ {Max(s)}], seq[Max(s)], ab)
            = Visit(k, g[s \ {Max(s)}], seq[Max(s)])
    BY <1>1
  <2>2. Is(g)
    BY <1>5, Zenon
  <2> HIDE DEF k
  <2> QED
    BY <2>1, <2>2 DEF Folds
<1> DEFINE w == [i \in 0..N |-> g[1..i]]
<1>7. /\ w[0] = base /\ w[N] = g[1..N]
      /\ \A i \in 0..(N - 1) : w[i + 1] = Visit(k, w[i], seq[i + 1])
  <2>1. Unfolds(g, k, base, seq, N)
    BY <1>6, FoldSteps
  <2>2. \A i \in 0..N : w[i] = g[1..i]
    BY Zenon
  <2>3. 0 \in 0..N /\ N \in 0..N
    OBVIOUS
  <2>4. ASSUME NEW i \in 0..(N - 1) PROVE w[i + 1] = Visit(k, w[i], seq[i + 1])
    <3>1. i \in 0..N /\ i + 1 \in 0..N
      OBVIOUS
    <3> HIDE DEF w
    <3> QED
      BY <2>1, <2>2, <3>1 DEF Unfolds
  <2> HIDE DEF w
  <2> QED
    BY <2>1, <2>2, <2>3, <2>4 DEF Unfolds
<1> HIDE DEF w
<1>8. \A i \in 0..(N - 1) : w[i + 1] = Deepen(w[i], seq[i + 1], ab)
  BY <1>1, <1>7
<1>9. DepthWalk(w, ab, base, seq, N, end)
  BY <1>5, <1>7, <1>8, Zenon DEF DepthFold, DepthWalk
<1> QED
  BY <1>9

(* along bins                                                                *)
LEMMA BinsWalked ==
  ASSUME NEW pool, NEW ab, NEW base, NEW seq, NEW N \in Nat, DOMAIN seq = 1..N
  PROVE  \E w : /\ w[0] = base
                /\ BinsFold(pool, ab, base, seq) = w[N]
                /\ \A i \in 0..(N - 1) : w[i + 1] = VisitBin(w[i], pool, ab)
<1> DEFINE k == [walk |-> "bins", pool |-> pool, ab |-> ab]
           Is(f) == f = [s \in SUBSET (1..N) |->
                           IF s = {} THEN base ELSE VisitBin(f[s \ {Max(s)}], pool, ab)]
<1>1. \A v, x : Visit(k, v, x) = VisitBin(v, pool, ab)
  BY DEF Visit
<1> HIDE DEF k
<1>2. PICK f : Folds(f, k, base, seq, N)
  BY FoldExists
<1>3. Is(f)
  BY <1>1, <1>2 DEF Folds
<1>4. \E g : Is(g) /\ FoldLeft(LAMBDA v, j : VisitBin(v, pool, ab), base, seq) = g[1..N]
  BY <1>3 DEF FoldLeft, MapThenFoldSet
<1>5. PICK g : Is(g) /\ FoldLeft(LAMBDA v, j : VisitBin(v, pool, ab), base, seq) = g[1..N]
  BY <1>4, Zenon
<1>6. Folds(g, k, base, seq, N)
  <2>1. \A s \in SUBSET (1..N) :
          VisitBin(g[s \ {Max(s)}], pool, ab)
            = Visit(k, g[s \ {Max(s)}], seq[Max(s)])
    BY <1>1
  <2>2. Is(g)
    BY <1>5, Zenon
  <2> HIDE DEF k
  <2> QED
    BY <2>1, <2>2 DEF Folds
<1> DEFINE w == [i \in 0..N |-> g[1..i]]
<1>7. /\ w[0] = base /\ w[N] = g[1..N]
      /\ \A i \in 0..(N - 1) : w[i + 1] = Visit(k, w[i], seq[i + 1])
  <2>1. Unfolds(g, k, base, seq, N)
    BY <1>6, FoldSteps
  <2>2. \A i \in 0..N : w[i] = g[1..i]
    BY Zenon
  <2>3. 0 \in 0..N /\ N \in 0..N
    OBVIOUS
  <2>4. ASSUME NEW i \in 0..(N - 1) PROVE w[i + 1] = Visit(k, w[i], seq[i + 1])
    <3>1. i \in 0..N /\ i + 1 \in 0..N
      OBVIOUS
    <3> HIDE DEF w
    <3> QED
      BY <2>1, <2>2, <3>1 DEF Unfolds
  <2> HIDE DEF w
  <2> QED
    BY <2>1, <2>2, <2>3, <2>4 DEF Unfolds
<1> HIDE DEF w
<1>8. \A i \in 0..(N - 1) : w[i + 1] = VisitBin(w[i], pool, ab)
  BY <1>1, <1>7
<1> QED
  BY <1>5, <1>7, <1>8, Zenon DEF BinsFold

(* the mints that a simulation passes,                                      *)
LEMMA MintsWalked ==
  ASSUME NEW base, NEW seq, NEW N \in Nat, DOMAIN seq = 1..N
  PROVE  \E w : /\ w[0] = base
                /\ MintsFold(base, seq) = w[N]
                /\ \A i \in 0..(N - 1) : w[i + 1] = OtherToken(seq[i + 1], w[i])
<1> DEFINE k == [walk |-> "mints"]
           Is(f) == f = [s \in SUBSET (1..N) |->
                           IF s = {} THEN base ELSE OtherToken(seq[Max(s)], f[s \ {Max(s)}])]
<1>1. \A v, x : Visit(k, v, x) = OtherToken(x, v)
  BY DEF Visit
<1> HIDE DEF k
<1>2. PICK f : Folds(f, k, base, seq, N)
  BY FoldExists
<1>3. Is(f)
  BY <1>1, <1>2 DEF Folds
<1>4. \E g : Is(g) /\ FoldLeft(LAMBDA v, j : OtherToken(j, v), base, seq) = g[1..N]
  BY <1>3 DEF FoldLeft, MapThenFoldSet
<1>5. PICK g : Is(g) /\ FoldLeft(LAMBDA v, j : OtherToken(j, v), base, seq) = g[1..N]
  BY <1>4, Zenon
<1>6. Folds(g, k, base, seq, N)
  <2>1. \A s \in SUBSET (1..N) :
          OtherToken(seq[Max(s)], g[s \ {Max(s)}])
            = Visit(k, g[s \ {Max(s)}], seq[Max(s)])
    BY <1>1
  <2>2. Is(g)
    BY <1>5, Zenon
  <2> HIDE DEF k
  <2> QED
    BY <2>1, <2>2 DEF Folds
<1> DEFINE w == [i \in 0..N |-> g[1..i]]
<1>7. /\ w[0] = base /\ w[N] = g[1..N]
      /\ \A i \in 0..(N - 1) : w[i + 1] = Visit(k, w[i], seq[i + 1])
  <2>1. Unfolds(g, k, base, seq, N)
    BY <1>6, FoldSteps
  <2>2. \A i \in 0..N : w[i] = g[1..i]
    BY Zenon
  <2>3. 0 \in 0..N /\ N \in 0..N
    OBVIOUS
  <2>4. ASSUME NEW i \in 0..(N - 1) PROVE w[i + 1] = Visit(k, w[i], seq[i + 1])
    <3>1. i \in 0..N /\ i + 1 \in 0..N
      OBVIOUS
    <3> HIDE DEF w
    <3> QED
      BY <2>1, <2>2, <3>1 DEF Unfolds
  <2> HIDE DEF w
  <2> QED
    BY <2>1, <2>2, <2>3, <2>4 DEF Unfolds
<1> HIDE DEF w
<1>8. \A i \in 0..(N - 1) : w[i + 1] = OtherToken(seq[i + 1], w[i])
  BY <1>1, <1>7
<1> QED
  BY <1>5, <1>7, <1>8, Zenon DEF MintsFold

(* and along hops.                                                          *)
LEMMA HopsWalked ==
  ASSUME NEW pools, NEW ins, NEW base, NEW seq, NEW N \in Nat, DOMAIN seq = 1..N
  PROVE  \E w : /\ w[0] = base
                /\ HopsFold(pools, ins, base, seq) = w[N]
                /\ \A i \in 0..(N - 1) : w[i + 1] = PastHop(w[i], seq[i + 1], pools, ins)
<1> DEFINE k == [walk |-> "hops", pools |-> pools, ins |-> ins]
           Is(f) == f = [s \in SUBSET (1..N) |->
                           IF s = {} THEN base ELSE PastHop(f[s \ {Max(s)}], seq[Max(s)], pools, ins)]
<1>1. \A v, x : Visit(k, v, x) = PastHop(v, x, pools, ins)
  BY DEF Visit
<1> HIDE DEF k
<1>2. PICK f : Folds(f, k, base, seq, N)
  BY FoldExists
<1>3. Is(f)
  BY <1>1, <1>2 DEF Folds
<1>4. \E g : Is(g) /\ FoldLeft(LAMBDA v, j : PastHop(v, j, pools, ins), base, seq) = g[1..N]
  BY <1>3 DEF FoldLeft, MapThenFoldSet
<1>5. PICK g : Is(g) /\ FoldLeft(LAMBDA v, j : PastHop(v, j, pools, ins), base, seq) = g[1..N]
  BY <1>4, Zenon
<1>6. Folds(g, k, base, seq, N)
  <2>1. \A s \in SUBSET (1..N) :
          PastHop(g[s \ {Max(s)}], seq[Max(s)], pools, ins)
            = Visit(k, g[s \ {Max(s)}], seq[Max(s)])
    BY <1>1
  <2>2. Is(g)
    BY <1>5, Zenon
  <2> HIDE DEF k
  <2> QED
    BY <2>1, <2>2 DEF Folds
<1> DEFINE w == [i \in 0..N |-> g[1..i]]
<1>7. /\ w[0] = base /\ w[N] = g[1..N]
      /\ \A i \in 0..(N - 1) : w[i + 1] = Visit(k, w[i], seq[i + 1])
  <2>1. Unfolds(g, k, base, seq, N)
    BY <1>6, FoldSteps
  <2>2. \A i \in 0..N : w[i] = g[1..i]
    BY Zenon
  <2>3. 0 \in 0..N /\ N \in 0..N
    OBVIOUS
  <2>4. ASSUME NEW i \in 0..(N - 1) PROVE w[i + 1] = Visit(k, w[i], seq[i + 1])
    <3>1. i \in 0..N /\ i + 1 \in 0..N
      OBVIOUS
    <3> HIDE DEF w
    <3> QED
      BY <2>1, <2>2, <3>1 DEF Unfolds
  <2> HIDE DEF w
  <2> QED
    BY <2>1, <2>2, <2>3, <2>4 DEF Unfolds
<1> HIDE DEF w
<1>8. \A i \in 0..(N - 1) : w[i + 1] = PastHop(w[i], seq[i + 1], pools, ins)
  BY <1>1, <1>7
<1> QED
  BY <1>5, <1>7, <1>8, Zenon DEF HopsFold
-----------------------------------------------------------------------------
(* The ticks of a quote are a finite sequence of those ahead.                *)
LEMMA TicksReachedSeq ==
  ASSUME NEW pool, IsFiniteSet(pool.ticks), NEW ab
  PROVE  \E N \in Nat : /\ DOMAIN TicksReached(pool, ab) = 1..N
                        /\ Len(TicksReached(pool, ab)) = N
                        /\ \A i \in 1..N : TicksReached(pool, ab)[i] \in Range(TicksAhead(pool, ab))
<1> DEFINE S == {t \in pool.ticks : /\ t.gross > 0
                                    /\ IF ab THEN t.index <= pool.tick ELSE t.index > pool.tick}
           n == Cardinality(S)
           ahead == TicksAhead(pool, ab)
           N == Least(MaxSteps, n)
<1>1. n \in Nat
  <2>1. IsFiniteSet(S)
    BY FS_Subset
  <2> QED
    BY <2>1, FS_CardinalityType
<1>2. DOMAIN ahead = 1..n /\ ahead = [i \in 1..n |-> ahead[i]]
  <2> DEFINE before(t) == {s \in S : IF ab THEN s.index > t.index ELSE s.index < t.index}
             near(i) == CHOOSE t \in S : Cardinality(before(t)) = i - 1
  <2>1. ahead = [i \in 1..n |-> near(i)]
    BY DEF TicksAhead
  <2> HIDE DEF S, n, ahead, near
  <2> QED
    BY <2>1
<1> HIDE DEF S, n, ahead
<1>3. ahead \in Seq(Range(ahead)) /\ Len(ahead) = n
  <2>1. ahead \in [1..n -> Range(ahead)]
    BY <1>2 DEF Range
  <2> QED
    BY <1>1, <2>1
<1>4. N \in Nat /\ N <= n
  BY <1>1, QuoteAssumption DEF Least
<1>5. TicksReached(pool, ab) = SubSeq(ahead, 1, N)
  BY <1>3 DEF TicksReached, ahead
<1> HIDE DEF N
<1> QED
  BY <1>1, <1>3, <1>4, <1>5 DEF ahead
-----------------------------------------------------------------------------
(* Steps along a curve of concentrated liquidity.  In units of the output,   *)
(* an amount of the input is worth Rate / Unit at the price p.              *)

Rate(p, ab) == IF ab THEN p * p ELSE Q * Q
Unit(p, ab) == IF ab THEN Q * Q ELSE p * p

\* What a step gains by rounding, times Unit.
PerStep(p, ab) == IF ab THEN p * p + p * Q ELSE Q * Q

(* Naturals with these factors.                                             *)
LEMMA RateType ==
  ASSUME NEW p \in Nat \ {0}, NEW ab \in BOOLEAN
  PROVE  /\ Rate(p, ab) \in Nat \ {0} /\ Unit(p, ab) \in Nat \ {0}
         /\ PerStep(p, ab) \in Nat /\ Rate(p, ab) <= PerStep(p, ab)
<1>1. p * p \in Nat \ {0} /\ Q * Q \in Nat \ {0} /\ p * Q \in Nat
  BY QuoteAssumption, ProductType
<1> QED
  BY <1>1 DEF Rate, Unit, PerStep

(* A falling price, all the way to the target: rounding hides less than one  *)
(* unit of the input, and less than one of the quotient by the price.       *)
LEMMA FallWhole ==
  ASSUME NEW liq \in Nat, NEW p \in Nat \ {0}, NEW t \in Nat \ {0}, t <= p,
         NEW v, NEW in, NEW out,
         v = (liq * (p - t)) \div p, in = (v * Q) \div t, out = (liq * (p - t)) \div Q
  PROVE  /\ in \in Nat /\ out \in Nat
         /\ out * (Q * Q) <= (in + 1) * (p * t) + p * Q
<1> DEFINE d == liq * (p - t)
<1>1. Q \in Nat \ {0} /\ d \in Nat
  BY QuoteAssumption, ProductType
<1>2. v \in Nat /\ d < v * p + p /\ v * p \in Nat
  BY <1>1, QuotientType, ProductType
<1>3. in \in Nat /\ v * Q < in * t + t /\ v * Q \in Nat
  BY <1>1, <1>2, QuotientType, ProductType
<1>4. out \in Nat /\ out * Q <= d
  BY <1>1, QuotientType
<1> HIDE DEF d
<1>5. v * Q <= (in + 1) * t /\ (in + 1) * t \in Nat
  BY <1>3, ProductType
<1>6. out * Q <= v * p + p /\ out * Q \in Nat
  BY <1>1, <1>2, <1>4, ProductType
<1>7. (out * Q) * Q <= (v * p + p) * Q
  BY <1>1, <1>2, <1>6, ProductOrder
<1>8. (v * Q) * p <= ((in + 1) * t) * p
  BY <1>3, <1>5, ProductOrder
<1>9. /\ (out * Q) * Q = out * (Q * Q) /\ (v * p + p) * Q = (v * Q) * p + p * Q
      /\ ((in + 1) * t) * p = (in + 1) * (p * t)
  BY <1>1, <1>2, <1>3, <1>4
<1>10. {(v * Q) * p, p * Q, (in + 1) * (p * t), out * (Q * Q)} \subseteq Nat
  BY <1>1, <1>2, <1>3, <1>4, ProductType
<1> QED
  BY <1>3, <1>4, <1>7, <1>8, <1>9, <1>10

(* Part of the way, rounding the price down hides less than one of it.       *)
LEMMA FallPart ==
  ASSUME NEW liq \in Nat \ {0}, NEW p \in Nat, NEW in \in Nat, NEW to, NEW x, NEW out,
         x = (in * p) \div Q, to = (liq * p) \div (liq + x), to <= p,
         out = (liq * (p - to)) \div Q
  PROVE  /\ to \in Nat /\ out \in Nat
         /\ out * (Q * Q) <= in * (p * p) + CeilDiv(liq, Q) * (Q * Q)
<1> DEFINE c == CeilDiv(liq, Q)
<1>1. Q \in Nat \ {0} /\ in * p \in Nat /\ liq * p \in Nat
  BY QuoteAssumption, ProductType
<1>2. c \in Nat /\ liq <= c * Q /\ c * Q \in Nat
  BY <1>1, CeilAbove, ProductType
<1>3. x \in Nat /\ x * Q <= in * p
  BY <1>1, QuotientType
<1>4. to \in Nat
  BY <1>1, <1>3, QuotientType
<1>5. liq * (p - to) \in Nat /\ liq * (p - to) < x * p + liq
  BY <1>3, <1>4, ProductType, FallBelow
<1>6. out \in Nat /\ out * Q <= liq * (p - to)
  BY <1>1, <1>5, QuotientType
<1> HIDE DEF c
<1>7. x * p \in Nat /\ out * Q \in Nat /\ out * Q <= x * p + c * Q
  BY <1>1, <1>2, <1>3, <1>5, <1>6, ProductType
<1>8. (out * Q) * Q <= (x * p + c * Q) * Q
  BY <1>1, <1>2, <1>7, ProductOrder
<1>9. (x * Q) * p <= (in * p) * p
  BY <1>1, <1>3, ProductType, ProductOrder
<1>10. /\ (out * Q) * Q = out * (Q * Q) /\ (x * p + c * Q) * Q = (x * Q) * p + c * (Q * Q)
       /\ (in * p) * p = in * (p * p)
  BY <1>1, <1>2, <1>3, <1>6
<1>11. {(x * Q) * p, c * (Q * Q), in * (p * p), out * (Q * Q)} \subseteq Nat
  BY <1>1, <1>2, <1>3, <1>6, ProductType
<1> QED
  BY <1>4, <1>6, <1>8, <1>9, <1>10, <1>11 DEF c

(* What a rising price pays, over v of the quotient by the price it leaves.  *)
LEMMA RisePays ==
  ASSUME NEW d \in Nat, NEW p \in Nat \ {0}, NEW t \in Nat, p <= t, NEW v, NEW out,
         v = d \div p, out = (v * Q) \div t
  PROVE  out \in Nat /\ out * (p * p) <= d * Q /\ out * (p * t) <= d * Q
<1>1. Q \in Nat \ {0} /\ t \in Nat \ {0}
  BY QuoteAssumption
<1>2. v \in Nat /\ v * p <= d /\ v * Q \in Nat /\ v * p \in Nat
  BY <1>1, QuotientType, ProductType
<1>3. out \in Nat /\ out * t <= v * Q
  BY <1>1, <1>2, QuotientType
<1>4. out * p <= out * t /\ out * p \in Nat /\ out * t \in Nat
  BY <1>1, <1>3, ProductOrder, ProductType
<1>5. (out * t) * p <= (v * Q) * p /\ (v * p) * Q <= d * Q /\ (out * p) * p <= (out * t) * p
  BY <1>1, <1>2, <1>3, <1>4, ProductOrder
<1>6. (v * Q) * p = (v * p) * Q /\ (out * t) * p = out * (p * t) /\ (out * p) * p = out * (p * p)
  BY <1>1, <1>2, <1>3
<1>7. {out * (p * t), out * (p * p), (v * p) * Q, d * Q} \subseteq Nat
  BY <1>1, <1>2, <1>3, ProductType
<1> QED
  BY <1>3, <1>5, <1>6, <1>7

(* All the way up, less than one unit of the input is hidden; part of it     *)
(* none.                                                                    *)
LEMMA RiseWhole ==
  ASSUME NEW liq \in Nat, NEW p \in Nat \ {0}, NEW t \in Nat, p <= t,
         NEW v, NEW in, NEW out,
         in = (liq * (t - p)) \div Q, v = (liq * (t - p)) \div p, out = (v * Q) \div t
  PROVE  /\ in \in Nat /\ out \in Nat
         /\ out * (p * t) <= (in + 1) * (Q * Q) /\ out * (p * p) <= (in + 1) * (Q * Q)
<1> DEFINE d == liq * (t - p)
<1>1. Q \in Nat \ {0} /\ d \in Nat
  BY QuoteAssumption, ProductType
<1>2. in \in Nat /\ d <= (in + 1) * Q /\ (in + 1) * Q \in Nat
  BY <1>1, QuotientType, ProductType
<1>3. out \in Nat /\ out * (p * p) <= d * Q /\ out * (p * t) <= d * Q
  BY <1>1, RisePays
<1> HIDE DEF d
<1>4. d * Q <= ((in + 1) * Q) * Q /\ ((in + 1) * Q) * Q = (in + 1) * (Q * Q)
  BY <1>1, <1>2, ProductOrder
<1>5. {out * (p * p), out * (p * t), d * Q, (in + 1) * (Q * Q)} \subseteq Nat
  BY <1>1, <1>2, <1>3, ProductType
<1> QED
  BY <1>2, <1>3, <1>4, <1>5

(* A step that ends before its target, upwards.                              *)
LEMMA RisePart ==
  ASSUME NEW liq \in Nat \ {0}, NEW p \in Nat \ {0}, NEW in \in Nat, NEW rise, NEW v, NEW out,
         rise = (in * Q) \div liq, v = (liq * rise) \div p, out = (v * Q) \div (p + rise)
  PROVE  /\ rise \in Nat /\ out \in Nat
         /\ out * (p * (p + rise)) <= in * (Q * Q) /\ out * (p * p) <= in * (Q * Q)
<1> DEFINE d == liq * rise
<1>1. Q \in Nat \ {0} /\ in * Q \in Nat
  BY QuoteAssumption, ProductType
<1>2. rise \in Nat /\ d <= in * Q /\ d \in Nat
  BY <1>1, QuotientType, ProductType
<1> HIDE DEF d
<1>3. out \in Nat /\ out * (p * p) <= d * Q /\ out * (p * (p + rise)) <= d * Q
  <2>1. p + rise \in Nat /\ p <= p + rise
    BY <1>2
  <2> QED
    BY <1>2, <2>1, RisePays DEF d
<1>4. d * Q <= (in * Q) * Q /\ (in * Q) * Q = in * (Q * Q)
  BY <1>1, <1>2, ProductOrder
<1>5. {out * (p * p), out * (p * (p + rise)), d * Q, in * (Q * Q)} \subseteq Nat
  BY <1>1, <1>2, <1>3, ProductType
<1> QED
  BY <1>2, <1>3, <1>4, <1>5

(* A step that succeeds goes all the way or takes all that is left.           *)
LEMMA StepCases ==
  ASSUME NEW p, NEW t, NEW liq, NEW left \in Nat, NEW ab \in BOOLEAN,
         SwapStep(p, t, liq, left, ab).in # None
  PROVE  LET step == SwapStep(p, t, liq, left, ab)
             most == MostIn(p, t, liq, ab)
             to   == PriceAfter(p, liq, left, ab)
         IN  /\ most # None
             /\ \/ /\ left >= most
                   /\ step.in = most /\ step.price = t /\ step.out = Paid(p, t, liq, ab)
                   /\ Paid(p, t, liq, ab) # None
                \/ /\ to # None
                   /\ step.in = left /\ step.price = to /\ step.out = Paid(p, to, liq, ab)
                   /\ Paid(p, to, liq, ab) # None
<1> DEFINE step == SwapStep(p, t, liq, left, ab)
           most == MostIn(p, t, liq, ab)
           to   == PriceAfter(p, liq, left, ab)
<1>1. ASSUME NEW q, NEW x, StepEndingAt(p, q, liq, x, ab).in # None
      PROVE  LET e == StepEndingAt(p, q, liq, x, ab)
             IN  /\ x # None /\ q # None /\ Paid(p, q, liq, ab) # None
                 /\ e.in = x /\ e.price = q /\ e.out = Paid(p, q, liq, ab)
  <2> DEFINE paid == Paid(p, q, liq, ab)
             e == StepEndingAt(p, q, liq, x, ab)
  <2>1. /\ x # None /\ q # None /\ paid # None
        /\ e = [in |-> x, out |-> paid, price |-> q]
    BY <1>1 DEF StepEndingAt, Stepped
  <2> HIDE DEF e, paid
  <2>2. e.in = x /\ e.out = paid /\ e.price = q
    BY <2>1
  <2> QED
    BY <2>1, <2>2 DEF e, paid
<1>2. CASE left >= most
  <2>1. step = StepEndingAt(p, t, liq, most, ab)
    BY <1>2 DEF SwapStep, StepTowards
  <2> HIDE DEF most, to
  <2> QED
    BY <1>1, <1>2, <2>1 DEF most, to
<1>3. CASE ~(left >= most)
  <2>1. step = StepEndingAt(p, to, liq, left, ab)
    BY <1>3 DEF SwapStep, StepTowards
  <2> HIDE DEF most, to
  <2>2. most # None
    BY <1>3 DEF None
  <2> QED
    BY <1>1, <2>1, <2>2 DEF most, to
<1> QED
  BY <1>2, <1>3

(* What a falling price and a rising price pay.                              *)
LEMMA PaysDown ==
  ASSUME NEW p, NEW liq, NEW q, NEW ab, ab, Paid(p, q, liq, ab) # None
  PROVE  ~(p < q) /\ Paid(p, q, liq, ab) = (liq * (p - q)) \div Q
<1> DEFINE paid == Paid(p, q, liq, ab)
<1>1. Mul(liq, Sub(p, q)) # None /\ paid = Mul(liq, Sub(p, q)) \div Q
  BY Checked DEF Paid, PaidDown
<1>2. Sub(p, q) # None /\ Mul(liq, Sub(p, q)) = liq * Sub(p, q)
  BY <1>1, Checked
<1>3. ~(p < q) /\ Sub(p, q) = p - q
  BY <1>2, Checked
<1> HIDE DEF paid
<1> QED
  BY <1>1, <1>2, <1>3 DEF paid

(* What a rising price pays.                                                 *)
LEMMA PaysUp ==
  ASSUME NEW p, NEW liq, NEW q, NEW ab, ~ab, Paid(p, q, liq, ab) # None
  PROVE  p # 0 /\ Paid(p, q, liq, ab) = (((liq * (q - p)) \div p) * Q) \div q
<1> DEFINE paid == Paid(p, q, liq, ab)
           v == Div(Mul(liq, Sub(q, p)), p)
<1>1. Mul(v, Q) # None /\ paid = Mul(v, Q) \div q
  BY Checked DEF Paid, PaidUp
<1>2. v # None /\ Mul(v, Q) = v * Q
  BY <1>1, Checked
<1>3. Mul(liq, Sub(q, p)) # None /\ p # 0 /\ v = Mul(liq, Sub(q, p)) \div p
  BY <1>2, Checked
<1>4. Sub(q, p) # None /\ Mul(liq, Sub(q, p)) = liq * Sub(q, p)
  BY <1>3, Checked
<1>5. Sub(q, p) = q - p
  BY <1>4, Checked
<1> HIDE DEF v, paid
<1> QED
  BY <1>1, <1>2, <1>3, <1>4, <1>5 DEF paid

(* Where a trade within a range takes a price.                               *)
LEMMA PriceAfterDown ==
  ASSUME NEW p \in Nat, NEW liq \in Nat \ {0}, NEW x \in Nat, NEW ab, ab,
         PriceAfter(p, liq, x, ab) # None
  PROVE  /\ PriceAfter(p, liq, x, ab) = (liq * p) \div (liq + (x * p) \div Q)
         /\ PriceAfter(p, liq, x, ab) \in Nat
<1> DEFINE to == PriceAfter(p, liq, x, ab)
           y  == Div(Mul(x, p), Q)
           d  == liq + (x * p) \div Q
<1>1. to = Div(Mul(liq, p), Add(liq, y))
  BY DEF PriceAfter, NewPriceDown
<1>2. Mul(liq, p) # None /\ Add(liq, y) # None /\ to = Mul(liq, p) \div Add(liq, y)
  BY <1>1, Checked
<1>3. y # None /\ Add(liq, y) = liq + y /\ Mul(liq, p) = liq * p
  BY <1>2, Checked
<1>4. Mul(x, p) # None /\ y = Mul(x, p) \div Q
  BY <1>3, Checked
<1>5. Mul(x, p) = x * p
  BY <1>4, Checked
<1>6. d \in Nat \ {0} /\ liq * p \in Nat
  BY QuoteAssumption, QuotientType, ProductType
<1> HIDE DEF to, y
<1>7. to = (liq * p) \div d
  BY <1>2, <1>3, <1>4, <1>5
<1>8. to \in Nat
  BY <1>6, <1>7, QuotientType
<1> QED
  BY <1>7, <1>8 DEF to

(* Where a price rises to.                                                   *)
LEMMA PriceAfterUp ==
  ASSUME NEW p \in Nat, NEW liq \in Nat \ {0}, NEW x \in Nat, NEW ab, ~ab,
         PriceAfter(p, liq, x, ab) # None
  PROVE  /\ PriceAfter(p, liq, x, ab) = p + (x * Q) \div liq
         /\ (x * Q) \div liq \in Nat
<1> DEFINE to == PriceAfter(p, liq, x, ab)
           rise == Div(Mul(x, Q), liq)
<1>1. rise # None /\ to = p + rise
  BY Checked DEF PriceAfter, NewPriceUp
<1>2. Mul(x, Q) # None /\ rise = Mul(x, Q) \div liq
  BY <1>1, Checked
<1>3. Mul(x, Q) = x * Q
  BY <1>2, Checked
<1>4. (x * Q) \div liq \in Nat
  BY QuoteAssumption, QuotientType, ProductType
<1> HIDE DEF to, rise
<1> QED
  BY <1>1, <1>2, <1>3, <1>4 DEF to

(* What a step takes, pays and does to the price: all the way to t or part    *)
(* of it, where the price falls and where it rises.                          *)
Falls(step, p, t, liq, left) ==
  /\ p # 0 /\ t # 0 /\ t <= p
  /\ \/ /\ step.price = t /\ step.in <= left
        /\ step.in = (((liq * (p - t)) \div p) * Q) \div t
        /\ step.out = (liq * (p - t)) \div Q
     \/ /\ step.in = left /\ step.price <= p /\ step.price \in Nat
        /\ step.price = (liq * p) \div (liq + (left * p) \div Q)
        /\ step.out = (liq * (p - step.price)) \div Q

Rises(step, p, t, liq, left) ==
  LET rise == (left * Q) \div liq
  IN  /\ p # 0 /\ p <= t
      /\ \/ /\ step.price = t /\ step.in <= left
            /\ step.in = (liq * (t - p)) \div Q
            /\ step.out = (((liq * (t - p)) \div p) * Q) \div t
         \/ /\ step.in = left /\ step.price = p + rise
            /\ step.out = (((liq * rise) \div p) * Q) \div (p + rise)

(* A step of a falling price.                                               *)
LEMMA StepDown ==
  ASSUME NEW p \in Nat, NEW t \in Nat, NEW liq \in Nat \ {0}, NEW left \in Nat,
         NEW ab \in BOOLEAN, SwapStep(p, t, liq, left, ab).in # None
  PROVE  ab => Falls(SwapStep(p, t, liq, left, ab), p, t, liq, left)
<1> DEFINE step == SwapStep(p, t, liq, left, ab)
           most == MostIn(p, t, liq, ab)
           to   == PriceAfter(p, liq, left, ab)
<1>1. /\ most # None
      /\ \/ /\ left >= most
            /\ step.in = most /\ step.price = t /\ step.out = Paid(p, t, liq, ab)
            /\ Paid(p, t, liq, ab) # None
         \/ /\ to # None
            /\ step.in = left /\ step.price = to /\ step.out = Paid(p, to, liq, ab)
            /\ Paid(p, to, liq, ab) # None
  BY StepCases
<1> HIDE DEF step, to, most
<1>2. ASSUME ab
      PROVE  p # 0 /\ t # 0 /\ t <= p /\ most = (((liq * (p - t)) \div p) * Q) \div t
             /\ most \in Nat
  <2> DEFINE v == Div(Mul(liq, Sub(p, t)), p)
  <2>1. most = Div(Mul(v, Q), t)
    BY <1>2 DEF MostIn, most
  <2>2. Mul(v, Q) # None /\ t # 0 /\ most = Mul(v, Q) \div t
    BY <1>1, <2>1, Checked
  <2>3. v # None /\ Mul(v, Q) = v * Q
    BY <2>2, Checked
  <2>4. Mul(liq, Sub(p, t)) # None /\ p # 0 /\ v = Mul(liq, Sub(p, t)) \div p
    BY <2>3, Checked
  <2>5. Sub(p, t) # None /\ Mul(liq, Sub(p, t)) = liq * Sub(p, t)
    BY <2>4, Checked
  <2>6. ~(p < t) /\ Sub(p, t) = p - t
    BY <2>5, Checked
  <2> HIDE DEF v
  <2>7. most = (((liq * (p - t)) \div p) * Q) \div t /\ t <= p
    BY <2>2, <2>3, <2>4, <2>5, <2>6
  <2>8. most \in Nat
    BY <2>2, <2>4, <2>7, FallWhole
  <2> QED
    BY <2>2, <2>4, <2>7, <2>8
<1>3. ASSUME ab, NEW q, Paid(p, q, liq, ab) # None
      PROVE  ~(p < q) /\ Paid(p, q, liq, ab) = (liq * (p - q)) \div Q
  BY <1>3, PaysDown
<1>4. ASSUME ab, to # None PROVE to = (liq * p) \div (liq + (left * p) \div Q) /\ to \in Nat
  BY <1>4, PriceAfterDown DEF to
<1>5. ASSUME ab, to # None, Paid(p, to, liq, ab) # None
      PROVE  to <= p /\ Paid(p, to, liq, ab) = (liq * (p - to)) \div Q
  <2>1. ~(p < to) /\ Paid(p, to, liq, ab) = (liq * (p - to)) \div Q
    BY <1>3, <1>5
  <2>2. to \in Nat
    BY <1>4, <1>5
  <2> QED
    BY <2>1, <2>2
<1> QED
  BY <1>1, <1>2, <1>3, <1>4, <1>5 DEF step, Falls

(* A step of a rising price.                                                *)
LEMMA StepUp ==
  ASSUME NEW p \in Nat, NEW t \in Nat, NEW liq \in Nat \ {0}, NEW left \in Nat,
         NEW ab \in BOOLEAN, SwapStep(p, t, liq, left, ab).in # None
  PROVE  ~ab => Rises(SwapStep(p, t, liq, left, ab), p, t, liq, left)
<1> DEFINE step == SwapStep(p, t, liq, left, ab)
           most == MostIn(p, t, liq, ab)
           to   == PriceAfter(p, liq, left, ab)
           rise == (left * Q) \div liq
<1>1. /\ most # None
      /\ \/ /\ left >= most
            /\ step.in = most /\ step.price = t /\ step.out = Paid(p, t, liq, ab)
            /\ Paid(p, t, liq, ab) # None
         \/ /\ to # None
            /\ step.in = left /\ step.price = to /\ step.out = Paid(p, to, liq, ab)
            /\ Paid(p, to, liq, ab) # None
  BY StepCases
<1> HIDE DEF step, to, most
<1>2. ASSUME ~ab PROVE p <= t /\ most = (liq * (t - p)) \div Q /\ most \in Nat
  <2>1. Mul(liq, Sub(t, p)) # None /\ most = Mul(liq, Sub(t, p)) \div Q
    BY <1>1, <1>2, Checked DEF MostIn, most
  <2>2. Sub(t, p) # None /\ Mul(liq, Sub(t, p)) = liq * Sub(t, p)
    BY <2>1, Checked
  <2>3. p <= t /\ Sub(t, p) = t - p
    BY <2>2, Checked
  <2>4. most = (liq * (t - p)) \div Q
    BY <2>1, <2>2, <2>3
  <2>5. liq * (t - p) \in Nat
    BY <2>3, ProductType
  <2> QED
    BY <2>3, <2>4, <2>5, QuoteAssumption, QuotientType
<1>3. ASSUME ~ab, NEW q, Paid(p, q, liq, ab) # None
      PROVE  p # 0 /\ Paid(p, q, liq, ab) = (((liq * (q - p)) \div p) * Q) \div q
  BY <1>3, PaysUp
<1>4. ASSUME ~ab, to # None PROVE to = p + rise /\ to - p = rise
  <2>1. to = p + rise /\ rise \in Nat
    BY <1>4, PriceAfterUp DEF to
  <2> HIDE DEF rise
  <2> QED
    BY <2>1
<1> HIDE DEF rise
<1> QED
  BY <1>1, <1>2, <1>3, <1>4 DEF step, rise, Rises

(* The side of the first price that a walk is on.                            *)
Beyond(p0, p, ab) == IF ab THEN p <= p0 ELSE p >= p0

(* Products of two keep the order.                                          *)
LEMMA ProductsOrder ==
  ASSUME NEW w \in Nat, NEW x \in Nat, NEW y \in Nat, NEW z \in Nat, w <= y, x <= z
  PROVE  w * x <= y * z
<1>1. w * x <= y * x /\ x * y <= z * y
  BY ProductOrder
<1>2. {w * x, y * x, y * z} \subseteq Nat /\ x * y = y * x /\ z * y = y * z
  BY ProductType
<1> QED
  BY <1>1, <1>2

(* What any step pays, measured at the first price.                          *)
LEMMA FallsWorth ==
  ASSUME NEW p0 \in Nat \ {0}, NEW p \in Nat, NEW t \in Nat, NEW liq \in Nat \ {0},
         NEW left \in Nat, NEW step, Falls(step, p, t, liq, left), p <= p0
  PROVE  /\ step.in \in 0..left /\ step.out \in Nat /\ step.price \in 0..p
         /\ step.out * (Q * Q) <= step.in * (p0 * p0) + (p0 * p0 + p0 * Q)
               + (IF step.in = left THEN CeilDiv(liq, Q) ELSE 0) * (Q * Q)
<1> DEFINE g == IF step.in = left THEN CeilDiv(liq, Q) ELSE 0
<1>1. /\ p # 0 /\ t # 0 /\ t <= p
      /\ \/ /\ step.price = t /\ step.in <= left
            /\ step.in = (((liq * (p - t)) \div p) * Q) \div t
            /\ step.out = (liq * (p - t)) \div Q
         \/ /\ step.in = left /\ step.price <= p /\ step.price \in Nat
            /\ step.price = (liq * p) \div (liq + (left * p) \div Q)
            /\ step.out = (liq * (p - step.price)) \div Q
  BY DEF Falls
<1>2. Q \in Nat \ {0} /\ g \in Nat
  BY QuoteAssumption, CeilAbove
<1>3. {p0 * p0, p0 * Q, Q * Q, g * (Q * Q)} \subseteq Nat
  BY <1>2, ProductType
<1>4. p * p <= p0 * p0 /\ p * Q <= p0 * Q
  BY <1>2, ProductsOrder
<1>5. CASE /\ step.price = t /\ step.in <= left
           /\ step.in = (((liq * (p - t)) \div p) * Q) \div t
           /\ step.out = (liq * (p - t)) \div Q
  <2>1. /\ step.in \in Nat /\ step.out \in Nat
        /\ step.out * (Q * Q) <= (step.in + 1) * (p * t) + p * Q
    BY <1>1, <1>5, FallWhole
  <2>2. p * t <= p0 * p0 /\ p * t \in Nat /\ p * Q \in Nat
    BY <1>1, <1>2, ProductsOrder, ProductType
  <2> HIDE DEF g
  <2>3. (step.in + 1) * (p * t) <= (step.in + 1) * (p0 * p0)
    BY <1>3, <2>1, <2>2, ProductsOrder
  <2>4. (step.in + 1) * (p0 * p0) = step.in * (p0 * p0) + p0 * p0
    BY <1>3, <2>1
  <2>5. {step.out * (Q * Q), step.in * (p0 * p0), (step.in + 1) * (p * t)} \subseteq Nat
    BY <1>3, <2>1, <2>2, ProductType
  <2>6. step.out * (Q * Q) <= step.in * (p0 * p0) + (p0 * p0 + p0 * Q) + g * (Q * Q)
    BY <1>3, <1>4, <2>1, <2>2, <2>3, <2>4, <2>5
  <2> QED
    BY <1>1, <1>5, <2>1, <2>6 DEF g
<1>6. CASE /\ step.in = left /\ step.price <= p /\ step.price \in Nat
           /\ step.price = (liq * p) \div (liq + (left * p) \div Q)
           /\ step.out = (liq * (p - step.price)) \div Q
  <2>1. step.out \in Nat /\ step.out * (Q * Q) <= left * (p * p) + g * (Q * Q)
    BY <1>6, FallPart
  <2> HIDE DEF g
  <2>2. left * (p * p) <= left * (p0 * p0) /\ p * p \in Nat
    BY <1>3, <1>4, ProductsOrder, ProductType
  <2>3. {step.out * (Q * Q), left * (p0 * p0), left * (p * p)} \subseteq Nat
    BY <1>3, <2>1, <2>2, ProductType
  <2>4. step.out * (Q * Q) <= step.in * (p0 * p0) + (p0 * p0 + p0 * Q) + g * (Q * Q)
    BY <1>3, <1>6, <2>1, <2>2, <2>3
  <2> QED
    BY <1>6, <2>1, <2>4 DEF g
<1> QED
  BY <1>1, <1>5, <1>6

(* The same upwards: a step pays one unit of the input more at most.         *)
LEMMA RisesWorth ==
  ASSUME NEW p0 \in Nat \ {0}, NEW p \in Nat, NEW t \in Nat, NEW liq \in Nat \ {0},
         NEW left \in Nat, NEW step, Rises(step, p, t, liq, left), p0 <= p
  PROVE  /\ step.in \in 0..left /\ step.out \in Nat /\ step.price \in Nat /\ p <= step.price
         /\ step.out * (p0 * p0) <= step.in * (Q * Q) + Q * Q
<1> DEFINE rise == (left * Q) \div liq
<1>1. /\ p # 0 /\ p <= t
      /\ \/ /\ step.price = t /\ step.in <= left
            /\ step.in = (liq * (t - p)) \div Q
            /\ step.out = (((liq * (t - p)) \div p) * Q) \div t
         \/ /\ step.in = left /\ step.price = p + rise
            /\ step.out = (((liq * rise) \div p) * Q) \div (p + rise)
  BY DEF Rises
<1>2. Q \in Nat \ {0} /\ {p0 * p0, p * p, Q * Q} \subseteq Nat /\ p0 * p0 <= p * p
  <2>1. Q \in Nat \ {0} /\ {p0 * p0, p * p, Q * Q} \subseteq Nat
    BY QuoteAssumption, ProductType
  <2>2. p0 * p0 <= p * p
    BY ProductsOrder
  <2> QED
    BY <2>1, <2>2
<1>3. ASSUME step.out \in Nat, step.in \in Nat, step.out * (p * p) <= (step.in + 1) * (Q * Q)
      PROVE  step.out * (p0 * p0) <= step.in * (Q * Q) + Q * Q
  <2>1. step.out * (p0 * p0) <= step.out * (p * p)
    BY <1>2, <1>3, ProductsOrder
  <2>2. (step.in + 1) * (Q * Q) = step.in * (Q * Q) + Q * Q
    BY <1>2, <1>3
  <2>3. {step.out * (p0 * p0), step.out * (p * p), step.in * (Q * Q)} \subseteq Nat
    BY <1>2, <1>3, ProductType
  <2> QED
    BY <1>2, <1>3, <2>1, <2>2, <2>3
<1>4. CASE /\ step.price = t /\ step.in <= left
           /\ step.in = (liq * (t - p)) \div Q
           /\ step.out = (((liq * (t - p)) \div p) * Q) \div t
  <2>1. step.in \in Nat /\ step.out \in Nat /\ step.out * (p * p) <= (step.in + 1) * (Q * Q)
    BY <1>1, <1>4, RiseWhole
  <2> QED
    BY <1>1, <1>3, <1>4, <2>1
<1>5. CASE /\ step.in = left /\ step.price = p + rise
           /\ step.out = (((liq * rise) \div p) * Q) \div (p + rise)
  <2>1. rise \in Nat /\ step.out \in Nat /\ step.out * (p * p) <= left * (Q * Q)
    BY <1>1, <1>5, RisePart
  <2> HIDE DEF rise
  <2>2. step.out * (p * p) <= (left + 1) * (Q * Q)
    <3>1. left * (Q * Q) <= (left + 1) * (Q * Q)
      BY <1>2, ProductOrder
    <3>2. {step.out * (p * p), left * (Q * Q), (left + 1) * (Q * Q)} \subseteq Nat
      BY <1>2, <2>1, ProductType
    <3> QED
      BY <2>1, <3>1, <3>2
  <2> QED
    BY <1>3, <1>5, <2>1, <2>2
<1> QED
  BY <1>1, <1>4, <1>5

(* A step in either direction, measured at a price that it moves away from.  *)
LEMMA StepWorth ==
  ASSUME NEW p0 \in Nat \ {0}, NEW p \in Nat, NEW t \in Nat, NEW liq \in Nat \ {0},
         NEW left \in Nat, NEW ab \in BOOLEAN, SwapStep(p, t, liq, left, ab).in # None,
         Beyond(p0, p, ab)
  PROVE  LET step == SwapStep(p, t, liq, left, ab) IN
         /\ step.in \in 0..left /\ step.out \in Nat /\ step.price \in Nat
         /\ Beyond(p0, step.price, ab)
         /\ step.out * Unit(p0, ab) <= step.in * Rate(p0, ab) + PerStep(p0, ab)
               + (IF step.in = left THEN PriceGain(liq, ab) ELSE 0) * Unit(p0, ab)
<1> DEFINE step == SwapStep(p, t, liq, left, ab)
           g == IF step.in = left THEN CeilDiv(liq, Q) ELSE 0
<1>1. /\ ab => Falls(step, p, t, liq, left) /\ p <= p0
      /\ ~ab => Rises(step, p, t, liq, left) /\ p0 <= p
  <2>1. (ab => Falls(step, p, t, liq, left)) /\ (~ab => Rises(step, p, t, liq, left))
    BY StepDown, StepUp, Zenon
  <2> HIDE DEF step
  <2> QED
    BY <2>1 DEF Beyond
<1> HIDE DEF step
<1>3. CASE ab
  <2>1. /\ step.in \in 0..left /\ step.out \in Nat /\ step.price \in 0..p
        /\ step.out * (Q * Q) <= step.in * (p0 * p0) + (p0 * p0 + p0 * Q) + g * (Q * Q)
    BY <1>1, <1>3, FallsWorth
  <2>2. /\ Unit(p0, ab) = Q * Q /\ Rate(p0, ab) = p0 * p0 /\ PerStep(p0, ab) = p0 * p0 + p0 * Q
        /\ PriceGain(liq, ab) = CeilDiv(liq, Q)
    BY <1>3 DEF Unit, Rate, PerStep, PriceGain
  <2>3. step.price \in Nat /\ Beyond(p0, step.price, ab)
    BY <1>1, <1>3, <2>1 DEF Beyond
  <2> QED
    BY <2>1, <2>2, <2>3 DEF step
<1>4. CASE ~ab
  <2>1. /\ step.in \in 0..left /\ step.out \in Nat /\ step.price \in Nat /\ p <= step.price
        /\ step.out * (p0 * p0) <= step.in * (Q * Q) + Q * Q
    BY <1>1, <1>4, RisesWorth
  <2>2. /\ Unit(p0, ab) = p0 * p0 /\ Rate(p0, ab) = Q * Q /\ PerStep(p0, ab) = Q * Q
        /\ PriceGain(liq, ab) = 0
    BY <1>4 DEF Unit, Rate, PerStep, PriceGain
  <2>3. step.price \in Nat /\ Beyond(p0, step.price, ab)
    BY <1>1, <1>4, <2>1 DEF Beyond
  <2>4. (IF step.in = left THEN 0 ELSE 0) * (p0 * p0) = 0
    BY ProductType
  <2>5. step.in * (Q * Q) + Q * Q \in Nat
    BY <2>1, QuoteAssumption, ProductType
  <2> QED
    BY <2>1, <2>2, <2>3, <2>4, <2>5 DEF step
<1> QED
  BY <1>3, <1>4

-----------------------------------------------------------------------------
(* A walk along ticks.  What it has paid after i of them, measured at the    *)
(* first price p0, is what it has taken, what i steps gain by rounding and,  *)
(* once nothing is left, what the last one gained.  d is the liquidity       *)
(* behind the same ticks, as the reference follows it.                       *)
WalkState(w) ==
  w = [left |-> w.left, out |-> w.out, price |-> w.price, liq |-> w.liq, fail |-> w.fail]

Paying(w, d, i, p0, net, ab) ==
  /\ w.left \in 0..net /\ w.out \in Nat /\ w.price \in Nat /\ Beyond(p0, w.price, ab)
  /\ w.left > 0 => w.liq = d.liq /\ w.liq \in Nat /\ w.liq <= d.most
  /\ w.out * Unit(p0, ab) <= (net - w.left) * Rate(p0, ab) + i * PerStep(p0, ab)
        + (IF w.left = 0 THEN PriceGain(d.most, ab) ELSE 0) * Unit(p0, ab)

Walked(w, d, i, p0, net, ab) ==
  /\ WalkState(w) /\ d.most \in Nat
  /\ ~w.fail => Paying(w, d, i, p0, net, ab)

(* Rounding up keeps the order.                                             *)
LEMMA GainOrder ==
  ASSUME NEW x \in Nat, NEW y \in Nat, x <= y, NEW ab \in BOOLEAN
  PROVE  PriceGain(x, ab) \in Nat /\ PriceGain(y, ab) \in Nat /\ PriceGain(x, ab) <= PriceGain(y, ab)
<1> DEFINE c == CeilDiv(x, Q)
           e == CeilDiv(y, Q)
<1>1. Q \in Nat \ {0} /\ c \in Nat /\ e \in Nat /\ y <= e * Q
  BY QuoteAssumption, CeilAbove
<1>2. c = (x + Q - 1) \div Q
  BY <1>1 DEF CeilDiv
<1>3. c * Q <= x + Q - 1
  BY <1>1, <1>2, QuotientType
<1> HIDE DEF c, e
<1>4. c * Q < (e + 1) * Q
  BY <1>1, <1>3, ProductType
<1>5. c <= e
  BY <1>1, <1>4
<1> QED
  BY <1>1, <1>5 DEF c, e, PriceGain

(* Crossing a tick leaves a liquidity or fails; the most only grows.         *)
LEMMA DeepenGrows ==
  ASSUME NEW d, d.most \in Nat, NEW tick, NEW ab
  PROVE  LET e == Deepen(d, tick, ab)
         IN  /\ e.liq = CrossTick(d.liq, tick, ab) /\ e.liq \in Nat \cup {None}
             /\ e.most \in Nat /\ d.most <= e.most /\ e.liq <= e.most
<1> DEFINE liq == CrossTick(d.liq, tick, ab)
<1>1. liq \in Nat \cup {None}
  <2>1. U128 \in Nat \ {0}
    BY QuoteAssumption, ProductType DEF U128
  <2> DEFINE r == IF ab THEN Signed(d.liq) - tick.net ELSE Signed(d.liq) + tick.net
  <2>2. ASSUME r \in -(U128 \div 2)..(U128 \div 2 - 1) PROVE r % U128 \in Nat
    BY <2>1, <2>2
  <2> QED
    BY <2>2 DEF CrossTick
<1>2. Deepen(d, tick, ab).liq = liq /\ Deepen(d, tick, ab).most = IF liq > d.most THEN liq ELSE d.most
  BY DEF Deepen
<1> HIDE DEF liq
<1> QED
  BY <1>1, <1>2 DEF None, liq

(* One more tick, where a step is taken.                                     *)
LEMMA StepOverPays ==
  ASSUME NEW p0 \in Nat \ {0}, NEW net \in Nat, NEW ab \in BOOLEAN, NEW i \in Nat,
         NEW w, NEW d, NEW e, NEW target \in Nat,
         Paying(w, d, i, p0, net, ab), w.left > 0, w.liq # 0,
         d.most \in Nat, e.most \in Nat, d.most <= e.most, e.liq <= e.most,
         e.liq \in Nat \cup {None}
  PROVE  LET v == StepOver(w, target, e.liq, SwapStep(w.price, target, w.liq, w.left, ab))
         IN  ~v.fail => Paying(v, e, i + 1, p0, net, ab)
<1> DEFINE step == SwapStep(w.price, target, w.liq, w.left, ab)
           v == StepOver(w, target, e.liq, step)
           liq == w.liq
           left == w.left
           g == IF step.in = left THEN PriceGain(liq, ab) ELSE 0
           h == IF v.left = 0 THEN PriceGain(e.most, ab) ELSE 0
           R == Rate(p0, ab)
           U == Unit(p0, ab)
           P == PerStep(p0, ab)
<1> SUFFICES ASSUME ~v.fail PROVE Paying(v, e, i + 1, p0, net, ab)
  OBVIOUS
<1>1. /\ left \in 1..net /\ liq \in Nat \ {0} /\ liq <= e.most /\ w.price \in Nat
      /\ Beyond(p0, w.price, ab) /\ w.out \in Nat
      /\ w.out * U <= (net - left) * R + i * P + 0 * U
  BY DEF Paying
<1>2. /\ v.left = left - Least(left, step.in) /\ v.out = w.out + step.out /\ v.price = step.price
      /\ v.liq = (IF step.price = target THEN e.liq ELSE liq)
      /\ step.in # None /\ v.liq # None
  BY DEF StepOver
<1>3. /\ step.in \in 0..left /\ step.out \in Nat /\ step.price \in Nat
      /\ Beyond(p0, step.price, ab)
      /\ step.out * U <= step.in * R + P + g * U
  <2>1. w.price \in Nat /\ w.left \in Nat /\ w.liq \in Nat \ {0}
    BY <1>1
  <2> QED
    BY <1>1, <1>2, <2>1, StepWorth, ZenonT(60)
<1>4. step.price = target \/ step.in = left
  BY <1>1, <1>2, StepCases
<1>5. R \in Nat /\ U \in Nat /\ P \in Nat
  BY RateType
<1> HIDE DEF step, v, R, U, P
<1>6. v.left = left - step.in /\ v.left \in 0..net /\ v.out \in Nat
  BY <1>1, <1>2, <1>3 DEF Least
<1>7. PriceGain(liq, ab) \in Nat /\ PriceGain(e.most, ab) \in Nat
      /\ PriceGain(liq, ab) <= PriceGain(e.most, ab)
  BY <1>1, GainOrder
<1>8. g \in Nat /\ h \in Nat /\ g <= h
  BY <1>1, <1>3, <1>6, <1>7
<1> HIDE DEF g, h, liq, left
<1>9. g * U <= h * U /\ {g * U, h * U} \subseteq Nat
  BY <1>5, <1>8, ProductOrder, ProductType
<1>10. /\ v.out * U = w.out * U + step.out * U
       /\ (net - v.left) * R = (net - left) * R + step.in * R
       /\ (i + 1) * P = i * P + P /\ 0 * U = 0
  BY <1>1, <1>2, <1>3, <1>5, <1>6 DEF left
<1>11. {w.out * U, step.out * U, (net - left) * R, step.in * R, i * P} \subseteq Nat
  BY <1>1, <1>3, <1>5, ProductType
<1>12. v.out * U <= (net - v.left) * R + (i + 1) * P + h * U
  BY <1>1, <1>3, <1>5, <1>9, <1>10, <1>11
<1>13. v.left > 0 => v.liq = e.liq /\ v.liq \in Nat /\ v.liq <= e.most
  BY <1>1, <1>2, <1>3, <1>4, <1>6 DEF left
<1> QED
  BY <1>2, <1>3, <1>6, <1>12, <1>13 DEF Paying, h, R, U, P

(* One more tick.                                                           *)
LEMMA VisitPays ==
  ASSUME NEW p0 \in Nat \ {0}, NEW net \in Nat, NEW ab \in BOOLEAN, NEW i \in Nat,
         NEW w, NEW d, NEW tick, Walked(w, d, i, p0, net, ab)
  PROVE  Walked(VisitTick(w, tick, ab), Deepen(d, tick, ab), i + 1, p0, net, ab)
<1> DEFINE e == Deepen(d, tick, ab)
           crossed == CrossTick(w.liq, tick, ab)
           target == TickPrice[tick.index]
           v == VisitTick(w, tick, ab)
           R == Rate(p0, ab)
           U == Unit(p0, ab)
           P == PerStep(p0, ab)
<1>1. WalkState(w) /\ d.most \in Nat /\ (~w.fail => Paying(w, d, i, p0, net, ab))
  BY DEF Walked
<1>2. /\ e.liq = CrossTick(d.liq, tick, ab) /\ e.liq \in Nat \cup {None}
      /\ e.most \in Nat /\ d.most <= e.most /\ e.liq <= e.most
  BY <1>1, DeepenGrows
<1>3. R \in Nat /\ U \in Nat /\ P \in Nat
  BY RateType
<1>4. PriceGain(d.most, ab) \in Nat /\ PriceGain(e.most, ab) \in Nat
      /\ PriceGain(d.most, ab) <= PriceGain(e.most, ab)
  BY <1>1, <1>2, GainOrder
<1>5. ASSUME NEW u, ~w.fail, u.left = w.left, u.out = w.out, u.price \in Nat, Beyond(p0, u.price, ab),
             u.left > 0 => u.liq = e.liq /\ u.liq \in Nat
      PROVE  Paying(u, e, i + 1, p0, net, ab)
  <2> DEFINE g == IF w.left = 0 THEN PriceGain(d.most, ab) ELSE 0
             h == IF w.left = 0 THEN PriceGain(e.most, ab) ELSE 0
  <2> HIDE DEF e, R, U, P
  <2>1. /\ w.left \in 0..net /\ w.out \in Nat
        /\ w.out * U <= (net - w.left) * R + i * P + g * U
    BY <1>1, <1>5 DEF Paying, R, U, P
  <2>2. g \in Nat /\ h \in Nat /\ g <= h
    BY <1>4
  <2> HIDE DEF g, h
  <2>3. g * U <= h * U /\ {g * U, h * U, i * P, w.out * U, (net - w.left) * R} \subseteq Nat
        /\ (i + 1) * P = i * P + P
    BY <1>3, <2>1, <2>2, ProductOrder, ProductType
  <2>4. w.out * U <= (net - w.left) * R + (i + 1) * P + h * U
    BY <1>3, <2>1, <2>3
  <2> QED
    BY <1>2, <1>5, <2>1, <2>4 DEF Paying, h, R, U, P
<1> HIDE DEF e, R, U, P
<1>6. CASE w.fail \/ w.left = 0
  <2>1. v = w
    BY <1>6 DEF VisitTick
  <2>2. ASSUME ~w.fail PROVE Paying(w, e, i + 1, p0, net, ab)
    <3>1. w.left = 0 /\ w.price \in Nat /\ Beyond(p0, w.price, ab)
      BY <1>1, <1>6, <2>2 DEF Paying
    <3> QED
      BY <1>5, <2>2, <3>1
  <2> HIDE DEF v
  <2> QED
    BY <1>1, <1>2, <2>1, <2>2 DEF Walked, e, v
<1>7. CASE ~(w.fail \/ w.left = 0) /\ tick.index \notin DOMAIN TickPrice
  <2>1. v = [w EXCEPT !.fail = TRUE]
    BY <1>7 DEF VisitTick
  <2>2. WalkState(v) /\ v.fail
    BY <1>1, <2>1 DEF WalkState
  <2> HIDE DEF v
  <2> QED
    BY <1>2, <2>2 DEF Walked, e, v
<1>8. CASE ~(w.fail \/ w.left = 0) /\ tick.index \in DOMAIN TickPrice
  <2>1. /\ w.left > 0 /\ w.left \in 0..net /\ w.liq = d.liq /\ w.liq \in Nat
        /\ w.price \in Nat /\ Beyond(p0, w.price, ab) /\ Paying(w, d, i, p0, net, ab)
    BY <1>1, <1>8 DEF Paying
  <2>2. v = ReachTick(w, target, crossed, ab) /\ crossed = e.liq
    BY <1>2, <1>8, <2>1 DEF VisitTick
  <2>3. target \in Nat
    <3>1. target \in MinPrice..MaxPrice
      BY <1>8, QuoteAssumption
    <3> QED
      BY <3>1, QuoteAssumption
  <2> HIDE DEF v, target, crossed
  <2>4. CASE IF ab THEN target >= w.price ELSE target <= w.price
    <3>1. v = [w EXCEPT !.liq = crossed, !.fail = crossed = None]
      BY <2>2, <2>4 DEF ReachTick
    <3>2. /\ WalkState(v) /\ v.fail = (crossed = None)
          /\ v.left = w.left /\ v.out = w.out /\ v.price = w.price /\ v.liq = crossed
      BY <1>1, <3>1 DEF WalkState
    <3>3. ~v.fail => Paying(v, e, i + 1, p0, net, ab)
      BY <1>2, <1>5, <1>8, <2>1, <2>2, <3>2
    <3> QED
      BY <1>2, <3>2, <3>3 DEF Walked, e, v
  <2>5. CASE ~(IF ab THEN target >= w.price ELSE target <= w.price) /\ w.liq = 0
    <3>1. v = [w EXCEPT !.price = target, !.liq = crossed, !.fail = crossed = None]
      BY <2>2, <2>5 DEF ReachTick
    <3>2. /\ WalkState(v) /\ v.fail = (crossed = None)
          /\ v.left = w.left /\ v.out = w.out /\ v.price = target /\ v.liq = crossed
      BY <1>1, <3>1 DEF WalkState
    <3>3. Beyond(p0, target, ab)
      BY <2>1, <2>3, <2>5 DEF Beyond
    <3>4. ~v.fail => Paying(v, e, i + 1, p0, net, ab)
      BY <1>2, <1>5, <1>8, <2>1, <2>2, <2>3, <3>2, <3>3
    <3> QED
      BY <1>2, <3>2, <3>4 DEF Walked, e, v
  <2>6. CASE ~(IF ab THEN target >= w.price ELSE target <= w.price) /\ w.liq # 0
    <3>1. v = StepOver(w, target, e.liq, SwapStep(w.price, target, w.liq, w.left, ab))
      BY <2>2, <2>6 DEF ReachTick
    <3>2. WalkState(v)
      BY <3>1 DEF StepOver, WalkState
    <3>3. ~v.fail => Paying(v, e, i + 1, p0, net, ab)
      BY <1>1, <1>2, <2>1, <2>3, <2>6, <3>1, StepOverPays
    <3> QED
      BY <1>2, <3>2, <3>3 DEF Walked, e, v
  <2> QED
    BY <2>4, <2>5, <2>6
<1> QED
  BY <1>6, <1>7, <1>8 DEF v

(* A whole walk.                                                            *)
LEMMA WalkBelow ==
  ASSUME NEW pool, IsFiniteSet(pool.ticks), pool.price \in Nat \ {0}, pool.liq \in Nat \ {0},
         pool.fee \in Nat, NEW in \in Nat, NEW ab \in BOOLEAN, MultiTick(pool, in, ab) # None
  PROVE  LET out == MultiTick(pool, in, ab)
             net == AfterFee(pool, in)
             steps == Len(TicksReached(pool, ab)) + 1
         IN  /\ out \in Nat /\ net \in Nat /\ net * Bps <= in * (Bps - pool.fee)
             /\ pool.fee \in 0..Bps
             /\ steps \in Nat /\ Depth(pool, ab).most \in Nat
             /\ out * Unit(pool.price, ab) <= net * Rate(pool.price, ab)
                  + steps * PerStep(pool.price, ab)
                  + PriceGain(Depth(pool, ab).most, ab) * Unit(pool.price, ab)
<1> DEFINE p0 == pool.price
           net == AfterFee(pool, in)
           out == MultiTick(pool, in, ab)
           seq == TicksReached(pool, ab)
           R == Rate(p0, ab)
           U == Unit(p0, ab)
           P == PerStep(p0, ab)
           start == [left |-> net, out |-> 0, price |-> pool.price, liq |-> pool.liq, fail |-> FALSE]
           top == [liq |-> pool.liq, most |-> pool.liq, plain |-> pool.liq]
           end == TicksFold(ab, start, seq)
<1>1. net # None /\ out # None
  BY DEF MultiTick
<1>2. net \in Nat /\ net * Bps <= in * (Bps - pool.fee) /\ pool.fee \in 0..Bps
  BY <1>1, AfterFeeBelow
<1>3. R \in Nat /\ U \in Nat /\ P \in Nat
  BY RateType
<1>4. PICK N \in Nat : DOMAIN seq = 1..N /\ Len(seq) = N
  BY TicksReachedSeq
<1>5. PICK w : /\ w[0] = start /\ end = w[N]
               /\ \A i \in 0..(N - 1) : w[i + 1] = VisitTick(w[i], seq[i + 1], ab)
  <2> HIDE DEF start, seq
  <2>1. end = TicksFold(ab, start, seq)
    OBVIOUS
  <2>2. DOMAIN seq = 1..N
    BY <1>4
  <2> HIDE DEF end
  <2>3. PICK w : TicksWalk(w, ab, start, seq, N, end)
    BY <2>1, <2>2, TicksWalked
  <2> QED
    BY <2>3 DEF TicksWalk
<1>6. PICK d : /\ d[0] = top /\ Depth(pool, ab) = d[N]
               /\ \A i \in 0..(N - 1) : d[i + 1] = Deepen(d[i], seq[i + 1], ab)
  <2> DEFINE deep == Depth(pool, ab)
  <2>1. deep = DepthFold(ab, top, seq)
    BY DEF Depth, DepthFold
  <2> HIDE DEF top, seq, deep
  <2>2. DOMAIN seq = 1..N
    BY <1>4
  <2>3. PICK d : DepthWalk(d, ab, top, seq, N, deep)
    BY <2>1, <2>2, DepthWalked
  <2> QED
    BY <2>3 DEF DepthWalk, deep
<1> HIDE DEF seq, end
<1> DEFINE S == {i \in Nat : i <= N => Walked(w[i], d[i], i, p0, net, ab)}
<1>7. 0 \in S
  <2>1. /\ WalkState(start) /\ top.most \in Nat
        /\ start.left = net /\ start.out = 0 /\ start.price = p0 /\ start.liq = pool.liq
        /\ top.liq = pool.liq /\ top.most = pool.liq
    BY DEF WalkState
  <2> DEFINE g == IF net = 0 THEN PriceGain(top.most, ab) ELSE 0
  <2>2. g \in Nat /\ g * U \in Nat
    <3>1. PriceGain(top.most, ab) \in Nat
      BY <2>1, GainOrder
    <3> HIDE DEF U
    <3> QED
      BY <1>3, <3>1, ProductType
  <2> HIDE DEF start, top, R, U, P, net, g
  <2>3. 0 * U <= (net - net) * R + 0 * P + g * U
    BY <1>2, <1>3, <2>2
  <2>4. Beyond(p0, p0, ab)
    BY DEF Beyond
  <2>5. Paying(start, top, 0, p0, net, ab)
    BY <1>2, <2>1, <2>3, <2>4 DEF Paying, g, R, U, P
  <2> QED
    BY <1>5, <1>6, <2>1, <2>5 DEF Walked
<1>8. ASSUME NEW n \in Nat, n \in S PROVE n + 1 \in S
  <2> SUFFICES ASSUME n + 1 <= N PROVE Walked(w[n + 1], d[n + 1], n + 1, p0, net, ab)
    OBVIOUS
  <2>1. Walked(w[n], d[n], n, p0, net, ab) /\ n \in 0..(N - 1)
    BY <1>4, <1>8
  <2>2. w[n + 1] = VisitTick(w[n], seq[n + 1], ab) /\ d[n + 1] = Deepen(d[n], seq[n + 1], ab)
    BY <1>5, <1>6, <2>1
  <2>3. Walked(VisitTick(w[n], seq[n + 1], ab), Deepen(d[n], seq[n + 1], ab), n + 1, p0, net, ab)
    BY <1>2, <2>1, VisitPays
  <2> QED
    BY <2>2, <2>3
<1>9. Walked(end, Depth(pool, ab), N, p0, net, ab)
  <2> HIDE DEF S
  <2>1. N \in S
    BY <1>4, <1>7, <1>8, SetInduction
  <2> QED
    BY <1>4, <1>5, <1>6, <2>1 DEF S
<1>10. PriceGain(Depth(pool, ab).most, ab) \in Nat /\ Depth(pool, ab).most \in Nat
  BY <1>9, GainOrder DEF Walked
<1> DEFINE g == PriceGain(Depth(pool, ab).most, ab)
<1>11. CASE net = 0
  <2>1. out = 0
    BY <1>11 DEF MultiTick, None
  <2> HIDE DEF out, R, U, P, net, g
  <2>2. {net * R, (N + 1) * P, g * U} \subseteq Nat /\ out * U = 0
    BY <1>2, <1>3, <1>10, <2>1, ProductType DEF g
  <2>3. out * U <= net * R + (N + 1) * P + g * U
    BY <2>2
  <2> QED
    BY <1>2, <1>4, <1>10, <2>1, <2>3 DEF out, R, U, P, net, g, seq
<1>12. CASE net # 0
  <2>1. out = PaidAlong(end, ab)
    BY <1>1, <1>12, Zenon DEF MultiTick, TicksFold, start, end, seq
  <2> HIDE DEF out, end, net
  <2> DEFINE rest == SwapStep(end.price, IF ab THEN MinPrice ELSE MaxPrice, end.liq, end.left, ab)
             more == PaidBehind(end, ab)
  <2>2. ~end.fail /\ out = end.out + more
    BY <1>1, <2>1, Checked DEF PaidAlong
  <2>3. Paying(end, Depth(pool, ab), N, p0, net, ab)
    BY <1>9, <2>2 DEF Walked
  <2> HIDE DEF R, U, P, g
  <2>4. /\ end.left \in 0..net /\ end.out \in Nat /\ end.price \in Nat
        /\ Beyond(p0, end.price, ab)
        /\ end.left > 0 => end.liq \in Nat /\ end.liq <= Depth(pool, ab).most
        /\ end.out * U <= (net - end.left) * R + N * P + (IF end.left = 0 THEN g ELSE 0) * U
    BY <2>3 DEF Paying, R, U, P, g
  <2>5. (IF end.left = 0 THEN g ELSE 0) * U <= g * U
        /\ {g * U, (IF end.left = 0 THEN g ELSE 0) * U} \subseteq Nat
    BY <1>3, <1>10, ProductOrder, ProductType DEF g
  <2>6. /\ (N + 1) * P = N * P + P /\ (net - end.left) * R = net * R - end.left * R
        /\ {N * P, net * R, end.left * R, end.out * U} \subseteq Nat
    <3>1. end.left \in Nat /\ end.out \in Nat
      BY <1>2, <2>4
    <3>2. {N * P, net * R, end.left * R, end.out * U} \subseteq Nat
      BY <1>2, <1>3, <3>1, ProductType
    <3> QED
      BY <1>2, <1>3, <3>1, <3>2
  <2>7. CASE more = 0
    <3>1. out = end.out /\ out \in Nat
      BY <2>2, <2>4, <2>7
    <3>2. out * U <= net * R + (N + 1) * P + g * U
      BY <1>3, <2>4, <2>5, <2>6, <3>1
    <3> QED
      BY <1>2, <1>4, <1>10, <3>1, <3>2 DEF out, R, U, P, net, g, seq
  <2>8. CASE more # 0
    <3>1. more = rest.out /\ end.left > 0 /\ end.liq > 0 /\ rest.in # None
      BY <2>8 DEF PaidBehind
    <3>2. end.liq \in Nat \ {0} /\ end.left \in Nat /\ end.price \in Nat
      BY <2>4, <3>1
    <3> DEFINE t == IF ab THEN MinPrice ELSE MaxPrice
               h == IF rest.in = end.left THEN PriceGain(end.liq, ab) ELSE 0
    <3>3. t \in Nat
      BY QuoteAssumption
    <3>4. /\ rest.in \in 0..end.left /\ rest.out \in Nat
          /\ rest.out * U <= rest.in * R + P + h * U
      <4> HIDE DEF t
      <4> DEFINE step == SwapStep(end.price, t, end.liq, end.left, ab)
      <4>1. step.in # None
        BY <3>1 DEF t
      <4>2. /\ step.in \in 0..end.left /\ step.out \in Nat
            /\ step.out * Unit(p0, ab) <= step.in * Rate(p0, ab) + PerStep(p0, ab)
                 + (IF step.in = end.left THEN PriceGain(end.liq, ab) ELSE 0) * Unit(p0, ab)
        BY <2>4, <3>2, <3>3, <4>1, StepWorth, ZenonT(60)
      <4> QED
        BY <4>2 DEF t, R, U, P
    <3>5. PriceGain(end.liq, ab) \in Nat /\ PriceGain(end.liq, ab) <= g
      BY <1>10, <2>4, <3>1, <3>2, GainOrder DEF g
    <3>6. h \in Nat /\ h <= g
      BY <1>10, <3>5 DEF g
    <3> HIDE DEF h, rest
    <3>7. h * U <= g * U /\ h * U \in Nat /\ rest.in * R <= end.left * R
          /\ {rest.out * U, rest.in * R} \subseteq Nat
          /\ (IF end.left = 0 THEN g ELSE 0) * U = 0
      <4>1. end.left \in Nat /\ rest.in \in Nat /\ rest.in <= end.left /\ g \in Nat
        BY <1>2, <1>10, <2>4, <3>4 DEF g
      <4>2. h * U <= g * U /\ h * U \in Nat
        BY <1>3, <3>6, <4>1, ProductOrder, ProductType
      <4>3. rest.in * R <= end.left * R
        BY <1>3, <4>1, ProductOrder
      <4>4. {rest.out * U, rest.in * R} \subseteq Nat
        BY <1>3, <3>4, <4>1, ProductType
      <4> QED
        BY <1>3, <3>1, <4>2, <4>3, <4>4
    <3>8. out \in Nat /\ out * U = end.out * U + rest.out * U
      BY <1>3, <2>2, <2>4, <3>1, <3>4
    <3>9. out * U <= net * R + (N + 1) * P + g * U
      BY <1>3, <2>4, <2>5, <2>6, <3>4, <3>7, <3>8
    <3> QED
      BY <1>2, <1>4, <1>10, <3>8, <3>9 DEF out, R, U, P, net, g, seq
  <2> QED
    BY <2>7, <2>8
<1> QED
  BY <1>11, <1>12
-----------------------------------------------------------------------------
(* From what is paid for the input after fees to the price of the pool.      *)

(* What a sum bounds, the sum of the quotients bounds, the last ones rounded  *)
(* up.                                                                      *)
LEMMA AboveShare ==
  ASSUME NEW A \in Nat, NEW B \in Nat \ {0}, NEW E \in Nat, NEW G \in Nat,
         NEW out \in Nat, NEW gross \in Nat,
         out * (Bps * B) <= gross * A + (E + G * B) * Bps
  PROVE  out <= (gross * A) \div (Bps * B) + CeilDiv(E, B) + G
<1> DEFINE c == CeilDiv(E, B)
           k == out - c - G
           top == (gross * A) \div (Bps * B)
<1>1. Bps \in Nat \ {0} /\ c \in Nat /\ c * B >= E
  BY QuoteAssumption, CeilAbove
<1>2. gross * A \in Nat /\ Bps * B \in Nat \ {0}
  BY <1>1, ProductType
<1>3. top \in Nat
  BY <1>2, QuotientType
<1> HIDE DEF c, top
<1>4. CASE k <= 0
  BY <1>1, <1>3, <1>4 DEF c, top
<1>5. CASE ~(k <= 0)
  <2>1. k \in Nat /\ out = k + (c + G)
    BY <1>1, <1>5
  <2> HIDE DEF k
  <2>2. out * (Bps * B) = k * (Bps * B) + (c * B + G * B) * Bps
    BY <1>1, <2>1
  <2>3. {k * (Bps * B), c * B, G * B} \subseteq Nat
    BY <1>1, <1>2, <2>1, ProductType
  <2>4. (E + G * B) * Bps <= (c * B + G * B) * Bps
        /\ {(E + G * B) * Bps, (c * B + G * B) * Bps} \subseteq Nat
    BY <1>1, <2>3, ProductOrder, ProductType
  <2>5. k * (Bps * B) <= gross * A
    BY <1>2, <2>2, <2>3, <2>4
  <2>6. k <= top
    BY <1>2, <2>1, <2>5, QuotientAbove DEF top
  <2> QED
    BY <1>1, <1>3, <2>1, <2>6 DEF c, top
<1> QED
  BY <1>4, <1>5

(* From what the walk pays, in units of the price, to the reference.         *)
LEMMA AboveSpot ==
  ASSUME NEW A \in Nat, NEW B \in Nat \ {0}, NEW E \in Nat, NEW G \in Nat,
         NEW out \in Nat, NEW net \in Nat, NEW gross \in Nat,
         out * B <= net * A + E + G * B, net * Bps <= gross
  PROVE  out <= (gross * A) \div (Bps * B) + CeilDiv(E, B) + G
<1>1. Bps \in Nat \ {0} /\ {out * B, net * A, E + G * B} \subseteq Nat
  <2>1. {out * B, net * A, G * B} \subseteq Nat
    BY ProductType
  <2> QED
    BY <2>1, QuoteAssumption
<1>2. (out * B) * Bps <= (net * A + (E + G * B)) * Bps
  <2>1. out * B <= net * A + (E + G * B)
    BY <1>1, ProductType
  <2>2. net * A + (E + G * B) \in Nat
    BY <1>1
  <2> QED
    BY <1>1, <2>1, <2>2, ProductOrder
<1>3. (net * Bps) * A <= gross * A /\ {(net * Bps) * A, gross * A} \subseteq Nat
  BY <1>1, ProductOrder, ProductType
<1>4. /\ (out * B) * Bps = out * (Bps * B)
      /\ (net * A + (E + G * B)) * Bps = (net * Bps) * A + (E + G * B) * Bps
  BY <1>1
<1>5. {out * (Bps * B), (E + G * B) * Bps} \subseteq Nat
  BY <1>1, ProductType
<1>6. out * (Bps * B) <= gross * A + (E + G * B) * Bps
  BY <1>2, <1>3, <1>4, <1>5
<1> QED
  BY <1>6, AboveShare

(* The references in these terms.                                           *)
LEMMA SpotIs ==
  ASSUME NEW pool, pool.price \in Nat \ {0}, pool.fee \in 0..Bps, NEW amount \in Nat,
         NEW ab \in BOOLEAN, NEW steps \in Nat
  PROVE  /\ SpotClmm(pool, amount, ab) = (amount * (Bps - pool.fee) * Rate(pool.price, ab))
                                           \div (Bps * Unit(pool.price, ab))
         /\ SpotClmm(pool, amount, ab) \in Nat
         /\ amount * (Bps - pool.fee) \in Nat
         /\ StepsGain(pool, ab, steps) = CeilDiv(steps * PerStep(pool.price, ab), Unit(pool.price, ab))
         /\ StepsGain(pool, ab, steps) \in Nat /\ steps * PerStep(pool.price, ab) \in Nat
<1> DEFINE p == pool.price
           f == Bps - pool.fee
           R == Rate(p, ab)
           U == Unit(p, ab)
           P == PerStep(p, ab)
<1>1. p \in Nat \ {0} /\ f \in Nat /\ Bps \in Nat \ {0} /\ Q \in Nat \ {0}
  BY QuoteAssumption
<1>2. R \in Nat /\ U \in Nat \ {0} /\ P \in Nat
  BY RateType
<1>3. amount * f \in Nat
  BY <1>1, ProductType
<1>4. ASSUME ab
      PROVE  /\ SpotClmm(pool, amount, ab) = (amount * f * R) \div (Bps * U)
             /\ StepsGain(pool, ab, steps) = CeilDiv(steps * P, U)
  <2>1. R = p * p /\ U = Q * Q /\ P = p * p + p * Q
    BY <1>4 DEF Rate, Unit, PerStep
  <2>2. SpotClmm(pool, amount, ab) = (amount * f * p * p) \div (Bps * Q * Q)
    BY <1>4 DEF SpotClmm
  <2>3. StepsGain(pool, ab, steps) = CeilDiv(steps * p * (p + Q), Q * Q)
    BY <1>4 DEF StepsGain
  <2> HIDE DEF R, U, P, f, p
  <2>4. amount * f * p * p = amount * f * R /\ Bps * Q * Q = Bps * U
    BY <1>1, <1>3, <2>1
  <2>5. steps * p * (p + Q) = steps * P
    BY <1>1, <2>1
  <2> QED
    BY <2>1, <2>2, <2>3, <2>4, <2>5 DEF R, U, P, f, p
<1>5. ASSUME ~ab
      PROVE  /\ SpotClmm(pool, amount, ab) = (amount * f * R) \div (Bps * U)
             /\ StepsGain(pool, ab, steps) = CeilDiv(steps * P, U)
  <2>1. R = Q * Q /\ U = p * p /\ P = Q * Q
    BY <1>5 DEF Rate, Unit, PerStep
  <2>2. SpotClmm(pool, amount, ab) = (amount * f * Q * Q) \div (Bps * p * p)
    BY <1>5 DEF SpotClmm
  <2>3. StepsGain(pool, ab, steps) = CeilDiv(steps * Q * Q, p * p)
    BY <1>5 DEF StepsGain
  <2> HIDE DEF R, U, P, f, p
  <2>4. amount * f * Q * Q = amount * f * R /\ Bps * p * p = Bps * U
    BY <1>1, <1>3, <2>1
  <2>5. steps * Q * Q = steps * P
    BY <1>1, <2>1
  <2> QED
    BY <2>1, <2>2, <2>3, <2>4, <2>5 DEF R, U, P, f, p
<1>6. /\ SpotClmm(pool, amount, ab) = (amount * f * R) \div (Bps * U)
      /\ StepsGain(pool, ab, steps) = CeilDiv(steps * P, U)
  BY <1>4, <1>5
<1> HIDE DEF R, U, P, f
<1>7. /\ (amount * f) * R \in Nat /\ Bps * U \in Nat \ {0} /\ steps * P \in Nat
  BY <1>1, <1>2, <1>3, ProductType
<1>8. (amount * f * R) \div (Bps * U) \in Nat /\ CeilDiv(steps * P, U) \in Nat
  BY <1>2, <1>7, QuotientType, CeilAbove
<1> QED
  BY <1>3, <1>6, <1>7, <1>8 DEF R, U, P, f

(* A quote along ticks.                                                     *)
LEMMA TicksBelow ==
  ASSUME NEW pool, IsFiniteSet(pool.ticks), pool.price \in Nat \ {0}, pool.liq \in Nat \ {0},
         pool.fee \in Nat, NEW in \in Nat, NEW ab \in BOOLEAN, MultiTick(pool, in, ab) # None
  PROVE  /\ MultiTick(pool, in, ab) \in Nat /\ SpotClmm(pool, in, ab) \in Nat
         /\ RoundingGain("ticks", pool, ab) \in Nat
         /\ MultiTick(pool, in, ab) <= SpotClmm(pool, in, ab) + RoundingGain("ticks", pool, ab)
         /\ pool.fee \in 0..Bps
<1> DEFINE out == MultiTick(pool, in, ab)
           net == AfterFee(pool, in)
           steps == Len(TicksReached(pool, ab)) + 1
           most == Depth(pool, ab).most
           R == Rate(pool.price, ab)
           U == Unit(pool.price, ab)
           P == PerStep(pool.price, ab)
<1>1. /\ out \in Nat /\ net \in Nat /\ net * Bps <= in * (Bps - pool.fee)
      /\ pool.fee \in 0..Bps /\ steps \in Nat /\ most \in Nat
      /\ out * U <= net * R + steps * P + PriceGain(most, ab) * U
  BY WalkBelow
<1> HIDE DEF out, net, steps, most
<1>2. /\ SpotClmm(pool, in, ab) = (in * (Bps - pool.fee) * R) \div (Bps * U)
      /\ SpotClmm(pool, in, ab) \in Nat /\ in * (Bps - pool.fee) \in Nat
      /\ StepsGain(pool, ab, steps) = CeilDiv(steps * P, U)
      /\ StepsGain(pool, ab, steps) \in Nat /\ steps * P \in Nat
  BY <1>1, SpotIs
<1>3. R \in Nat /\ U \in Nat \ {0} /\ PriceGain(most, ab) \in Nat
  BY <1>1, RateType, GainOrder
<1> HIDE DEF R, U, P
<1>4. out <= (in * (Bps - pool.fee) * R) \div (Bps * U) + CeilDiv(steps * P, U) + PriceGain(most, ab)
  BY <1>1, <1>2, <1>3, AboveSpot
<1>5. RoundingGain("ticks", pool, ab) = StepsGain(pool, ab, steps) + PriceGain(most, ab)
  BY DEF RoundingGain, steps, most
<1> QED
  BY <1>1, <1>2, <1>3, <1>4, <1>5 DEF out

(* A quote within one range: an input too large to take the fee from has none. *)
LEMMA SingleNet ==
  ASSUME NEW pool, NEW in, NEW ab, SingleTick(pool, in, ab) # None
  PROVE  AfterFee(pool, in) # None
<1> SUFFICES ASSUME AfterFee(pool, in) = None PROVE FALSE
  OBVIOUS
<1>1. PriceAfter(pool.price, pool.liq, None, ab) = None
  BY DEF PriceAfter, NewPriceDown, NewPriceUp, Mul, Div, Add
<1> QED
  BY <1>1 DEF SingleTick, None

(* A quote within one range of liquidity.                                    *)
LEMMA RangeBelow ==
  ASSUME NEW pool, pool.price \in Nat \ {0}, pool.liq \in Nat \ {0},
         pool.fee \in Nat, NEW in \in Nat, NEW ab \in BOOLEAN, SingleTick(pool, in, ab) # None
  PROVE  /\ SingleTick(pool, in, ab) \in Nat /\ SpotClmm(pool, in, ab) \in Nat
         /\ RoundingGain("range", pool, ab) \in Nat
         /\ SingleTick(pool, in, ab) <= SpotClmm(pool, in, ab) + RoundingGain("range", pool, ab)
         /\ pool.fee \in 0..Bps
<1> DEFINE out == SingleTick(pool, in, ab)
           net == AfterFee(pool, in)
           p == pool.price
           liq == pool.liq
           to == PriceAfter(p, liq, net, ab)
           paid == Paid(p, to, liq, ab)
           R == Rate(p, ab)
           U == Unit(p, ab)
           g == PriceGain(liq, ab)
<1>1. /\ net \in Nat /\ net * Bps <= in * (Bps - pool.fee) /\ pool.fee \in 0..Bps
  BY SingleNet, AfterFeeBelow
<1>2. /\ SpotClmm(pool, in, ab) = (in * (Bps - pool.fee) * R) \div (Bps * U)
      /\ SpotClmm(pool, in, ab) \in Nat /\ in * (Bps - pool.fee) \in Nat
  BY <1>1, SpotIs
<1>3. R \in Nat /\ U \in Nat \ {0} /\ g \in Nat /\ Q \in Nat \ {0}
  <2>1. CeilDiv(liq, Q) \in Nat /\ Q \in Nat \ {0}
    BY QuoteAssumption, CeilAbove
  <2>2. g \in Nat
    BY <2>1 DEF PriceGain
  <2> QED
    BY <2>1, <2>2, RateType
<1>4. CASE net = 0
  <2>1. out = 0
    BY <1>4 DEF SingleTick
  <2> QED
    BY <1>1, <1>2, <1>3, <2>1 DEF RoundingGain
<1>5. CASE net # 0
  <2>1. /\ to # None /\ (ab => ~(to >= p)) /\ (~ab => ~(to <= p))
        /\ out = FitsU64(paid)
    BY <1>5 DEF SingleTick
  <2>2. paid # None /\ out = paid
    BY <2>1, Checked
  <2>3. ASSUME ab PROVE out \in Nat /\ out * U <= net * R + g * U
    <3>1. to = (liq * p) \div (liq + (net * p) \div Q) /\ to \in Nat
      BY <1>1, <2>1, <2>3, PriceAfterDown
    <3>2. to <= p /\ paid = (liq * (p - to)) \div Q
      <4>1. paid = (liq * (p - to)) \div Q
        BY <2>2, <2>3, PaysDown
      <4>2. ~(to >= p)
        BY <2>1, <2>3
      <4> HIDE DEF to, paid
      <4> QED
        BY <3>1, <4>1, <4>2
    <3>3. R = p * p /\ U = Q * Q /\ g = CeilDiv(liq, Q)
      BY <2>3 DEF Rate, Unit, PriceGain
    <3> HIDE DEF to, net, p, liq
    <3>4. paid \in Nat /\ paid * (Q * Q) <= net * (p * p) + CeilDiv(liq, Q) * (Q * Q)
      BY <1>1, <3>1, <3>2, FallPart DEF p, liq
    <3> HIDE DEF paid, R, U, g, out
    <3> QED
      BY <2>2, <3>3, <3>4
  <2>4. ASSUME ~ab PROVE out \in Nat /\ out * U <= net * R + g * U
    <3> DEFINE rise == (net * Q) \div liq
    <3>1. to = p + rise /\ rise \in Nat
      BY <1>1, <2>1, <2>4, PriceAfterUp
    <3>2. paid = (((liq * (to - p)) \div p) * Q) \div to
      BY <2>2, <2>4, PaysUp
    <3>3. R = Q * Q /\ U = p * p /\ g = 0
      BY <2>4 DEF Rate, Unit, PriceGain
    <3> HIDE DEF to, net, p, liq, rise, paid, R, U, g, out
    <3>4. to - p = rise /\ liq \in Nat \ {0} /\ p \in Nat \ {0}
      BY <3>1 DEF liq, p
    <3>5. paid = (((liq * rise) \div p) * Q) \div (p + rise)
      BY <3>1, <3>2, <3>4
    <3>6. paid \in Nat /\ paid * (p * p) <= net * (Q * Q)
      BY <1>1, <3>4, <3>5, RisePart DEF rise
    <3>7. g * U = 0 /\ net * R \in Nat
      BY <1>1, <1>3, <3>3, ProductType
    <3> QED
      BY <2>2, <3>3, <3>6, <3>7
  <2>5. out \in Nat /\ out * U <= net * R + 0 + g * U
    <3>1. out \in Nat /\ out * U <= net * R + g * U
      BY <2>3, <2>4
    <3> HIDE DEF out, U, R, g, net
    <3>2. net * R \in Nat /\ g * U \in Nat
      BY <1>1, <1>3, ProductType
    <3> QED
      BY <3>1, <3>2
  <2> HIDE DEF out, net, R, U, g
  <2>6. out <= (in * (Bps - pool.fee) * R) \div (Bps * U) + CeilDiv(0, U) + g
    BY <1>1, <1>2, <1>3, <2>5, AboveSpot
  <2>7. CeilDiv(0, U) = 0
    <3>1. 0 + U - 1 \in 0..(U - 1)
      BY <1>3
    <3>2. (U - 1) \div U = 0
      BY <1>3
    <3> QED
      BY <1>3, <3>2 DEF CeilDiv
  <2>8. RoundingGain("range", pool, ab) = g
    BY DEF RoundingGain, g
  <2> QED
    BY <1>1, <1>2, <1>3, <2>5, <2>6, <2>7, <2>8 DEF out
<1> QED
  BY <1>4, <1>5

(* A curve quoted as a constant product of the reserves that it stands for.   *)
LEMMA FallbackBelow ==
  ASSUME NEW pool, pool.a \in Nat, pool.b \in Nat, pool.price \in Nat \ {0},
         pool.liq \in Nat \ {0}, pool.fee \in Nat, OnCurve(pool),
         NEW in \in Nat, NEW ab \in BOOLEAN, Cpmm(pool, in, ab) # None
  PROVE  /\ Cpmm(pool, in, ab) \in Nat /\ SpotClmm(pool, in, ab) \in Nat
         /\ RoundingGain("fallback", pool, ab) \in Nat
         /\ Cpmm(pool, in, ab) <= SpotClmm(pool, in, ab) + RoundingGain("fallback", pool, ab)
         /\ pool.fee \in 0..Bps
<1> DEFINE rin  == IF ab THEN pool.a ELSE pool.b
           rout == IF ab THEN pool.b ELSE pool.a
           n    == in * (Bps - pool.fee)
           out  == Cpmm(pool, in, ab)
           D    == rin * Bps + n
           A    == Rate(pool.price, ab)
           B    == Unit(pool.price, ab)
           P    == PerStep(pool.price, ab)
<1>1. Bps \in Nat \ {0} /\ Q \in Nat \ {0}
  BY QuoteAssumption
<1>2. /\ rin \in Nat \ {0} /\ rout \in Nat \ {0} /\ out \in Nat /\ n \in Nat
      /\ pool.fee \in 0..Bps /\ out * D <= rout * n
  <2> DEFINE net == Mul(in, Sub(Bps, pool.fee))
             num == Mul(rout, net)
             den == Add(Mul(rin, Bps), net)
  <2>1. rin \in Nat \ {0} /\ rout \in Nat \ {0} /\ out = Div(num, den)
    BY DEF Cpmm
  <2>2. num # None /\ den # None /\ out = num \div den
    BY <2>1, Checked
  <2>3. net # None /\ num = rout * net /\ den = rin * Bps + net
    <3>1. net # None /\ num = rout * net /\ Mul(rin, Bps) # None /\ den = Mul(rin, Bps) + net
      BY <2>2, Checked
    <3> QED
      BY <3>1, Checked
  <2>4. net = n /\ pool.fee \in 0..Bps
    BY <1>1, <2>3, Checked
  <2> HIDE DEF rin, rout, net, num, den, out
  <2>5. n \in Nat /\ rin * Bps \in Nat \ {0} /\ rout * n \in Nat
    BY <1>1, <2>1, <2>4, ProductType
  <2> HIDE DEF n
  <2>6. out \in Nat /\ out * (rin * Bps + n) <= rout * n
    BY <2>2, <2>3, <2>4, <2>5, QuotientType
  <2> QED
    BY <2>1, <2>4, <2>5, <2>6
<1>3. A \in Nat \ {0} /\ B \in Nat \ {0} /\ P \in Nat /\ A <= P
  BY RateType
<1>4. rout * B <= (rin + 1) * A
  <2> DEFINE p == pool.price
             l == pool.liq
             a == pool.a
             b == pool.b
  <2>1. /\ a * p <= l * Q /\ l * Q < (a + 1) * p
        /\ b * Q <= l * p /\ l * p < (b + 1) * Q
    BY DEF OnCurve
  <2>2. {a, b, p, l, Q, a * p, b * Q, l * Q, l * p, (a + 1) * p, (b + 1) * Q} \subseteq Nat
    BY <1>1, ProductType
  <2>3. CASE ab
    <3>1. rout = b /\ rin = a /\ A = p * p /\ B = Q * Q
      BY <2>3 DEF Rate, Unit
    <3> HIDE DEF p, l, a, b, rout, rin, A, B
    <3>2. (b * Q) * Q <= (l * p) * Q /\ (l * Q) * p <= ((a + 1) * p) * p
      BY <2>1, <2>2, ProductOrder
    <3>3. /\ (b * Q) * Q = b * (Q * Q) /\ ((a + 1) * p) * p = (a + 1) * (p * p)
          /\ (l * p) * Q = (l * Q) * p
      BY <2>2
    <3>4. {(b * Q) * Q, (l * p) * Q, ((a + 1) * p) * p} \subseteq Nat
      BY <2>2, ProductType
    <3> QED
      BY <3>1, <3>2, <3>3, <3>4
  <2>4. CASE ~ab
    <3>1. rout = a /\ rin = b /\ A = Q * Q /\ B = p * p
      BY <2>4 DEF Rate, Unit
    <3> HIDE DEF p, l, a, b, rout, rin, A, B
    <3>2. (a * p) * p <= (l * Q) * p /\ (l * p) * Q <= ((b + 1) * Q) * Q
      BY <2>1, <2>2, ProductOrder
    <3>3. /\ (a * p) * p = a * (p * p) /\ ((b + 1) * Q) * Q = (b + 1) * (Q * Q)
          /\ (l * p) * Q = (l * Q) * p
      BY <2>2
    <3>4. {(a * p) * p, (l * p) * Q, ((b + 1) * Q) * Q} \subseteq Nat
      BY <2>2, ProductType
    <3> QED
      BY <3>1, <3>2, <3>3, <3>4
  <2> QED
    BY <2>3, <2>4
<1>5. /\ SpotClmm(pool, in, ab) = (n * A) \div (Bps * B)
      /\ SpotClmm(pool, in, ab) \in Nat
      /\ StepsGain(pool, ab, 1) = CeilDiv(1 * P, B)
      /\ StepsGain(pool, ab, 1) \in Nat
  BY <1>2, SpotIs
<1> HIDE DEF rin, rout, n, out, A, B, P, D
<1>6. D \in Nat \ {0} /\ D = rin * Bps + n
  <2>1. rin * Bps \in Nat \ {0}
    BY <1>1, <1>2, ProductType
  <2> QED
    BY <1>2, <2>1 DEF D
<1>7. (out * D) * B <= ((rin + 1) * A) * n
  <2>1. (out * D) * B <= (rout * n) * B
    BY <1>2, <1>3, <1>6, ProductOrder, ProductType
  <2>2. (rout * B) * n <= ((rin + 1) * A) * n
    BY <1>2, <1>3, <1>4, ProductOrder, ProductType
  <2>3. (rout * n) * B = (rout * B) * n
    BY <1>2, <1>3
  <2>4. {(out * D) * B, (rout * n) * B, ((rin + 1) * A) * n} \subseteq Nat
    BY <1>2, <1>3, <1>6, ProductType
  <2> QED
    BY <2>1, <2>2, <2>3, <2>4
<1>8. ((rin + 1) * n) * Bps <= (n + Bps) * D
  <2>1. (n + Bps) * D = ((rin + 1) * n) * Bps + (n * n + (Bps * Bps) * rin)
    BY <1>1, <1>2, <1>6
  <2>2. {((rin + 1) * n) * Bps, n * n, (Bps * Bps) * rin} \subseteq Nat
    BY <1>1, <1>2, ProductType
  <2> QED
    BY <2>1, <2>2
<1>9. out * (Bps * B) <= n * A + (A + 0 * B) * Bps
  <2> DEFINE u == out * (Bps * B)
             v == (n + Bps) * A
  <2>1. u \in Nat /\ v \in Nat
    BY <1>1, <1>2, <1>3, ProductType
  <2>2. u * D = ((out * D) * B) * Bps /\ v * D = ((n + Bps) * D) * A
        /\ (((rin + 1) * A) * n) * Bps = (((rin + 1) * n) * Bps) * A
    BY <1>1, <1>2, <1>3, <1>6
  <2>3. ((out * D) * B) * Bps <= (((rin + 1) * A) * n) * Bps
    BY <1>1, <1>2, <1>3, <1>6, <1>7, ProductOrder, ProductType
  <2>4. (((rin + 1) * n) * Bps) * A <= ((n + Bps) * D) * A
    BY <1>1, <1>2, <1>3, <1>6, <1>8, ProductOrder, ProductType
  <2>5. {((out * D) * B) * Bps, (((rin + 1) * A) * n) * Bps, ((n + Bps) * D) * A} \subseteq Nat
    BY <1>1, <1>2, <1>3, <1>6, ProductType
  <2>6. u * D <= v * D
    BY <2>2, <2>3, <2>4, <2>5
  <2>7. v = n * A + (A + 0 * B) * Bps
    BY <1>1, <1>2, <1>3
  <2> HIDE DEF u, v
  <2>8. u <= v
    BY <1>6, <2>1, <2>6, ProductCancel
  <2> QED
    BY <2>7, <2>8 DEF u
<1>10. out * (Bps * B) <= n * A + (P + 0 * B) * Bps
  <2>1. (A + 0 * B) * Bps <= (P + 0 * B) * Bps /\ {(A + 0 * B) * Bps, (P + 0 * B) * Bps} \subseteq Nat
    BY <1>1, <1>3, ProductOrder, ProductType
  <2>2. {out * (Bps * B), n * A} \subseteq Nat
    BY <1>1, <1>2, <1>3, ProductType
  <2> QED
    BY <1>9, <2>1, <2>2
<1>11. out <= (n * A) \div (Bps * B) + CeilDiv(P, B) + 0
  BY <1>2, <1>3, <1>10, AboveShare
<1>12. RoundingGain("fallback", pool, ab) = CeilDiv(P, B) /\ CeilDiv(P, B) \in Nat
  BY <1>3, <1>5 DEF RoundingGain
<1> QED
  BY <1>2, <1>5, <1>11, <1>12 DEF out

-----------------------------------------------------------------------------
(* Ticks that only take liquidity away.  A walk that has taken c pays no more *)
(* than it would without the ticks: in a range with the first price P and     *)
(* liquidity L that is Rate * Z * c / W, over Unit, where Z is L * Q when the  *)
(* price falls and P * L when it rises, and W is Z + c * P or Z + c * Q.      *)

(* One more step keeps it so, if it pays B for x more.                       *)
LEMMA CurbStep ==
  ASSUME NEW Z \in Nat \ {0}, NEW R \in Nat, NEW k \in Nat, NEW c \in Nat, NEW x \in Nat,
         NEW A \in Nat, NEW B \in Nat, NEW E \in Nat, NEW S \in Nat, NEW W, NEW V,
         W = Z + c * k, V = Z + (c + x) * k,
         A * W <= (R * Z) * c + E * W,
         B * (W * V) <= x * (R * (Z * Z)) + S * (W * V)
  PROVE  (A + B) * V <= (R * Z) * (c + x) + (E + S) * V
<1> DEFINE F == R * Z
<1>1. /\ W \in Nat \ {0} /\ V \in Nat /\ V = W + x * k /\ F \in Nat
  <2>1. c * k \in Nat /\ x * k \in Nat /\ (c + x) * k = c * k + x * k /\ F \in Nat
    BY ProductType
  <2> QED
    BY <2>1
<1>2. (A * W) * V <= (F * c + E * W) * V
  <2>1. A * W \in Nat /\ F * c \in Nat /\ E * W \in Nat
    BY <1>1, ProductType
  <2> QED
    BY <1>1, <2>1, ProductOrder
<1>3. (F * c) * V + x * (R * (Z * Z)) = (F * (c + x)) * W
  <2>1. x * (R * (Z * Z)) = (F * x) * Z
    OBVIOUS
  <2> HIDE DEF F
  <2>2. (F * c) * V = (F * c) * W + (F * c) * (x * k)
    BY <1>1, ProductType
  <2>3. (F * x) * W = (F * x) * Z + (F * x) * (c * k)
    BY <1>1, ProductType
  <2>4. (F * c) * (x * k) = (F * x) * (c * k)
    BY <1>1
  <2>5. (F * (c + x)) * W = (F * c) * W + (F * x) * W
    BY <1>1
  <2>6. {(F * c) * W, (F * c) * (x * k), (F * x) * Z} \subseteq Nat
    BY <1>1, ProductType
  <2> QED
    BY <2>1, <2>2, <2>3, <2>4, <2>5, <2>6
<1> HIDE DEF F
<1>4. /\ ((A + B) * V) * W = (A * W) * V + B * (W * V)
      /\ (F * c + E * W) * V = (F * c) * V + (E * W) * V
      /\ (F * (c + x) + (E + S) * V) * W = (F * (c + x)) * W + (E * W) * V + S * (W * V)
  BY <1>1
<1>5. /\ {(A * W) * V, B * (W * V), (F * c) * V, (E * W) * V, S * (W * V), (F * (c + x)) * W,
          x * (R * (Z * Z))} \subseteq Nat
      /\ (A + B) * V \in Nat /\ F * (c + x) + (E + S) * V \in Nat
  BY <1>1, ProductType
<1>6. ((A + B) * V) * W <= (F * (c + x) + (E + S) * V) * W
  BY <1>2, <1>3, <1>4, <1>5
<1>7. (A + B) * V <= F * (c + x) + (E + S) * V
  BY <1>1, <1>5, <1>6, ProductCancel
<1> QED
  BY <1>7 DEF F

(* Where a price falls all the way to t, it falls no further than without     *)
(* ticks.                                                                   *)
LEMMA FallKeeps ==
  ASSUME NEW P \in Nat, NEW p \in Nat \ {0}, NEW t \in Nat \ {0}, t <= p,
         NEW L \in Nat, NEW l \in Nat, l <= L, NEW W \in Nat, NEW v, NEW x,
         v = (l * (p - t)) \div p, x = (v * Q) \div t,
         p * W <= P * (L * Q)
  PROVE  t * (W + x * P) <= P * (L * Q)
<1> DEFINE d == p - t
           K == P * (L * Q)
<1>1. Q \in Nat \ {0} /\ d \in Nat /\ K \in Nat
  BY QuoteAssumption, ProductType
<1>2. v \in Nat /\ v * p <= l * d /\ {v * p, l * d, L * d, v * Q} \subseteq Nat
  <2>1. l * d \in Nat /\ L * d \in Nat
    BY <1>1, ProductType
  <2>2. v \in Nat /\ v * p <= l * d
    BY <2>1, QuotientType
  <2> QED
    BY <1>1, <2>1, <2>2, ProductType
<1>3. x \in Nat /\ x * t <= v * Q /\ x * t \in Nat
  BY <1>2, QuotientType, ProductType
<1>4. l * d <= L * d
  BY <1>1, ProductOrder
<1>5. p = t + d
  OBVIOUS
<1> HIDE DEF d
<1>6. (x * t) * p <= (v * Q) * p /\ (v * p) * Q <= (L * d) * Q /\ (v * Q) * p = (v * p) * Q
  BY <1>1, <1>2, <1>3, <1>4, ProductOrder
<1>7. {(x * t) * p, (v * p) * Q, (L * d) * Q, p * W} \subseteq Nat
  BY <1>1, <1>2, <1>3, ProductType
<1>8. ((x * t) * p) * P <= ((L * d) * Q) * P
  BY <1>6, <1>7, ProductOrder
<1>9. (p * W) * t <= K * t
  BY <1>1, <1>7, ProductOrder
<1>10. /\ (t * (W + x * P)) * p = (p * W) * t + ((x * t) * p) * P
       /\ K * p = K * t + ((L * d) * Q) * P
  BY <1>1, <1>3, <1>5
<1>11. {(p * W) * t, K * t, ((x * t) * p) * P, ((L * d) * Q) * P, t * (W + x * P)} \subseteq Nat
  BY <1>1, <1>3, <1>7, ProductType
<1>12. (t * (W + x * P)) * p <= K * p
  BY <1>8, <1>9, <1>10, <1>11
<1> QED
  BY <1>1, <1>11, <1>12, ProductCancel

(* A step down to its target, below the curve of the most liquidity.         *)
LEMMA FallWholeUnder ==
  ASSUME NEW P \in Nat, NEW p \in Nat, NEW t \in Nat, p <= P, t <= P,
         NEW Z \in Nat, NEW W \in Nat, NEW V \in Nat, NEW x \in Nat, NEW y \in Nat,
         y * (Q * Q) <= (x + 1) * (p * t) + p * Q, p * W <= P * Z, t * V <= P * Z
  PROVE  (y * (Q * Q)) * (W * V) <= x * ((P * P) * (Z * Z)) + (P * P + P * Q) * (W * V)
<1> DEFINE U == Q * Q
           M == W * V
           S == P * P + P * Q
           k == p * t
<1>1. Q \in Nat /\ {U, M, P * P, P * Q, k, p * Q, p * W, t * V, P * Z} \subseteq Nat
  BY QuoteAssumption, ProductType
<1>2. k <= P * P /\ p * Q <= P * Q
  BY <1>1, ProductsOrder
<1>3. (p * W) * (t * V) <= (P * Z) * (P * Z)
  BY <1>1, ProductsOrder
<1>4. k * M = (p * W) * (t * V) /\ (P * Z) * (P * Z) = (P * P) * (Z * Z)
  BY <1>1
<1> HIDE DEF U, M, k
<1>5. y * U <= x * k + S
  <2>1. (x + 1) * k = x * k + k /\ x * k \in Nat
    BY <1>1, ProductType
  <2> QED
    BY <1>1, <1>2, <2>1 DEF U, k
<1>6. {y * U, x * k, k * M, (P * P) * (Z * Z)} \subseteq Nat /\ S \in Nat
  BY <1>1, ProductType
<1>7. (y * U) * M <= (x * k + S) * M /\ (x * k + S) * M = x * (k * M) + S * M
  BY <1>1, <1>5, <1>6, ProductOrder
<1>8. (k * M) * x <= ((P * P) * (Z * Z)) * x
  BY <1>3, <1>4, <1>6, ProductOrder
<1>9. {(y * U) * M, x * (k * M), S * M, x * ((P * P) * (Z * Z))} \subseteq Nat
  BY <1>1, <1>6, ProductType
<1>10. (k * M) * x = x * (k * M) /\ ((P * P) * (Z * Z)) * x = x * ((P * P) * (Z * Z))
  BY <1>6
<1> QED
  BY <1>7, <1>8, <1>9, <1>10 DEF U, M

(* A bound h + e * q <= m * q still holds for larger q and m.                 *)
LEMMA BoundGrows ==
  ASSUME NEW h \in Nat, NEW e \in Nat, NEW m \in Nat, NEW n \in Nat, NEW q \in Nat, NEW s \in Nat,
         q <= s, m <= n, h = 0 => e = 0, h + e * q <= m * q
  PROVE  h + e * s <= n * s
<1>1. {m * q, e * q, e * s, m * s, n * s} \subseteq Nat /\ m * s <= n * s
  BY ProductType, ProductOrder
<1>2. CASE h = 0
  <2>1. e * s = 0
    BY <1>2
  <2> QED
    BY <1>1, <1>2, <2>1
<1>3. CASE h # 0
  <2>1. e <= m
    <3> SUFFICES ASSUME m < e PROVE FALSE
      OBVIOUS
    <3>1. m * q <= e * q
      BY ProductOrder
    <3> QED
      BY <1>1, <1>3, <3>1
  <2> DEFINE r == m - e
  <2>2. r \in Nat /\ m = e + r
    BY <2>1
  <2> HIDE DEF r
  <2>3. q * r <= s * r /\ {q * r, s * r} \subseteq Nat
    BY <2>2, ProductOrder, ProductType
  <2>4. m * q = e * q + q * r /\ m * s = e * s + s * r
    BY <2>2
  <2> QED
    BY <1>1, <2>3, <2>4
<1> QED
  BY <1>2, <1>3

(* Part of the way, less than CeilDiv(l, Q) is hidden, and more liquidity      *)
(* pays more.                                                               *)
LEMMA FallPartSharp ==
  ASSUME NEW l \in Nat \ {0}, NEW p \in Nat, NEW x \in Nat, NEW X, NEW to \in Nat, NEW y,
         X = (x * p) \div Q, to = (l * p) \div (l + X), to <= p, y = (l * (p - to)) \div Q,
         NEW k \in Nat, y = k + CeilDiv(l, Q)
  PROVE  (k * Q) * (l * Q + x * p) <= (l * p) * (x * p)
<1> DEFINE d == p - to
           D == l + X
           a == k * Q
           g == CeilDiv(l, Q)
           N == x * p
           T == l * p
<1>1. Q \in Nat \ {0} /\ d \in Nat /\ {a, N, T} \subseteq Nat
  BY QuoteAssumption, ProductType
<1>2. X \in Nat /\ X * Q <= N /\ X * Q \in Nat /\ D \in Nat \ {0}
  <2>1. X \in Nat /\ X * Q <= N
    BY <1>1, QuotientType
  <2> QED
    BY <1>1, <2>1, ProductType
<1>3. T < to * D + D /\ to * D \in Nat
  <2> HIDE DEF T, D
  <2>1. to = T \div D
    BY DEF T, D
  <2> QED
    BY <1>1, <1>2, <2>1, QuotientType, ProductType
<1>4. y \in Nat /\ y * Q <= l * d /\ l * d \in Nat
  <2>1. l * d \in Nat
    BY <1>1, ProductType
  <2> HIDE DEF d
  <2> QED
    BY <1>1, <2>1, QuotientType DEF d
<1>5. g \in Nat /\ l <= g * Q /\ g * Q \in Nat
  BY <1>1, CeilAbove, ProductType
<1>6. to + d = p
  BY <1>1
<1> HIDE DEF d, g, N
<1>7. a + l <= l * d
  <2>1. y * Q = a + g * Q
    BY <1>1, <1>5 DEF g
  <2> QED
    BY <1>1, <1>4, <1>5, <2>1
<1>8. d * D <= p * X + D
  <2>1. to * D + d * D = p * D /\ p * D = T + p * X /\ {d * D, p * X, p * D} \subseteq Nat
    <3>1. (to + d) * D = to * D + d * D
      BY <1>1, <1>2
    <3>2. p * D = l * p + p * X
      BY <1>2
    <3> QED
      BY <1>1, <1>2, <1>6, <3>1, <3>2, ProductType
  <2> QED
    BY <1>1, <1>2, <1>3, <2>1
<1> HIDE DEF T, D, a
<1>9. a * D <= T * X
  <2>1. (a + l) * D <= (l * d) * D
    BY <1>1, <1>2, <1>4, <1>7, ProductOrder
  <2>2. (d * D) * l <= (p * X + D) * l
    BY <1>1, <1>2, <1>8, ProductType, ProductOrder
  <2>3. (a + l) * D = a * D + l * D
    BY <1>1, <1>2
  <2>5. (l * d) * D = (d * D) * l
    BY <1>1, <1>2
  <2>6. (p * X + D) * l = T * X + l * D
    <3>1. (p * X) * l = T * X /\ p * X \in Nat
      <4>1. p * X \in Nat
        BY <1>2, ProductType
      <4>2. (p * X) * l = (l * p) * X
        BY <1>2
      <4> QED
        BY <4>1, <4>2 DEF T
    <3>2. (p * X + D) * l = (p * X) * l + D * l
      BY <1>2, <3>1
    <3> QED
      BY <1>2, <3>1, <3>2
  <2>4. {a * D, l * D, (d * D) * l, T * X} \subseteq Nat
    BY <1>1, <1>2, ProductType
  <2> QED
    BY <2>1, <2>2, <2>3, <2>4, <2>5, <2>6
<1>10. a * (l * Q) + a * (X * Q) <= T * (X * Q)
  <2>1. {a * D, T * X} \subseteq Nat
    BY <1>1, <1>2, ProductType
  <2>2. (a * D) * Q <= (T * X) * Q
    BY <1>1, <1>9, <2>1, ProductOrder
  <2>3. (a * D) * Q = a * (l * Q) + a * (X * Q) /\ (T * X) * Q = T * (X * Q)
    BY <1>1, <1>2 DEF D
  <2> QED
    BY <2>2, <2>3
<1>11. a * (l * Q) + a * N <= T * N
  <2>1. a * (l * Q) \in Nat /\ (a * (l * Q) = 0 => a = 0)
    <3>1. l * Q \in Nat \ {0}
      BY <1>1, ProductType
    <3> QED
      BY <1>1, <3>1, ProductType
  <2> QED
    BY <1>1, <1>2, <1>10, <2>1, BoundGrows
<1>12. a * (l * Q + N) = a * (l * Q) + a * N
  BY <1>1
<1> QED
  BY <1>11, <1>12 DEF N, T, a

(* What a liquidity allows, a greater one does.                              *)
LEMMA LiquidityGrows ==
  ASSUME NEW l \in Nat \ {0}, NEW L \in Nat, l <= L, NEW b \in Nat, NEW c \in Nat, NEW h \in Nat,
         l * b + h <= l * c
  PROVE  L * b + h <= L * c
<1>1. b <= c
  <2>1. b * l <= c * l
    <3>1. {l * b, l * c} \subseteq Nat /\ b * l = l * b /\ c * l = l * c
      BY ProductType
    <3> QED
      BY <3>1
  <2> QED
    BY <2>1, ProductCancel
<1> DEFINE r == c - b
<1>2. r \in Nat /\ c = b + r
  BY <1>1
<1> HIDE DEF r
<1>3. l * c = l * b + l * r /\ L * c = L * b + L * r /\ l * r <= L * r
      /\ {l * b, l * r, L * b, L * r} \subseteq Nat
  BY <1>2, ProductOrder, ProductType
<1> QED
  BY <1>3

(* So a step down of less liquidity stays below that of more.                *)
LEMMA FallDeeper ==
  ASSUME NEW a \in Nat, NEW l \in Nat \ {0}, NEW L \in Nat, l <= L, NEW p \in Nat, NEW x \in Nat,
         a * (l * Q + x * p) <= (l * p) * (x * p)
  PROVE  a * (L * Q + x * p) <= (L * p) * (x * p)
<1> DEFINE N == x * p
           b == a * Q
           c == p * N
<1>1. Q \in Nat /\ N \in Nat /\ {a * N, b, c} \subseteq Nat
  BY QuoteAssumption, ProductType
<1>2. /\ a * (l * Q + N) = l * b + a * N /\ (l * p) * N = l * c
      /\ a * (L * Q + N) = L * b + a * N /\ (L * p) * N = L * c
  BY <1>1
<1> HIDE DEF b, c, N
<1>3. l * b + a * N <= l * c
  BY <1>2 DEF N
<1>4. L * b + a * N <= L * c
  BY <1>1, <1>3, LiquidityGrows
<1> QED
  BY <1>2, <1>4 DEF N

(* A step down that ends before its target.                                  *)
LEMMA FallPartUnder ==
  ASSUME NEW P \in Nat, NEW p \in Nat, NEW L \in Nat, NEW l \in Nat \ {0}, l <= L,
         NEW x \in Nat, NEW to \in Nat, NEW y,
         to = (l * p) \div (l + (x * p) \div Q), to <= p, y = (l * (p - to)) \div Q,
         NEW Z, Z = L * Q, NEW W \in Nat, NEW V, V = W + x * P, p * W <= P * Z
  PROVE  (y * (Q * Q)) * (W * V) <= x * ((P * P) * (Z * Z)) + (CeilDiv(l, Q) * (Q * Q)) * (W * V)
<1> DEFINE g == CeilDiv(l, Q)
           k == y - g
           K == P * Z
           M == W * V
           F == (P * P) * (Z * Z)
<1>1. Q \in Nat \ {0} /\ L \in Nat \ {0} /\ Z \in Nat \ {0} /\ K \in Nat /\ V \in Nat
      /\ {M, F, x * F} \subseteq Nat /\ Q * Q \in Nat
  <2>1. Q \in Nat \ {0} /\ L \in Nat \ {0}
    BY QuoteAssumption
  <2>2. Z \in Nat \ {0}
    BY <2>1, ProductType
  <2>3. V \in Nat /\ K \in Nat
    BY <2>2, ProductType
  <2>4. M \in Nat /\ F \in Nat /\ Q * Q \in Nat
    BY <2>1, <2>2, <2>3, ProductType
  <2> HIDE DEF F
  <2> QED
    BY <2>1, <2>2, <2>3, <2>4, ProductType
<1>2. y \in Nat /\ g \in Nat
  <2>1. l * (p - to) \in Nat
    BY ProductType
  <2> QED
    BY <1>1, <2>1, QuotientType, CeilAbove
<1> HIDE DEF g
<1>3. CASE k <= 0
  <2>1. y <= g
    BY <1>2, <1>3
  <2>2. y * (Q * Q) <= g * (Q * Q) /\ {y * (Q * Q), g * (Q * Q)} \subseteq Nat
    BY <1>1, <1>2, <2>1, ProductOrder, ProductType
  <2> HIDE DEF M, F
  <2>3. (y * (Q * Q)) * M <= (g * (Q * Q)) * M /\ {(y * (Q * Q)) * M, (g * (Q * Q)) * M} \subseteq Nat
    BY <1>1, <2>2, ProductOrder, ProductType
  <2> QED
    BY <1>1, <2>3 DEF M, F, g
<1>4. CASE k > 0
  <2>1. k \in Nat /\ y = k + g
    BY <1>2, <1>4
  <2> HIDE DEF k
  <2> DEFINE a == k * Q
             z == p * W
             N == x * p
  <2>2. a * (l * Q + x * p) <= (l * p) * (x * p)
    BY <2>1, FallPartSharp DEF g
  <2>3. a \in Nat /\ z \in Nat /\ N \in Nat
    BY <1>1, <2>1, ProductType
  <2> HIDE DEF a
  <2>4. a * (L * Q + x * p) <= (L * p) * (x * p)
    BY <2>2, <2>3, FallDeeper
  <2>5. a * Z + a * N <= (L * p) * N /\ {a * Z, a * N, (L * p) * N} \subseteq Nat
    <3>1. a * (Z + N) = a * Z + a * N
      BY <1>1, <2>3
    <3> QED
      BY <1>1, <2>3, <2>4, <3>1, ProductType
  <2>6. (a * Z) * (W * W) + (a * W) * (x * z) <= (L * z) * (x * z)
    <3>1. W * W \in Nat
      BY ProductType
    <3> HIDE DEF N
    <3>2. (a * Z + a * N) * (W * W) <= ((L * p) * N) * (W * W)
      BY <1>1, <2>3, <2>5, <3>1, ProductOrder
    <3>3. /\ (a * Z + a * N) * (W * W) = (a * Z) * (W * W) + (a * W) * (x * z)
          /\ ((L * p) * N) * (W * W) = (L * z) * (x * z)
      BY <1>1, <2>3 DEF N
    <3> QED
      BY <3>2, <3>3
  <2> HIDE DEF z
  <2>7. (a * Z) * (W * W) + (a * W) * (x * K) <= (L * K) * (x * K)
    <3> DEFINE e == a * W
               h == (a * Z) * (W * W)
    <3>1. e \in Nat /\ h \in Nat /\ z <= K /\ L * z \in Nat /\ x * z \in Nat /\ L * K \in Nat
          /\ x * K \in Nat
      <4>1. a * Z \in Nat /\ W * W \in Nat /\ e \in Nat /\ z <= K
        BY <1>1, <2>3, ProductType DEF z
      <4> QED
        BY <1>1, <2>3, <4>1, ProductType
    <3>2. h = 0 => e = 0
      <4>1. ASSUME a # 0, W # 0 PROVE h # 0
        <5>1. a * Z \in Nat \ {0} /\ W * W \in Nat \ {0}
          BY <1>1, <2>3, <4>1, ProductType
        <5> QED
          BY <5>1, ProductType
      <4> QED
        BY <2>3, <4>1
    <3> HIDE DEF K
    <3>3. L * z <= L * K /\ x * z <= x * K
      <4>1. z * L <= K * L /\ z * x <= K * x
        BY <1>1, <2>3, <3>1, ProductOrder
      <4> QED
        BY <1>1, <2>3, <4>1
    <3>4. h + e * (x * z) <= (L * z) * (x * z)
      BY <2>6
    <3> HIDE DEF e, h
    <3>5. h + e * (x * K) <= (L * K) * (x * K)
      BY <3>1, <3>2, <3>3, <3>4, BoundGrows
    <3> QED
      BY <3>5 DEF e, h
  <2>8. (a * Q) * M <= x * F
    <3>1. /\ (a * Z) * (W * W) + (a * W) * (x * K) = (a * M) * Z
          /\ ((L * K) * (x * K)) * Q = (x * F) * Z
      BY <1>1, <2>3
    <3> HIDE DEF M, F, K
    <3>2. a * M \in Nat /\ (a * M) * Z \in Nat /\ (L * K) * (x * K) \in Nat
      <4>1. a * M \in Nat /\ L * K \in Nat /\ x * K \in Nat
        BY <1>1, <2>3, ProductType
      <4> QED
        BY <1>1, <4>1, ProductType
    <3>3. ((a * M) * Z) * Q <= ((L * K) * (x * K)) * Q
      BY <1>1, <2>7, <3>1, <3>2, ProductOrder
    <3>4. ((a * M) * Z) * Q = ((a * Q) * M) * Z /\ (a * Q) * M \in Nat
      <4>1. a * Q \in Nat
        BY <1>1, <2>3, ProductType
      <4> QED
        BY <1>1, <2>3, <4>1, ProductType
    <3>5. ((a * Q) * M) * Z <= (x * F) * Z
      BY <3>1, <3>3, <3>4
    <3> QED
      BY <1>1, <3>4, <3>5, ProductCancel
  <2> HIDE DEF M, F
  <2>9. (y * (Q * Q)) * M = (a * Q) * M + (g * (Q * Q)) * M
    BY <1>1, <1>2, <2>1 DEF a
  <2>10. {(a * Q) * M, (g * (Q * Q)) * M} \subseteq Nat
    BY <1>1, <1>2, <2>3, ProductType
  <2> QED
    BY <1>1, <2>8, <2>9, <2>10 DEF M, F, g
<1> QED
  BY <1>2, <1>3, <1>4

(* Where a price rises all the way to t, it rises no less than without ticks. *)
LEMMA RiseKeeps ==
  ASSUME NEW p \in Nat, NEW t \in Nat, p <= t, NEW L \in Nat, NEW l \in Nat, l <= L,
         NEW W \in Nat, NEW x, x = (l * (t - p)) \div Q, W <= p * L
  PROVE  W + x * Q <= t * L
<1> DEFINE d == t - p
<1>1. Q \in Nat \ {0} /\ d \in Nat /\ t = p + d
  BY QuoteAssumption
<1> HIDE DEF d
<1>2. l * d \in Nat /\ l * d <= L * d /\ L * d \in Nat /\ p * L \in Nat
  BY <1>1, ProductType, ProductOrder
<1>3. x \in Nat /\ x * Q <= l * d /\ x * Q \in Nat
  <2>1. x = (l * d) \div Q
    BY DEF d
  <2> HIDE DEF d
  <2> QED
    BY <1>1, <1>2, <2>1, QuotientType, ProductType
<1>4. t * L = p * L + L * d
  BY <1>1
<1> QED
  BY <1>2, <1>3, <1>4

(* A step up to its target.                                                  *)
LEMMA RiseWholeUnder ==
  ASSUME NEW P \in Nat, NEW p \in Nat, NEW t \in Nat, P <= p, P <= t, NEW L \in Nat,
         NEW Z, Z = P * L, NEW W \in Nat, NEW V \in Nat, NEW x \in Nat, NEW y \in Nat,
         y * (p * t) <= (x + 1) * (Q * Q), W <= p * L, V <= t * L
  PROVE  (y * (P * P)) * (W * V) <= x * ((Q * Q) * (Z * Z)) + (Q * Q) * (W * V)
<1> DEFINE U == Q * Q
           M == W * V
           a == y * (P * P)
           k == p * t
           H == P * P
           F == U * (Z * Z)
<1>1. {U, M, k, H, L * L, p * L, t * L} \subseteq Nat
  BY QuoteAssumption, ProductType
<1>2. H <= k
  BY ProductsOrder
<1>3. M <= k * (L * L)
  <2>1. M <= (p * L) * (t * L)
    BY <1>1, ProductsOrder
  <2>2. (p * L) * (t * L) = k * (L * L)
    OBVIOUS
  <2> HIDE DEF M, k
  <2> QED
    BY <2>1, <2>2
<1>4. F = U * (H * (L * L))
  BY QuoteAssumption
<1> HIDE DEF U, M, k, H, F
<1>5. a \in Nat /\ a = y * H /\ {U * M, F, x * F} \subseteq Nat
  <2>1. a = y * H
    BY DEF H
  <2>2. H * (L * L) \in Nat
    BY <1>1, ProductType
  <2>3. F \in Nat
    BY <1>1, <1>4, <2>2, ProductType
  <2> HIDE DEF a
  <2> QED
    BY <1>1, <2>1, <2>3, ProductType
<1> HIDE DEF a
<1>6. CASE a <= U
  <2>1. a * M <= U * M /\ a * M \in Nat
    BY <1>1, <1>5, <1>6, ProductOrder, ProductType
  <2> QED
    BY <1>5, <2>1 DEF a, M, F, U
<1>7. CASE ~(a <= U)
  <2> DEFINE r == a - U
  <2>1. r \in Nat /\ a = U + r
    BY <1>1, <1>5, <1>7
  <2> HIDE DEF r
  <2>2. r * k <= x * (U * H)
    <3>1. y * k <= (x + 1) * U
      BY DEF k, U
    <3>2. (y * k) * H <= ((x + 1) * U) * H
      BY <1>1, <3>1, ProductOrder, ProductType
    <3>3. (y * k) * H = U * k + r * k
      <4>1. (y * k) * H = (y * H) * k
        BY <1>1
      <4> QED
        BY <1>1, <1>5, <2>1, <4>1
    <3>4. ((x + 1) * U) * H = x * (U * H) + U * H
      BY <1>1
    <3>5. U * H <= U * k
      <4>1. H * U <= k * U
        BY <1>1, <1>2, ProductOrder
      <4> QED
        BY <1>1, <4>1
    <3>6. {U * k, r * k, U * H, x * (U * H)} \subseteq Nat
      BY <1>1, <2>1, ProductType
    <3> QED
      BY <3>2, <3>3, <3>4, <3>5, <3>6
  <2>3. r * M <= x * F
    <3>1. M * r <= (k * (L * L)) * r
      BY <1>1, <1>3, <2>1, ProductOrder, ProductType
    <3>2. (k * (L * L)) * r = (r * k) * (L * L)
      BY <1>1, <2>1
    <3>3. (r * k) * (L * L) <= (x * (U * H)) * (L * L)
      BY <1>1, <2>1, <2>2, ProductOrder, ProductType
    <3>4. (x * (U * H)) * (L * L) = x * F
      BY <1>1, <1>4
    <3>5. M * r = r * M /\ {M * r, (r * k) * (L * L)} \subseteq Nat
      BY <1>1, <2>1, ProductType
    <3> QED
      BY <1>5, <3>1, <3>2, <3>3, <3>4, <3>5
  <2>4. a * M = U * M + r * M /\ r * M \in Nat
    BY <1>1, <2>1, ProductType
  <2>5. a * M <= x * F + U * M
    BY <1>5, <2>3, <2>4
  <2> QED
    BY <2>5 DEF a, M, F, U
<1> QED
  BY <1>6, <1>7

(* Part of the way up, more liquidity pays more.                             *)
LEMMA RisePartSharp ==
  ASSUME NEW l \in Nat \ {0}, NEW p \in Nat \ {0}, NEW x \in Nat, NEW rise, NEW y \in Nat,
         rise = (x * Q) \div l, y * (p * (p + rise)) <= (l * rise) * Q,
         NEW L \in Nat, l <= L
  PROVE  (y * p) * (p * L + x * Q) <= (x * Q) * (L * Q)
<1> DEFINE N == x * Q
           e == y * p
           d == l * rise
<1>1. Q \in Nat \ {0} /\ {N, e} \subseteq Nat
  BY QuoteAssumption, ProductType
<1>2. rise \in Nat /\ d \in Nat /\ d <= N
  <2> HIDE DEF N
  <2>1. rise \in Nat /\ rise * l <= N
    BY <1>1, QuotientType DEF N
  <2> QED
    BY <2>1, ProductType
<1>3. /\ y * (p * (p + rise)) = e * p + e * rise /\ {e * p, e * rise, l * Q, p * l} \subseteq Nat
  <2>1. {e * p, e * rise, l * Q, p * l} \subseteq Nat
    BY <1>1, <1>2, ProductType
  <2>2. y * (p * (p + rise)) = e * p + e * rise
    BY <1>2
  <2> QED
    BY <2>1, <2>2
<1> HIDE DEF N, e
<1>4. e * (p * l) + e * d <= (l * Q) * d
  <2>1. e * p + e * rise <= d * Q /\ d * Q \in Nat
    BY <1>1, <1>2, <1>3, ProductType
  <2>2. (e * p + e * rise) * l <= (d * Q) * l
    BY <1>3, <2>1, ProductOrder
  <2>3. (e * p + e * rise) * l = e * (p * l) + e * d
    BY <1>1, <1>2, <1>3
  <2>4. (d * Q) * l = (l * Q) * d
    BY <1>1, <1>2
  <2> QED
    BY <2>2, <2>3, <2>4
<1> HIDE DEF d
<1>5. e * (p * l) + e * N <= (l * Q) * N
  <2>1. p * l \in Nat \ {0} /\ e * (p * l) \in Nat /\ (e * (p * l) = 0 => e = 0)
    <3>1. p * l \in Nat \ {0}
      BY ProductType
    <3> QED
      BY <1>1, <3>1, ProductType
  <2> QED
    BY <1>1, <1>2, <1>3, <1>4, <2>1, BoundGrows
<1> DEFINE b == e * p
           c == Q * N
<1>6. b \in Nat /\ c \in Nat /\ e * (p * l) = l * b /\ (l * Q) * N = l * c
      /\ e * (p * L) = L * b /\ (L * Q) * N = L * c
  <2>1. b \in Nat /\ c \in Nat
    BY <1>1, ProductType
  <2>2. e * (p * l) = l * b /\ e * (p * L) = L * b
    BY <1>1
  <2>3. (l * Q) * N = l * c /\ (L * Q) * N = L * c
    BY <1>1
  <2> QED
    BY <2>1, <2>2, <2>3
<1> HIDE DEF b, c
<1>7. l * b + e * N <= l * c /\ {l * b, l * c, e * N} \subseteq Nat
  BY <1>1, <1>5, <1>6, ProductType
<1>8. L * b + e * N <= L * c
  BY <1>1, <1>6, <1>7, LiquidityGrows
<1>9. (y * p) * (p * L + x * Q) = e * (p * L) + e * N
  <2>1. p * L \in Nat
    BY ProductType
  <2> QED
    BY <1>1, <2>1 DEF e, N
<1>10. (x * Q) * (L * Q) = (L * Q) * N
  BY <1>1 DEF N
<1> QED
  BY <1>6, <1>8, <1>9, <1>10

(* A step up that ends before its target.                                    *)
LEMMA RisePartUnder ==
  ASSUME NEW P \in Nat, NEW p \in Nat \ {0}, P <= p, NEW L \in Nat, NEW l \in Nat \ {0}, l <= L,
         NEW x \in Nat, NEW rise, NEW y \in Nat,
         rise = (x * Q) \div l, y * (p * (p + rise)) <= (l * rise) * Q,
         NEW Z, Z = P * L, NEW W \in Nat, NEW V, V = W + x * Q, W <= p * L
  PROVE  (y * (P * P)) * (W * V) <= x * ((Q * Q) * (Z * Z))
<1> DEFINE N == x * Q
           k == p * L
           H == P * P
           F == (Q * Q) * (Z * Z)
           G == N * (L * Q)
<1>1. Q \in Nat /\ {N, k, H, L * L, L * Q} \subseteq Nat
  BY QuoteAssumption, ProductType
<1>2. (y * p) * (k + N) <= G
  BY RisePartSharp
<1>3. (G * L) * H = x * F
  BY <1>1
<1> HIDE DEF N, k, G, F
<1>4. V \in Nat /\ W <= k /\ V <= k + N /\ G \in Nat
  <2>1. V = W + N /\ W <= k
    BY DEF N, k
  <2> QED
    BY <1>1, <2>1, ProductType DEF G
<1>5. W * V <= k * (k + N) /\ {W * V, k * (k + N)} \subseteq Nat
  BY <1>1, <1>4, ProductsOrder, ProductType
<1>6. y * (k * (k + N)) <= G * L
  <2>1. {(y * p) * (k + N)} \subseteq Nat
    BY <1>1, ProductType
  <2>2. ((y * p) * (k + N)) * L <= G * L
    BY <1>2, <1>4, <2>1, ProductOrder
  <2>3. ((y * p) * (k + N)) * L = y * (k * (k + N))
    <3>1. ((y * p) * (k + N)) * L = y * ((p * L) * (k + N))
      BY <1>1
    <3> QED
      BY <3>1 DEF k
  <2> QED
    BY <2>2, <2>3
<1>7. y * (W * V) <= G * L /\ {y * (W * V), G * L} \subseteq Nat
  <2>1. (W * V) * y <= (k * (k + N)) * y
    BY <1>5, ProductOrder
  <2>2. (W * V) * y = y * (W * V) /\ (k * (k + N)) * y = y * (k * (k + N))
    BY <1>5
  <2>3. {y * (W * V), y * (k * (k + N)), G * L} \subseteq Nat
    BY <1>4, <1>5, ProductType
  <2> QED
    BY <1>6, <2>1, <2>2, <2>3
<1>8. (y * (W * V)) * H <= (G * L) * H
  BY <1>1, <1>7, ProductOrder
<1>9. (y * (W * V)) * H = (y * (P * P)) * (W * V)
  <2>1. (y * (W * V)) * H = (y * H) * (W * V)
    BY <1>1, <1>5
  <2> QED
    BY <2>1 DEF H
<1> QED
  BY <1>3, <1>8, <1>9 DEF F

(* The ground of a walk: the first price is P, the liquidity at most L.      *)
Ground(P, L, ab) == IF ab THEN L * Q ELSE P * L
Move(P, ab)      == IF ab THEN P ELSE Q

\* W is the ground and what the input has moved; the price has moved as far.
Held(P, L, p, W, ab) == IF ab THEN p * W <= P * (L * Q) ELSE W <= p * L

(* A step of a falling price keeps what holds of a range without ticks.      *)
LEMMA FallsUnder ==
  ASSUME NEW P \in Nat \ {0}, NEW L \in Nat \ {0}, NEW p \in Nat, NEW t \in Nat, p <= P,
         NEW liq \in Nat \ {0}, liq <= L, NEW left \in Nat, NEW step,
         Falls(step, p, t, liq, left), step.in \in Nat, step.out \in Nat,
         NEW W \in Nat, p * W <= P * (L * Q)
  PROVE  LET V == W + step.in * P
             Z == L * Q
             g == IF step.in = left THEN CeilDiv(liq, Q) ELSE 0
         IN  /\ step.in # left => step.price * V <= P * Z
             /\ (step.out * (Q * Q)) * (W * V)
                  <= step.in * ((P * P) * (Z * Z)) + (P * P + P * Q + g * (Q * Q)) * (W * V)
<1> DEFINE x == step.in
           y == step.out
           Z == L * Q
           V == W + x * P
           M == W * V
           g == IF x = left THEN CeilDiv(liq, Q) ELSE 0
           F == x * ((P * P) * (Z * Z))
           B == P * P + P * Q
           C == g * (Q * Q)
<1>1. /\ Q \in Nat \ {0} /\ Z \in Nat /\ V \in Nat /\ M \in Nat /\ F \in Nat
      /\ B \in Nat /\ g \in Nat /\ C \in Nat
  <2>1. Q \in Nat \ {0}
    BY QuoteAssumption
  <2>2. Z \in Nat /\ V \in Nat /\ B \in Nat /\ Q * Q \in Nat
    BY <2>1, ProductType
  <2>3. M \in Nat
    BY <2>2, ProductType
  <2>4. g \in Nat
    BY <2>1, CeilAbove
  <2>5. F \in Nat
    <3>1. P * P \in Nat /\ Z * Z \in Nat
      BY <2>2, ProductType
    <3>2. (P * P) * (Z * Z) \in Nat
      BY <3>1, ProductType
    <3> QED
      BY <3>2, ProductType
  <2>6. C \in Nat
    BY <2>2, <2>4, ProductType
  <2> QED
    BY <2>1, <2>2, <2>3, <2>4, <2>5, <2>6
<1> HIDE DEF Z
<1>2. /\ (B + C) * M = B * M + C * M /\ {B * M, C * M} \subseteq Nat
      /\ {(y * (Q * Q)) * M, B * M, C * M} \subseteq Nat
  <2>1. y * (Q * Q) \in Nat
    BY <1>1, ProductType
  <2> HIDE DEF B, C, M
  <2> QED
    BY <1>1, <2>1, ProductType
<1>3. CASE /\ step.price = t /\ p # 0 /\ t # 0 /\ t <= p
           /\ x = (((liq * (p - t)) \div p) * Q) \div t
           /\ y = (liq * (p - t)) \div Q
  <2>1. y * (Q * Q) <= (x + 1) * (p * t) + p * Q
    BY <1>3, FallWhole
  <2>2. t * V <= P * Z
    <3>1. t * (W + x * P) <= P * (L * Q)
      BY <1>3, FallKeeps
    <3> QED
      BY <3>1 DEF Z
  <2>3. (y * (Q * Q)) * M <= F + B * M
    <3>1. p * W <= P * Z /\ t <= P
      BY <1>3 DEF Z
    <3> HIDE DEF V
    <3> QED
      BY <1>1, <2>1, <2>2, <3>1, FallWholeUnder
  <2> HIDE DEF B, C, M, F, V
  <2>4. (y * (Q * Q)) * M <= F + (B + C) * M
    BY <1>1, <1>2, <2>3
  <2> QED
    BY <1>3, <2>2, <2>4 DEF B, C, M, F, V, Z
<1>4. CASE /\ x = left /\ step.price <= p /\ step.price \in Nat
           /\ step.price = (liq * p) \div (liq + (left * p) \div Q)
           /\ y = (liq * (p - step.price)) \div Q
  <2> DEFINE to == step.price
  <2>1. (y * (Q * Q)) * M <= F + (CeilDiv(liq, Q) * (Q * Q)) * M
    <3>1. to = (liq * p) \div (liq + (x * p) \div Q) /\ to <= p /\ y = (liq * (p - to)) \div Q
          /\ to \in Nat
      BY <1>4
    <3>2. Z = L * Q /\ p * W <= P * Z
      BY DEF Z
    <3>3. x \in Nat /\ V = W + x * P
      OBVIOUS
    <3> HIDE DEF V, x, y, to
    <3> QED
      BY <1>1, <3>1, <3>2, <3>3, FallPartUnder
  <2>2. g = CeilDiv(liq, Q)
    BY <1>4
  <2>3. (y * (Q * Q)) * M <= F + C * M
    BY <2>1, <2>2, Zenon
  <2> HIDE DEF B, C, M, F
  <2>4. (y * (Q * Q)) * M <= F + (B + C) * M
    BY <1>1, <1>2, <2>3
  <2> QED
    BY <1>4, <2>4 DEF B, C, M, F, Z
<1> QED
  BY <1>3, <1>4 DEF Falls

(* So does a step of a rising price.                                        *)
LEMMA RisesUnder ==
  ASSUME NEW P \in Nat \ {0}, NEW L \in Nat \ {0}, NEW p \in Nat, NEW t \in Nat, P <= p,
         NEW liq \in Nat \ {0}, liq <= L, NEW left \in Nat, NEW step,
         Rises(step, p, t, liq, left), step.in \in Nat, step.out \in Nat,
         NEW W \in Nat, W <= p * L
  PROVE  LET V == W + step.in * Q
             Z == P * L
         IN  /\ step.in # left => V <= step.price * L
             /\ (step.out * (P * P)) * (W * V)
                  <= step.in * ((Q * Q) * (Z * Z)) + (Q * Q) * (W * V)
<1> DEFINE x == step.in
           y == step.out
           Z == P * L
           V == W + x * Q
           M == W * V
           F == x * ((Q * Q) * (Z * Z))
           rise == (left * Q) \div liq
<1>1. Q \in Nat \ {0} /\ Z \in Nat /\ V \in Nat /\ M \in Nat /\ (Q * Q) * M \in Nat
  <2>1. Q \in Nat \ {0}
    BY QuoteAssumption
  <2>2. Z \in Nat /\ V \in Nat /\ Q * Q \in Nat
    BY <2>1, ProductType
  <2>3. M \in Nat
    BY <2>2, ProductType
  <2> HIDE DEF M
  <2> QED
    BY <2>1, <2>2, <2>3, ProductType
<1> HIDE DEF Z
<1>2. CASE /\ step.price = t /\ p # 0 /\ p <= t
           /\ x = (liq * (t - p)) \div Q
           /\ y = (((liq * (t - p)) \div p) * Q) \div t
  <2>1. y * (p * t) <= (x + 1) * (Q * Q)
    BY <1>2, RiseWhole
  <2>2. V <= t * L
    BY <1>2, RiseKeeps
  <2>3. (y * (P * P)) * M <= F + (Q * Q) * M
    <3>1. P <= t /\ Z = P * L
      BY <1>2 DEF Z
    <3> HIDE DEF V
    <3> QED
      BY <1>1, <2>1, <2>2, <3>1, RiseWholeUnder
  <2> QED
    BY <1>2, <2>2, <2>3 DEF M, F, V, Z
<1>3. CASE /\ p # 0 /\ x = left /\ step.price = p + rise
           /\ y = (((liq * rise) \div p) * Q) \div (p + rise)
  <2>1. rise \in Nat /\ rise = (x * Q) \div liq
    <3>1. left * Q \in Nat
      BY <1>1, ProductType
    <3> QED
      BY <1>3, <3>1, QuotientType
  <2>2. y * (p * (p + rise)) <= (liq * rise) * Q
    <3> DEFINE d == liq * rise
               to == p + rise
    <3>1. d \in Nat /\ to \in Nat /\ p <= to /\ y = ((d \div p) * Q) \div to
      BY <1>3, <2>1, ProductType
    <3> HIDE DEF d, to, y, rise
    <3>2. y * (p * to) <= d * Q
      BY <1>3, <3>1, RisePays
    <3> QED
      BY <3>2 DEF d, to
  <2>3. (y * (P * P)) * M <= F
    <3>1. Z = P * L /\ V = W + x * Q /\ x \in Nat /\ y \in Nat /\ p \in Nat \ {0}
      BY <1>3 DEF Z
    <3> HIDE DEF V, x, y, rise
    <3>2. (y * (P * P)) * (W * V) <= x * ((Q * Q) * (Z * Z))
      BY <1>1, <2>1, <2>2, <3>1, RisePartUnder
    <3> QED
      BY <3>2
  <2>4. (y * (P * P)) * M \in Nat /\ F \in Nat
    <3>1. P * P \in Nat /\ Z * Z \in Nat /\ Q * Q \in Nat
      BY <1>1, ProductType
    <3>2. y * (P * P) \in Nat /\ (Q * Q) * (Z * Z) \in Nat
      BY <3>1, ProductType
    <3> HIDE DEF M
    <3> QED
      BY <1>1, <3>2, ProductType
  <2>5. (y * (P * P)) * M <= F + (Q * Q) * M
    <3> HIDE DEF M, F
    <3> QED
      BY <1>1, <2>3, <2>4
  <2> QED
    BY <1>3, <2>5 DEF M, F, V, Z
<1> QED
  BY <1>2, <1>3 DEF Rises

(* A step in either direction: from W, what has been taken moves the price   *)
(* to V.                                                                    *)
Kept(step, left, liq, P, L, W, ab) ==
  LET V == W + step.in * Move(P, ab)
      Z == Ground(P, L, ab)
      g == IF step.in = left THEN PriceGain(liq, ab) ELSE 0
  IN  /\ step.in # left => Held(P, L, step.price, V, ab)
      /\ (step.out * Unit(P, ab)) * (W * V)
           <= step.in * (Rate(P, ab) * (Z * Z)) + (PerStep(P, ab) + g * Unit(P, ab)) * (W * V)

(* A step in either direction, below the curve of the most liquidity.        *)
LEMMA StepUnder ==
  ASSUME NEW P \in Nat \ {0}, NEW L \in Nat \ {0}, NEW p \in Nat, NEW t \in Nat,
         NEW liq \in Nat \ {0}, liq <= L, NEW left \in Nat, NEW ab \in BOOLEAN,
         SwapStep(p, t, liq, left, ab).in # None, Beyond(P, p, ab),
         NEW W \in Nat, Held(P, L, p, W, ab)
  PROVE  Kept(SwapStep(p, t, liq, left, ab), left, liq, P, L, W, ab)
<1> DEFINE step == SwapStep(p, t, liq, left, ab)
           V == W + step.in * Move(P, ab)
           Z == Ground(P, L, ab)
<1> HIDE DEF step
<1> SUFFICES
      /\ step.in # left => Held(P, L, step.price, V, ab)
      /\ (step.out * Unit(P, ab)) * (W * V)
           <= step.in * (Rate(P, ab) * (Z * Z))
              + (PerStep(P, ab) + (IF step.in = left THEN PriceGain(liq, ab) ELSE 0) * Unit(P, ab))
                  * (W * V)
  BY Zenon DEF Kept, step
<1> HIDE DEF V, Z
<1>1. step.in \in Nat /\ step.out \in Nat
  <2>1. SwapStep(p, t, liq, left, ab).in # None
    OBVIOUS
  <2>2. SwapStep(p, t, liq, left, ab).in \in 0..left /\ SwapStep(p, t, liq, left, ab).out \in Nat
    BY <2>1, StepWorth, ZenonT(60)
  <2> QED
    BY <2>2 DEF step
<1> DEFINE T == W + step.in * P
           g == IF step.in = left THEN CeilDiv(liq, Q) ELSE 0
           Y == L * Q
<1>4. ASSUME Falls(step, p, t, liq, left), p <= P, p * W <= P * (L * Q)
      PROVE  /\ step.in # left => step.price * T <= P * Y
             /\ (step.out * (Q * Q)) * (W * T)
                  <= step.in * ((P * P) * (Y * Y)) + (P * P + P * Q + g * (Q * Q)) * (W * T)
  BY <1>1, <1>4, FallsUnder, Zenon
<1> HIDE DEF T, g, Y
<1>2. CASE ab
  <2>1. Falls(step, p, t, liq, left)
    BY <1>2, StepDown DEF step
  <2>2. p <= P /\ p * W <= P * (L * Q)
    BY <1>2 DEF Beyond, Held
  <2>3. /\ step.in # left => step.price * T <= P * Y
        /\ (step.out * (Q * Q)) * (W * T)
             <= step.in * ((P * P) * (Y * Y)) + (P * P + P * Q + g * (Q * Q)) * (W * T)
    BY <1>4, <2>1, <2>2
  <2>4. T = V /\ Y = Z
    BY <1>2 DEF Move, Ground, T, Y, V, Z
  <2>5. /\ Rate(P, ab) = P * P /\ Unit(P, ab) = Q * Q /\ PerStep(P, ab) = P * P + P * Q
        /\ (IF step.in = left THEN PriceGain(liq, ab) ELSE 0) = g
    BY <1>2, Zenon DEF Rate, Unit, PerStep, PriceGain, g
  <2>6. step.in # left => Held(P, L, step.price, V, ab)
    BY <1>2, <2>3, <2>4 DEF Held, Y
  <2> QED
    BY <2>3, <2>4, <2>5, <2>6, Zenon
<1>3. CASE ~ab
  <2>1. ~ab => Rises(step, p, t, liq, left)
    BY StepUp DEF step
  <2>2. P <= p /\ W <= p * L
    BY <1>3 DEF Beyond, Held
  <2> DEFINE S == W + step.in * Q
             K == P * L
  <2>3. /\ step.in # left => S <= step.price * L
        /\ (step.out * (P * P)) * (W * S)
             <= step.in * ((Q * Q) * (K * K)) + (Q * Q) * (W * S)
    BY <1>1, <1>3, <2>1, <2>2, RisesUnder, Zenon
  <2>4. S = V /\ K = Z
    BY <1>3 DEF Move, Ground, V, Z
  <2>5. /\ Rate(P, ab) = Q * Q /\ Unit(P, ab) = P * P /\ PerStep(P, ab) = Q * Q
        /\ (IF step.in = left THEN PriceGain(liq, ab) ELSE 0) = 0
    BY <1>3 DEF Rate, Unit, PerStep, PriceGain
  <2>6. step.in # left => Held(P, L, step.price, V, ab)
    BY <1>3, <2>3, <2>4 DEF Held
  <2>7. PerStep(P, ab) + 0 * Unit(P, ab) = Q * Q
    <3>1. P * P \in Nat /\ Q * Q \in Nat
      BY ProductType, QuoteAssumption
    <3> QED
      BY <2>5, <3>1
  <2> HIDE DEF S, K
  <2> QED
    BY <2>3, <2>4, <2>5, <2>6, <2>7, Zenon
<1> QED
  BY <1>2, <1>3

(* A walk under a liquidity of at most L: what it has paid is no more than a  *)
(* range without ticks pays, but for what its i steps gain by rounding.      *)
Gained(i, most, left, P, ab) ==
  i * PerStep(P, ab) + (IF left = 0 THEN PriceGain(most, ab) ELSE 0) * Unit(P, ab)

Moved(c, P, L, ab) == Ground(P, L, ab) + c * Move(P, ab)

Curbed(w, d, i, P, L, net, ab) ==
  /\ w.left > 0 => Held(P, L, w.price, Moved(net - w.left, P, L, ab), ab) /\ w.liq <= L
  /\ (w.out * Unit(P, ab)) * Moved(net - w.left, P, L, ab)
       <= (Rate(P, ab) * Ground(P, L, ab)) * (net - w.left)
            + Gained(i, d.most, w.left, P, ab) * Moved(net - w.left, P, L, ab)

(* The terms of that curve are natural numbers.                              *)
LEMMA GroundType ==
  ASSUME NEW P \in Nat \ {0}, NEW L \in Nat \ {0}, NEW ab \in BOOLEAN, NEW c \in Nat
  PROVE  /\ Ground(P, L, ab) \in Nat \ {0} /\ Move(P, ab) \in Nat
         /\ Moved(c, P, L, ab) \in Nat \ {0}
<1>1. Q \in Nat \ {0}
  BY QuoteAssumption
<1>2. Ground(P, L, ab) \in Nat \ {0} /\ Move(P, ab) \in Nat
  BY <1>1, ProductType DEF Ground, Move
<1>3. c * Move(P, ab) \in Nat
  BY <1>2, ProductType
<1> QED
  BY <1>2, <1>3 DEF Moved

(* What more steps or a larger liquidity gain is no less.                    *)
LEMMA GainedGrows ==
  ASSUME NEW P \in Nat \ {0}, NEW ab \in BOOLEAN, NEW i \in Nat, NEW j \in Nat, i <= j,
         NEW m \in Nat, NEW n \in Nat, m <= n, NEW left \in Nat
  PROVE  /\ Gained(i, m, left, P, ab) \in Nat /\ Gained(j, n, left, P, ab) \in Nat
         /\ Gained(i, m, left, P, ab) <= Gained(j, n, left, P, ab)
<1> DEFINE g == IF left = 0 THEN PriceGain(m, ab) ELSE 0
           h == IF left = 0 THEN PriceGain(n, ab) ELSE 0
           U == Unit(P, ab)
           S == PerStep(P, ab)
<1>1. g \in Nat /\ h \in Nat /\ g <= h /\ U \in Nat /\ S \in Nat
  BY GainOrder, RateType
<1>2. Gained(i, m, left, P, ab) = i * S + g * U /\ Gained(j, n, left, P, ab) = j * S + h * U
  BY DEF Gained
<1> HIDE DEF g, h, U, S
<1>3. i * S <= j * S /\ g * U <= h * U /\ {i * S, j * S, g * U, h * U} \subseteq Nat
  BY <1>1, ProductOrder, ProductType
<1> QED
  BY <1>2, <1>3

(* One more tick, where a step is taken.                                     *)
LEMMA StepOverCurbs ==
  ASSUME NEW P \in Nat \ {0}, NEW L \in Nat \ {0}, NEW net \in Nat, NEW ab \in BOOLEAN,
         NEW i \in Nat, NEW w, NEW d, NEW e, NEW target \in Nat,
         Paying(w, d, i, P, net, ab), Curbed(w, d, i, P, L, net, ab), w.left > 0, w.liq # 0,
         d.most \in Nat, e.most \in Nat, d.most <= e.most, e.liq <= L
  PROVE  LET v == StepOver(w, target, e.liq, SwapStep(w.price, target, w.liq, w.left, ab))
         IN  ~v.fail => Curbed(v, e, i + 1, P, L, net, ab)
<1> DEFINE step == SwapStep(w.price, target, w.liq, w.left, ab)
           v == StepOver(w, target, e.liq, step)
           liq == w.liq
           left == w.left
           x == step.in
           g == IF x = left THEN PriceGain(liq, ab) ELSE 0
           h == IF v.left = 0 THEN PriceGain(e.most, ab) ELSE 0
           R == Rate(P, ab)
           U == Unit(P, ab)
           S == PerStep(P, ab)
           Z == Ground(P, L, ab)
           k == Move(P, ab)
           c == net - left
           W == Moved(c, P, L, ab)
           V == Moved(c + x, P, L, ab)
           A == w.out * U
           B == step.out * U
           E == Gained(i, d.most, left, P, ab)
           F == Gained(i + 1, e.most, v.left, P, ab)
<1> SUFFICES ASSUME ~v.fail PROVE Curbed(v, e, i + 1, P, L, net, ab)
  OBVIOUS
<1>1. /\ left \in 1..net /\ left \in Nat /\ liq \in Nat \ {0} /\ liq <= d.most /\ w.price \in Nat
      /\ Beyond(P, w.price, ab) /\ w.out \in Nat /\ c \in Nat
  BY DEF Paying
<1>2. /\ v.left = left - Least(left, x) /\ v.out = w.out + step.out /\ v.price = step.price
      /\ v.liq = (IF step.price = target THEN e.liq ELSE liq) /\ x # None
  BY DEF StepOver
<1>3. /\ Held(P, L, w.price, W, ab) /\ liq <= L
      /\ A * W <= (R * Z) * c + E * W
  BY <1>1 DEF Curbed
<1>4. x \in 0..left /\ step.out \in Nat
  <2>1. w.price \in Nat /\ left \in Nat /\ liq \in Nat \ {0} /\ step.in # None
    BY <1>1, <1>2
  <2>2. /\ step.in \in 0..left /\ step.out \in Nat /\ step.price \in Nat
        /\ Beyond(P, step.price, ab)
        /\ step.out * U <= step.in * R + S + g * U
    BY <1>1, <2>1, StepWorth, Zenon
  <2> QED
    BY <2>2
<1>5. R \in Nat /\ U \in Nat /\ S \in Nat /\ Z \in Nat \ {0} /\ k \in Nat
      /\ W \in Nat \ {0} /\ V \in Nat /\ A \in Nat /\ B \in Nat
  <2>1. R \in Nat /\ U \in Nat /\ S \in Nat /\ Z \in Nat \ {0} /\ k \in Nat
    BY RateType, GroundType, <1>1
  <2>2. W \in Nat \ {0} /\ V \in Nat
    <3>1. c \in Nat /\ c + x \in Nat
      BY <1>1, <1>4
    <3> HIDE DEF c, x
    <3> QED
      BY <3>1, GroundType
  <2>3. A \in Nat /\ B \in Nat
    BY <1>1, <1>4, <2>1, ProductType
  <2> QED
    BY <2>1, <2>2, <2>3
<1>6. W = Z + c * k /\ V = Z + (c + x) * k /\ V = W + x * k
  <2>1. W = Z + c * k /\ V = Z + (c + x) * k
    BY Zenon DEF Moved
  <2> HIDE DEF W, V, Z, k, c, x
  <2> QED
    BY <1>1, <1>4, <1>5, <2>1 DEF x
<1>7. /\ x # left => Held(P, L, step.price, V, ab)
      /\ B * (W * V) <= x * (R * (Z * Z)) + (S + g * U) * (W * V)
  <2> DEFINE p == w.price
  <2>1. /\ liq \in Nat \ {0} /\ liq <= L /\ left \in Nat /\ p \in Nat
        /\ SwapStep(p, target, liq, left, ab).in # None
        /\ W \in Nat /\ Beyond(P, p, ab) /\ Held(P, L, p, W, ab)
    BY <1>1, <1>2, <1>3, <1>5
  <2>4. step = SwapStep(p, target, liq, left, ab)
    OBVIOUS
  <2> HIDE DEF W, step, v, c, liq, left, p
  <2>2. Kept(step, left, liq, P, L, W, ab)
    BY ONLY <2>1, <2>4, StepUnder, P \in Nat \ {0}, L \in Nat \ {0}, target \in Nat, ab \in BOOLEAN
  <2>3. V = W + step.in * Move(P, ab)
    BY <1>6
  <2> HIDE DEF V, step, liq, left
  <2> QED
    BY <2>2, <2>3, Zenon DEF Kept
<1>8. v.left = left - x /\ v.left \in Nat /\ net - v.left = c + x
  BY <1>1, <1>2, <1>4 DEF Least
<1>9. g \in Nat /\ h \in Nat /\ g <= h
  <2>1. PriceGain(liq, ab) \in Nat /\ PriceGain(e.most, ab) \in Nat
        /\ PriceGain(liq, ab) <= PriceGain(e.most, ab)
    BY <1>1, GainOrder
  <2> HIDE DEF v, liq, left, x
  <2> QED
    BY <1>1, <1>4, <1>8, <2>1
<1>10. E \in Nat /\ F \in Nat /\ S + g * U \in Nat /\ E + (S + g * U) <= F
  <2>1. E = i * S + 0 * U /\ F = (i + 1) * S + h * U
    <3>1. E = i * S + (IF left = 0 THEN PriceGain(d.most, ab) ELSE 0) * U
      BY DEF Gained
    <3>2. F = (i + 1) * S + h * U
      BY Zenon DEF Gained
    <3>3. left # 0
      BY <1>1
    <3> QED
      BY <3>1, <3>2, <3>3
  <2> HIDE DEF E, F, S, U, g, h
  <2>2. g * U <= h * U /\ {g * U, h * U, i * S} \subseteq Nat /\ (i + 1) * S = i * S + S /\ 0 * U = 0
    BY <1>5, <1>9, ProductOrder, ProductType
  <2> QED
    BY <1>5, <2>1, <2>2
<1> HIDE DEF E, F, S, U, g, h, W, V, Z, k, R, A, B
<1>11. (A + B) * V <= (R * Z) * (c + x) + (E + (S + g * U)) * V
  <2>1. x \in Nat
    BY <1>1, <1>4
  <2> DEFINE G == S + g * U
  <2>2. B * (W * V) <= x * (R * (Z * Z)) + G * (W * V) /\ G \in Nat
    BY <1>7, <1>10
  <2> HIDE DEF G, x, c, step, v, left
  <2>3. (A + B) * V <= (R * Z) * (c + x) + (E + G) * V
    BY <1>1, <1>3, <1>5, <1>6, <1>10, <2>1, <2>2, CurbStep
  <2> QED
    BY <2>3 DEF G
<1>12. (v.out * U) * V <= (R * Z) * (c + x) + F * V
  <2>1. v.out * U = A + B
    BY <1>1, <1>2, <1>4, <1>5 DEF A, B
  <2>2. (E + (S + g * U)) * V <= F * V /\ {(E + (S + g * U)) * V, F * V} \subseteq Nat
    BY <1>5, <1>10, ProductOrder, ProductType
  <2>3. R * Z \in Nat /\ c + x \in Nat /\ (A + B) * V \in Nat
    BY <1>1, <1>4, <1>5, ProductType
  <2>4. (R * Z) * (c + x) \in Nat
    BY <2>3, ProductType
  <2> HIDE DEF x, c, step, v
  <2> QED
    BY <1>11, <2>1, <2>2, <2>3, <2>4
<1>13. v.left > 0 => Held(P, L, v.price, V, ab) /\ v.liq <= L
  <2>1. x # left => Held(P, L, v.price, V, ab)
    BY <1>2, <1>7
  <2>2. v.liq <= L
    BY <1>2, <1>3
  <2> QED
    BY <1>1, <1>4, <1>8, <2>1, <2>2
<1>14. Moved(net - v.left, P, L, ab) = V
  BY <1>8 DEF V
<1> HIDE DEF v
<1> QED
  BY <1>8, <1>12, <1>13, <1>14 DEF Curbed, F, R, U, Z

(* One more tick.                                                           *)
LEMMA VisitCurbs ==
  ASSUME NEW P \in Nat \ {0}, NEW L \in Nat \ {0}, NEW net \in Nat, NEW ab \in BOOLEAN,
         NEW i \in Nat, NEW w, NEW d, NEW tick, Walked(w, d, i, P, net, ab),
         ~w.fail => Curbed(w, d, i, P, L, net, ab), Deepen(d, tick, ab).liq <= L
  PROVE  ~VisitTick(w, tick, ab).fail
           => Curbed(VisitTick(w, tick, ab), Deepen(d, tick, ab), i + 1, P, L, net, ab)
<1> DEFINE e == Deepen(d, tick, ab)
           crossed == CrossTick(w.liq, tick, ab)
           target == TickPrice[tick.index]
           v == VisitTick(w, tick, ab)
           c == net - w.left
           W == Moved(c, P, L, ab)
           U == Unit(P, ab)
           D == Rate(P, ab) * Ground(P, L, ab)
           E == Gained(i, d.most, w.left, P, ab)
           F == Gained(i + 1, e.most, w.left, P, ab)
<1> SUFFICES ASSUME ~v.fail PROVE Curbed(v, e, i + 1, P, L, net, ab)
  OBVIOUS
<1>1. WalkState(w) /\ d.most \in Nat /\ (~w.fail => Paying(w, d, i, P, net, ab))
  BY DEF Walked
<1>2. /\ e.liq = CrossTick(d.liq, tick, ab) /\ e.liq \in Nat \cup {None}
      /\ e.most \in Nat /\ d.most <= e.most /\ e.liq <= e.most
  BY <1>1, DeepenGrows
<1>3. ~w.fail
  <2>1. w.fail => v = w
    BY DEF VisitTick
  <2> HIDE DEF v
  <2> QED
    BY <2>1
<1>4. /\ w.left \in 0..net /\ w.left \in Nat /\ w.out \in Nat /\ w.price \in Nat
      /\ Beyond(P, w.price, ab) /\ c \in Nat
      /\ w.left > 0 => w.liq = d.liq /\ w.liq \in Nat
  BY <1>1, <1>3 DEF Paying
<1>5. /\ w.left > 0 => Held(P, L, w.price, W, ab) /\ w.liq <= L
      /\ (w.out * U) * W <= D * c + E * W
  BY <1>3 DEF Curbed
<1>6. W \in Nat \ {0} /\ U \in Nat /\ D * c \in Nat
  <2>1. W \in Nat \ {0}
    <3> HIDE DEF c
    <3> QED
      BY <1>4, GroundType
  <2>2. U \in Nat /\ D \in Nat
    <3>1. Rate(P, ab) \in Nat /\ Unit(P, ab) \in Nat /\ Ground(P, L, ab) \in Nat
      BY RateType, GroundType
    <3> QED
      BY <3>1, ProductType
  <2> HIDE DEF D, c
  <2> QED
    BY <1>4, <2>1, <2>2, ProductType
<1>7. E \in Nat /\ F \in Nat /\ E <= F
  <2>1. i \in Nat /\ i + 1 \in Nat /\ i <= i + 1
    OBVIOUS
  <2> HIDE DEF e
  <2> QED
    BY <1>1, <1>2, <1>4, <2>1, GainedGrows
<1> HIDE DEF e, U, D, E, F, W
<1>8. (w.out * U) * W <= D * c + F * W
  <2>1. E * W <= F * W /\ {E * W, F * W} \subseteq Nat
    BY <1>6, <1>7, ProductOrder, ProductType
  <2>2. w.out * U \in Nat
    BY <1>4, <1>6, ProductType
  <2>3. (w.out * U) * W \in Nat
    BY <1>6, <2>2, ProductType
  <2> HIDE DEF c
  <2> QED
    BY <1>5, <1>6, <2>1, <2>3
<1>9. ASSUME NEW u, u.left = w.left, u.out = w.out,
             u.left > 0 => Held(P, L, u.price, W, ab) /\ u.liq <= L
      PROVE  Curbed(u, e, i + 1, P, L, net, ab)
  BY <1>8, <1>9 DEF Curbed, U, D, F, W
<1>10. CASE w.left = 0
  <2>1. v = w
    BY <1>10 DEF VisitTick
  <2> HIDE DEF v
  <2> QED
    BY <1>9, <1>10, <2>1
<1>11. CASE w.left # 0
  <2>1. w.left > 0 /\ crossed = e.liq
    BY <1>2, <1>4, <1>11
  <2>2. tick.index \in DOMAIN TickPrice
    <3>1. ASSUME tick.index \notin DOMAIN TickPrice PROVE v = [w EXCEPT !.fail = TRUE]
      BY <1>3, <1>11, <3>1 DEF VisitTick
    <3>2. [w EXCEPT !.fail = TRUE].fail
      BY <1>1 DEF WalkState
    <3> HIDE DEF v
    <3> QED
      BY <3>1, <3>2
  <2>3. v = ReachTick(w, target, crossed, ab)
    BY <1>3, <1>11, <2>2 DEF VisitTick
  <2>4. target \in Nat
    <3>1. target \in MinPrice..MaxPrice
      BY <2>2, QuoteAssumption
    <3> QED
      BY <3>1, QuoteAssumption
  <2> HIDE DEF v, target, crossed
  <2>5. CASE IF ab THEN target >= w.price ELSE target <= w.price
    <3>1. v = [w EXCEPT !.liq = crossed, !.fail = crossed = None]
      BY <2>3, <2>5 DEF ReachTick
    <3>2. v.left = w.left /\ v.out = w.out /\ v.price = w.price /\ v.liq = e.liq
      BY <1>1, <2>1, <3>1 DEF WalkState
    <3> QED
      BY <1>5, <1>9, <2>1, <3>2 DEF e
  <2>6. CASE ~(IF ab THEN target >= w.price ELSE target <= w.price) /\ w.liq = 0
    <3>1. v = [w EXCEPT !.price = target, !.liq = crossed, !.fail = crossed = None]
      BY <2>3, <2>6 DEF ReachTick
    <3>2. v.left = w.left /\ v.out = w.out /\ v.price = target /\ v.liq = e.liq
      BY <1>1, <2>1, <3>1 DEF WalkState
    <3>3. Held(P, L, target, W, ab)
      <4>1. Held(P, L, w.price, W, ab)
        BY <1>5, <2>1
      <4>2. CASE ab
        <5>1. target <= w.price /\ w.price * W <= P * (L * Q)
          BY <1>4, <2>4, <2>6, <4>1, <4>2 DEF Held
        <5>2. target * W <= w.price * W /\ {target * W, w.price * W} \subseteq Nat
          BY <1>4, <1>6, <2>4, <5>1, ProductOrder, ProductType
        <5>3. P * (L * Q) \in Nat
          <6>1. L * Q \in Nat
            BY ProductType, QuoteAssumption
          <6> QED
            BY <6>1, ProductType
        <5>4. target * W <= P * (L * Q)
          BY <5>1, <5>2, <5>3
        <5> QED
          BY <4>2, <5>4 DEF Held
      <4>3. CASE ~ab
        <5>1. w.price <= target /\ W <= w.price * L
          BY <1>4, <2>4, <2>6, <4>1, <4>3 DEF Held
        <5>2. w.price * L <= target * L /\ {target * L, w.price * L} \subseteq Nat
          BY <1>4, <2>4, <5>1, ProductOrder, ProductType
        <5>3. W <= target * L
          BY <1>6, <5>1, <5>2
        <5> QED
          BY <4>3, <5>3 DEF Held
      <4> QED
        BY <4>2, <4>3
    <3> QED
      BY <1>9, <2>1, <3>2, <3>3 DEF e
  <2>7. CASE ~(IF ab THEN target >= w.price ELSE target <= w.price) /\ w.liq # 0
    <3>1. v = StepOver(w, target, e.liq, SwapStep(w.price, target, w.liq, w.left, ab))
      BY <2>1, <2>3, <2>7 DEF ReachTick
    <3>2. Paying(w, d, i, P, net, ab) /\ Curbed(w, d, i, P, L, net, ab) /\ e.liq <= L
      BY <1>1, <1>3 DEF e
    <3> QED
      BY <1>1, <1>2, <2>1, <2>4, <2>7, <3>1, <3>2, StepOverCurbs
  <2> QED
    BY <2>5, <2>6, <2>7
<1> QED
  BY <1>10, <1>11

(* The liquidity behind ticks that only take from it, all of them no more      *)
(* than there is, is as if nothing wraps, and at most what there is first.   *)
LEMMA ThinningDepth ==
  ASSUME NEW L \in Nat, L < U128 \div 2, NEW ab \in BOOLEAN, NEW N \in Nat, NEW seq, NEW d,
         d[0] = [liq |-> L, most |-> L, plain |-> L],
         \A i \in 0..(N - 1) : d[i + 1] = Deepen(d[i], seq[i + 1], ab),
         \A i \in 1..N : /\ seq[i].net \in Int
                         /\ IF ab THEN seq[i].net >= 0 ELSE seq[i].net <= 0,
         d[N].plain >= 0
  PROVE  \A i \in 0..N : d[i].liq \in Nat /\ d[i].liq <= L
<1>5. ASSUME NEW i \in 0..(N - 1)
      PROVE  /\ d[i + 1].liq = CrossTick(d[i].liq, seq[i + 1], ab)
             /\ d[i + 1].plain = IF ab THEN d[i].plain - seq[i + 1].net
                                       ELSE d[i].plain + seq[i + 1].net
  <2>1. d[i + 1] = Deepen(d[i], seq[i + 1], ab)
    OBVIOUS
  <2>2. /\ Deepen(d[i], seq[i + 1], ab).liq = CrossTick(d[i].liq, seq[i + 1], ab)
        /\ Deepen(d[i], seq[i + 1], ab).plain = IF ab THEN d[i].plain - seq[i + 1].net
                                                      ELSE d[i].plain + seq[i + 1].net
    BY ONLY DEF Deepen
  <2> QED
    BY <2>1, <2>2
<1>1. ASSUME NEW i \in 0..(N - 1), d[i].plain \in Int
      PROVE  /\ d[i + 1].plain \in Int /\ d[i + 1].plain <= d[i].plain
             /\ d[i + 1].plain = IF ab THEN d[i].plain - seq[i + 1].net
                                       ELSE d[i].plain + seq[i + 1].net
  <2>1. d[i + 1].plain = IF ab THEN d[i].plain - seq[i + 1].net ELSE d[i].plain + seq[i + 1].net
    BY <1>5
  <2>2. i + 1 \in 1..N
    OBVIOUS
  <2>3. seq[i + 1].net \in Int /\ IF ab THEN seq[i + 1].net >= 0 ELSE seq[i + 1].net <= 0
    BY <2>2
  <2> QED
    BY <1>1, <2>1, <2>3
<1> DEFINE S == {i \in Nat : i <= N => d[i].plain \in Int /\ d[i].plain <= L}
<1>2. \A i \in 0..N : d[i].plain \in Int /\ d[i].plain <= L
  <2>1. 0 \in S
    OBVIOUS
  <2>2. ASSUME NEW n \in Nat, n \in S PROVE n + 1 \in S
    <3> SUFFICES ASSUME n + 1 <= N PROVE d[n + 1].plain \in Int /\ d[n + 1].plain <= L
      OBVIOUS
    <3>1. n \in 0..(N - 1) /\ d[n].plain \in Int /\ d[n].plain <= L
      BY <2>2
    <3>2. d[n + 1].plain \in Int /\ d[n + 1].plain <= d[n].plain
      BY <1>1, <3>1
    <3> QED
      BY <3>1, <3>2
  <2> HIDE DEF S
  <2>3. Nat \subseteq S
    BY <2>1, <2>2, SetInduction
  <2> QED
    BY <2>3 DEF S
<1> DEFINE B == {j \in Nat : j <= N => d[N - j].plain >= 0}
<1>3. \A i \in 0..N : d[i].plain \in 0..L
  <2>1. 0 \in B
    OBVIOUS
  <2>2. ASSUME NEW n \in Nat, n \in B PROVE n + 1 \in B
    <3> SUFFICES ASSUME n + 1 <= N PROVE d[N - (n + 1)].plain >= 0
      OBVIOUS
    <3> DEFINE i == N - (n + 1)
    <3>1. i \in 0..(N - 1) /\ i \in 0..N /\ i + 1 = N - n
      OBVIOUS
    <3>2. d[i + 1].plain >= 0
      BY <2>2, <3>1
    <3> HIDE DEF i
    <3>3. d[i].plain \in Int
      BY <1>2, <3>1
    <3>4. d[i + 1].plain \in Int /\ d[i + 1].plain <= d[i].plain
      BY <1>1, <3>1, <3>3
    <3>5. d[i].plain >= 0
      BY <3>2, <3>3, <3>4
    <3> QED
      BY <3>5 DEF i
  <2> HIDE DEF B
  <2>3. Nat \subseteq B
    BY <2>1, <2>2, SetInduction
  <2>4. ASSUME NEW i \in 0..N PROVE d[i].plain >= 0
    <3>1. N - i \in B /\ N - i <= N /\ N - (N - i) = i
      BY <2>3
    <3> QED
      BY <3>1 DEF B
  <2> QED
    BY <1>2, <2>4
<1> DEFINE A == {i \in Nat : i <= N => d[i].liq = d[i].plain}
<1>4. \A i \in 0..N : d[i].liq = d[i].plain
  <2>1. 0 \in A
    OBVIOUS
  <2>2. ASSUME NEW n \in Nat, n \in A PROVE n + 1 \in A
    <3> SUFFICES ASSUME n + 1 <= N PROVE d[n + 1].liq = d[n + 1].plain
      OBVIOUS
    <3> DEFINE q == d[n].plain
               r == d[n + 1].plain
               t == seq[n + 1]
    <3>1. n \in 0..(N - 1) /\ n \in 0..N /\ n + 1 \in 0..N
      OBVIOUS
    <3>2. q \in 0..L /\ r \in 0..L /\ d[n].liq = q
      BY <1>3, <2>2, <3>1
    <3>3. r = IF ab THEN q - t.net ELSE q + t.net
      BY <1>1, <3>1, <3>2
    <3>4. U128 \in Nat
      BY QuoteAssumption, ProductType DEF U128
    <3>5. d[n + 1].liq = CrossTick(d[n].liq, t, ab)
      BY <1>5, <3>1
    <3> HIDE DEF q, r, t
    <3>6. Signed(q) = q
      BY <3>2, <3>4 DEF Signed
    <3>7. r \in -(U128 \div 2)..(U128 \div 2 - 1) /\ r % U128 = r
      BY <3>2, <3>4
    <3>8. CrossTick(q, t, ab) = r
      BY <3>3, <3>6, <3>7 DEF CrossTick
    <3> QED
      BY <3>2, <3>5, <3>8 DEF r
  <2> HIDE DEF A
  <2>3. Nat \subseteq A
    BY <2>1, <2>2, SetInduction
  <2> QED
    BY <2>3 DEF A
<1> QED
  BY <1>3, <1>4

(* What is left over pays nothing more.                                      *)
LEMMA CurbEnds ==
  ASSUME NEW Z \in Nat \ {0}, NEW R \in Nat, NEW k \in Nat, NEW c \in Nat, NEW n \in Nat, c <= n,
         NEW A \in Nat, NEW E \in Nat, NEW G \in Nat, E <= G,
         A * (Z + c * k) <= (R * Z) * c + E * (Z + c * k)
  PROVE  A * (Z + n * k) <= (R * Z) * n + G * (Z + n * k)
<1> DEFINE W == Z + c * k
           V == Z + n * k
           x == n - c
<1>1. /\ W \in Nat /\ V \in Nat /\ x \in Nat /\ c + x = n
      /\ R * Z \in Nat /\ R * (Z * Z) \in Nat /\ W * V \in Nat
  <2>1. W \in Nat /\ V \in Nat /\ R * Z \in Nat /\ Z * Z \in Nat
    BY ProductType
  <2> HIDE DEF W, V
  <2>2. W * V \in Nat /\ R * (Z * Z) \in Nat
    BY <2>1, ProductType
  <2> QED
    BY <2>1, <2>2
<1>2. 0 * (W * V) <= x * (R * (Z * Z)) + 0 * (W * V)
  <2> HIDE DEF W, V, x
  <2>1. x * (R * (Z * Z)) \in Nat
    BY <1>1, ProductType
  <2> QED
    BY <1>1, <2>1
<1>3. (A + 0) * V <= (R * Z) * (c + x) + (E + 0) * V
  <2>1. W = Z + c * k /\ V = Z + (c + x) * k /\ A * W <= (R * Z) * c + E * W
    BY <1>1
  <2> HIDE DEF W, V, x
  <2> QED
    BY <1>1, <1>2, <2>1, CurbStep
<1> HIDE DEF V, x
<1>4. E * V <= G * V /\ {E * V, G * V, A * V, (R * Z) * n} \subseteq Nat
  BY <1>1, ProductOrder, ProductType
<1>5. A * V <= (R * Z) * n + G * V
  BY <1>1, <1>3, <1>4
<1> QED
  BY <1>5 DEF V

(* What a walk has paid, and what is paid behind it.                          *)
LEMMA EndCurbed ==
  ASSUME NEW P \in Nat \ {0}, NEW L \in Nat \ {0}, NEW net \in Nat, NEW ab \in BOOLEAN,
         NEW N \in Nat, NEW w, NEW d, d.most \in Nat,
         Paying(w, d, N, P, net, ab), Curbed(w, d, N, P, L, net, ab)
  PROVE  /\ w.out + PaidBehind(w, ab) \in Nat
         /\ ((w.out + PaidBehind(w, ab)) * Unit(P, ab)) * Moved(net, P, L, ab)
              <= (Rate(P, ab) * Ground(P, L, ab)) * net
                 + Gained(N + 1, d.most, 0, P, ab) * Moved(net, P, L, ab)
<1> DEFINE more == PaidBehind(w, ab)
           R == Rate(P, ab)
           U == Unit(P, ab)
           S == PerStep(P, ab)
           Z == Ground(P, L, ab)
           k == Move(P, ab)
           c == net - w.left
           A == w.out * U
           E == Gained(N, d.most, w.left, P, ab)
           G == Gained(N + 1, d.most, 0, P, ab)
           W == Moved(c, P, L, ab)
           V == Moved(net, P, L, ab)
           pg == PriceGain(d.most, ab)
<1>1. /\ w.left \in 0..net /\ w.left \in Nat /\ w.out \in Nat /\ w.price \in Nat
      /\ Beyond(P, w.price, ab) /\ c \in Nat /\ c <= net
      /\ w.left > 0 => w.liq \in Nat /\ w.liq <= d.most
  BY DEF Paying
<1>2. /\ w.left > 0 => Held(P, L, w.price, W, ab) /\ w.liq <= L
      /\ A * W <= (R * Z) * c + E * W
  BY DEF Curbed
<1>3. /\ R \in Nat /\ U \in Nat /\ S \in Nat /\ Z \in Nat \ {0} /\ k \in Nat /\ A \in Nat
      /\ pg \in Nat
  <2>1. R \in Nat /\ U \in Nat /\ S \in Nat /\ Z \in Nat \ {0} /\ k \in Nat
    BY RateType, GroundType
  <2>2. pg \in Nat
    BY GainOrder
  <2> HIDE DEF U, pg
  <2> QED
    BY <1>1, <2>1, <2>2, ProductType
<1>4. W = Z + c * k /\ V = Z + net * k
  BY Zenon DEF Moved
<1>5. G = (N + 1) * S + pg * U /\ E = N * S + (IF w.left = 0 THEN pg ELSE 0) * U
  BY Zenon DEF Gained
<1>6. N * S \in Nat /\ pg * U \in Nat /\ (N + 1) * S = N * S + S
  <2> HIDE DEF S, U, pg
  <2> QED
    BY <1>3, ProductType
<1>7. E \in Nat /\ G \in Nat /\ E <= G
  <2> HIDE DEF S, U, pg, E, G
  <2>1. (IF w.left = 0 THEN pg ELSE 0) * U \in {pg * U, 0}
    BY <1>3
  <2> QED
    BY <1>3, <1>5, <1>6, <2>1
<1>8. CASE more = 0
  <2> HIDE DEF R, U, Z, k, c, A, E, G, W, V
  <2>1. A * V <= (R * Z) * net + G * V
    <3>1. A * (Z + c * k) <= (R * Z) * c + E * (Z + c * k)
      BY <1>2, <1>4
    <3>2. A * (Z + net * k) <= (R * Z) * net + G * (Z + net * k)
      BY <1>1, <1>3, <1>7, <3>1, CurbEnds
    <3> QED
      BY <1>4, <3>2
  <2>2. w.out + more = w.out
    BY <1>1, <1>8
  <2> HIDE DEF more
  <2> QED
    BY <1>1, <2>1, <2>2 DEF R, U, Z, A, G, V, more
<1>9. CASE more # 0
  <2> DEFINE t == IF ab THEN MinPrice ELSE MaxPrice
             rest == SwapStep(w.price, t, w.liq, w.left, ab)
             x == rest.in
             h == IF x = w.left THEN PriceGain(w.liq, ab) ELSE 0
             T == S + h * U
             B == rest.out * U
             Y == W + x * k
  <2>1. more = rest.out /\ w.left > 0 /\ w.liq > 0 /\ rest.in # None
    BY <1>9 DEF PaidBehind
  <2>2. w.liq \in Nat \ {0} /\ w.liq <= L /\ w.liq <= d.most
    BY <1>1, <1>2, <2>1
  <2>3. t \in Nat
    BY QuoteAssumption
  <2>4. x \in 0..w.left /\ rest.out \in Nat
    <3> HIDE DEF t
    <3>1. SwapStep(w.price, t, w.liq, w.left, ab).in # None
      BY <2>1 DEF t
    <3>2. /\ rest.in \in 0..w.left /\ rest.out \in Nat /\ rest.price \in Nat
          /\ Beyond(P, rest.price, ab)
          /\ rest.out * U <= rest.in * R + S
               + (IF rest.in = w.left THEN PriceGain(w.liq, ab) ELSE 0) * U
      BY <1>1, <2>2, <2>3, <3>1, StepWorth, Zenon
    <3> QED
      BY <3>2
  <2>5. Kept(rest, w.left, w.liq, P, L, W, ab)
    <3> DEFINE p == w.price
               liq == w.liq
               left == w.left
    <3>1. W \in Nat
      <4> HIDE DEF c
      <4> QED
        BY <1>1, GroundType
    <3>2. /\ liq \in Nat \ {0} /\ liq <= L /\ left \in Nat /\ p \in Nat
          /\ SwapStep(p, t, liq, left, ab).in # None
          /\ Beyond(P, p, ab) /\ Held(P, L, p, W, ab)
      BY <1>1, <1>2, <2>1, <2>2
    <3>3. rest = SwapStep(p, t, liq, left, ab)
      OBVIOUS
    <3> HIDE DEF W, rest, c, liq, left, p, t
    <3>4. Kept(rest, left, liq, P, L, W, ab)
      BY ONLY <2>3, <3>1, <3>2, <3>3, StepUnder, P \in Nat \ {0}, L \in Nat \ {0}, ab \in BOOLEAN
    <3> QED
      BY <3>4 DEF liq, left
  <2>6. B * (W * Y) <= x * (R * (Z * Z)) + T * (W * Y)
    <3> HIDE DEF rest, W, more
    <3> QED
      BY <2>5, Zenon DEF Kept
  <2>7. h \in Nat /\ h <= pg
    BY <1>3, <2>2, GainOrder
  <2>8. x \in Nat /\ c + x \in Nat /\ c + x <= net
    BY <1>1, <2>4
  <2>9. w.left # 0
    BY <2>1
  <2> HIDE DEF rest, t, more
  <2>10. T \in Nat /\ B \in Nat
    <3> HIDE DEF h, U, S
    <3> QED
      BY <1>3, <2>4, <2>7, ProductType
  <2>11. E + T <= G
    <3> HIDE DEF h, S, U, pg, E, G
    <3>1. h * U <= pg * U /\ h * U \in Nat /\ 0 * U = 0
      BY <1>3, <2>7, ProductOrder, ProductType
    <3> QED
      BY <1>3, <1>5, <1>6, <2>9, <3>1
  <2> HIDE DEF R, U, Z, k, c, A, E, G, W, V, T, B, x, h
  <2>12. Y = Z + (c + x) * k
    <3>1. (c + x) * k = c * k + x * k /\ {c * k, x * k} \subseteq Nat
      BY <1>1, <1>3, <2>8, ProductType
    <3> QED
      BY <1>3, <1>4, <3>1
  <2> HIDE DEF Y
  <2>13. (A + B) * Y <= (R * Z) * (c + x) + (E + T) * Y
    BY <1>1, <1>2, <1>3, <1>4, <1>7, <2>6, <2>8, <2>10, <2>12, CurbStep
  <2>14. (A + B) * V <= (R * Z) * net + G * V
    <3> DEFINE s == c + x
               a == A + B
               e == E + T
    <3>1. s \in Nat /\ s <= net /\ a \in Nat /\ e \in Nat /\ e <= G
          /\ a * (Z + s * k) <= (R * Z) * s + e * (Z + s * k)
      BY <1>3, <1>7, <2>8, <2>10, <2>11, <2>12, <2>13
    <3> HIDE DEF s, a, e
    <3>2. a * (Z + net * k) <= (R * Z) * net + G * (Z + net * k)
      BY <1>3, <1>7, <3>1, CurbEnds
    <3> QED
      BY <1>4, <3>2 DEF a
  <2>15. (w.out + more) * U = A + B /\ w.out + more \in Nat
    BY <1>1, <1>3, <2>1, <2>4 DEF A, B
  <2> QED
    BY <2>14, <2>15 DEF R, U, Z, G, V, more
<1> QED
  BY <1>8, <1>9

(* Ticks with indices of their own can be put in order.                      *)
Indexed(ticks) ==
  /\ IsFiniteSet(ticks)
  /\ \A t \in ticks : {t.index, t.net} \subseteq Int
  /\ \A t, u \in ticks : t.index = u.index => t = u

(* For every i there is one with i - 1 before it, so the ticks ahead are ticks *)
(* of the pool.                                                             *)
LEMMA AheadAmong ==
  ASSUME NEW pool, Indexed(pool.ticks), NEW ab \in BOOLEAN, NEW t \in Range(TicksAhead(pool, ab))
  PROVE  t \in pool.ticks
<1> DEFINE S == {u \in pool.ticks : /\ u.gross > 0
                                    /\ IF ab THEN u.index <= pool.tick ELSE u.index > pool.tick}
           before(u) == {s \in S : IF ab THEN s.index > u.index ELSE s.index < u.index}
           n == Cardinality(S)
           rank == [u \in S |-> Cardinality(before(u))]
           near(i) == CHOOSE u \in S : Cardinality(before(u)) = i - 1
<1>1. IsFiniteSet(S) /\ n \in Nat
  <2>1. S \in SUBSET pool.ticks /\ IsFiniteSet(pool.ticks)
    BY DEF Indexed
  <2>2. IsFiniteSet(S)
    BY <2>1, FS_Subset
  <2> HIDE DEF S
  <2> QED
    BY <2>2, FS_CardinalityType
<1>2. PICK i \in 1..n : t = near(i)
  <2>1. TicksAhead(pool, ab) = [i \in 1..n |-> near(i)]
    BY DEF TicksAhead
  <2> HIDE DEF S, n, near
  <2> QED
    BY <2>1 DEF Range
<1>3. /\ \A u \in S : u.index \in Int
      /\ \A u, s \in S : u.index = s.index => u = s
      /\ S \subseteq pool.ticks
  BY DEF Indexed
<1> HIDE DEF S
<1>4. ASSUME NEW u \in S
      PROVE  IsFiniteSet(before(u)) /\ Cardinality(before(u)) \in 0..(n - 1)
  <2> DEFINE B == before(u)
  <2>1. B \in SUBSET S /\ u \notin B
    BY <1>3
  <2> HIDE DEF B
  <2>2. IsFiniteSet(B) /\ Cardinality(B) \in Nat /\ Cardinality(B) <= n /\ (n = Cardinality(B) => S = B)
    BY <1>1, <2>1, FS_Subset, FS_CardinalityType
  <2> QED
    BY <1>1, <2>1, <2>2 DEF B
<1>5. ASSUME NEW u \in S, NEW s \in S, IF ab THEN u.index > s.index ELSE u.index < s.index
      PROVE  Cardinality(before(u)) < Cardinality(before(s))
  <2> DEFINE B == before(u)
             C == before(s)
  <2>1. B \in SUBSET C /\ u \in C /\ u \notin B
    BY <1>3, <1>5
  <2>2. IsFiniteSet(B) /\ IsFiniteSet(C) /\ Cardinality(B) \in Nat /\ Cardinality(C) \in Nat
    <3> HIDE DEF before, n
    <3>1. /\ IsFiniteSet(before(u)) /\ Cardinality(before(u)) \in 0..(n - 1)
          /\ IsFiniteSet(before(s)) /\ Cardinality(before(s)) \in 0..(n - 1)
      BY <1>4
    <3> QED
      BY <1>1, <3>1
  <2> HIDE DEF B, C
  <2>3. Cardinality(B) <= Cardinality(C) /\ (Cardinality(C) = Cardinality(B) => C = B)
    BY <2>1, <2>2, FS_Subset
  <2> QED
    BY <2>1, <2>2, <2>3 DEF B, C
<1>6. rank \in Injection(S, 0..(n - 1))
  <2>1. rank \in [S -> 0..(n - 1)]
    BY <1>4
  <2>2. ASSUME NEW u \in S, NEW s \in S, rank[u] = rank[s] PROVE u = s
    <3>1. Cardinality(before(u)) = Cardinality(before(s)) /\ Cardinality(before(u)) \in 0..(n - 1)
      BY <1>4, <2>2
    <3>2. ~(IF ab THEN u.index > s.index ELSE u.index < s.index)
      <4> HIDE DEF before
      <4> QED
        BY <1>1, <1>5, <3>1
    <3>3. ~(IF ab THEN s.index > u.index ELSE s.index < u.index)
      <4> HIDE DEF before
      <4> QED
        BY <1>1, <1>5, <3>1
    <3> QED
      BY <1>3, <3>2, <3>3
  <2> HIDE DEF rank
  <2> QED
    BY <2>1, <2>2 DEF Injection, IsInjective
<1>7. Cardinality(0..(n - 1)) = n /\ IsFiniteSet(0..(n - 1))
  <2> HIDE DEF n
  <2>1. 0 \in Int /\ n - 1 \in Int /\ (IF 0 > n - 1 THEN 0 ELSE (n - 1) - 0 + 1) = n
    BY <1>1
  <2> QED
    BY <2>1, FS_Interval
<1>8. rank \in Surjection(S, 0..(n - 1))
  <2> HIDE DEF rank, n
  <2>1. Cardinality(S) = Cardinality(0..(n - 1))
    BY <1>7 DEF n
  <2> QED
    BY <1>6, <1>7, <2>1, FS_Injection
<1>9. \E u \in S : rank[u] = i - 1
  <2>1. i - 1 \in 0..(n - 1)
    BY <1>1
  <2> HIDE DEF rank, n
  <2> QED
    BY <1>8, <2>1 DEF Surjection
<1>10. near(i) \in S
  <2>1. \E u \in S : Cardinality(before(u)) = i - 1
    BY <1>9
  <2> HIDE DEF before
  <2> QED
    BY <2>1
<1> QED
  BY <1>2, <1>3, <1>10

(* A whole walk.                                                            *)
LEMMA WalkUnder ==
  ASSUME NEW pool, Indexed(pool.ticks),
         pool.price \in Nat \ {0}, pool.liq \in Nat \ {0}, pool.fee \in Nat,
         NEW in \in Nat, NEW ab \in BOOLEAN, MultiTick(pool, in, ab) # None,
         AfterFee(pool, in) # 0, Thinning(pool, ab)
  PROVE  LET net == AfterFee(pool, in)
             V   == Moved(net, pool.price, pool.liq, ab)
         IN  (MultiTick(pool, in, ab) * Unit(pool.price, ab)) * V
               <= (Rate(pool.price, ab) * Ground(pool.price, pool.liq, ab)) * net
                  + Gained(Len(TicksReached(pool, ab)) + 1, Depth(pool, ab).most, 0, pool.price, ab) * V
<1> DEFINE P == pool.price
           L == pool.liq
           net == AfterFee(pool, in)
           out == MultiTick(pool, in, ab)
           seq == TicksReached(pool, ab)
           start == [left |-> net, out |-> 0, price |-> pool.price, liq |-> pool.liq, fail |-> FALSE]
           top == [liq |-> pool.liq, most |-> pool.liq, plain |-> pool.liq]
           end == TicksFold(ab, start, seq)
<1>1. net # None /\ out # None
  BY DEF MultiTick
<1>2. net \in Nat /\ net # 0
  BY <1>1, AfterFeeBelow
<1>4. PICK N \in Nat : /\ DOMAIN seq = 1..N /\ Len(seq) = N
                       /\ \A i \in 1..N : seq[i] \in Range(TicksAhead(pool, ab))
  BY TicksReachedSeq DEF Indexed
<1>5. PICK w : /\ w[0] = start /\ end = w[N]
               /\ \A i \in 0..(N - 1) : w[i + 1] = VisitTick(w[i], seq[i + 1], ab)
  <2> HIDE DEF start, seq
  <2>1. end = TicksFold(ab, start, seq)
    OBVIOUS
  <2>2. DOMAIN seq = 1..N
    BY <1>4
  <2> HIDE DEF end
  <2>3. PICK w : TicksWalk(w, ab, start, seq, N, end)
    BY <2>1, <2>2, TicksWalked
  <2> QED
    BY <2>3 DEF TicksWalk
<1>6. PICK d : /\ d[0] = top /\ Depth(pool, ab) = d[N]
               /\ \A i \in 0..(N - 1) : d[i + 1] = Deepen(d[i], seq[i + 1], ab)
  <2> DEFINE deep == Depth(pool, ab)
  <2>1. deep = DepthFold(ab, top, seq)
    BY DEF Depth, DepthFold
  <2> HIDE DEF top, seq, deep
  <2>2. DOMAIN seq = 1..N
    BY <1>4
  <2>3. PICK d : DepthWalk(d, ab, top, seq, N, deep)
    BY <2>1, <2>2, DepthWalked
  <2> QED
    BY <2>3 DEF DepthWalk, deep
<1> HIDE DEF seq, end
<1>7. \A i \in 0..N : d[i].liq \in Nat /\ d[i].liq <= L
  <2>1. ASSUME NEW i \in 1..N
        PROVE  /\ seq[i].net \in Int
               /\ IF ab THEN seq[i].net >= 0 ELSE seq[i].net <= 0
    <3>1. seq[i] \in Range(TicksAhead(pool, ab))
      BY <1>4
    <3>2. seq[i] \in pool.ticks
      BY <3>1, AheadAmong
    <3> QED
      BY <3>1, <3>2 DEF Thinning, Indexed
  <2>2. L < U128 \div 2 /\ d[N].plain >= 0
    BY <1>6 DEF Thinning
  <2>3. d[0] = [liq |-> L, most |-> L, plain |-> L] /\ L \in Nat
    BY <1>6
  <2> HIDE DEF L, top
  <2> QED
    BY <1>6, <2>1, <2>2, <2>3, ThinningDepth
<1> DEFINE J(i) == /\ Walked(w[i], d[i], i, P, net, ab)
                   /\ ~w[i].fail => Curbed(w[i], d[i], i, P, L, net, ab)
           S == {i \in Nat : i <= N => J(i)}
<1>8. 0 \in S
  <2>1. /\ WalkState(start) /\ top.most \in Nat /\ ~start.fail
        /\ start.left = net /\ start.out = 0 /\ start.price = P /\ start.liq = L
        /\ top.liq = L /\ top.most = L
    BY DEF WalkState
  <2> DEFINE R == Rate(P, ab)
             U == Unit(P, ab)
             Z == Ground(P, L, ab)
             M == Moved(0, P, L, ab)
             G == Gained(0, L, net, P, ab)
  <2>2. R \in Nat /\ U \in Nat /\ Z \in Nat /\ M \in Nat \ {0} /\ G \in Nat
    <3> HIDE DEF net, P, L
    <3>1. P \in Nat \ {0} /\ L \in Nat \ {0} /\ L <= L /\ 0 \in Nat /\ 0 <= 0
      BY DEF P, L
    <3>2. R \in Nat /\ U \in Nat
      BY <3>1, RateType
    <3>3. Z \in Nat /\ M \in Nat \ {0}
      BY <3>1, GroundType
    <3>4. G \in Nat
      BY <1>2, <3>1, GainedGrows
    <3> QED
      BY <3>2, <3>3, <3>4
  <2>3. Paying(start, top, 0, P, net, ab)
    <3>1. 0 * U <= (net - net) * R + 0 * PerStep(P, ab) + 0 * U
      <4>1. PerStep(P, ab) \in Nat
        BY RateType
      <4> HIDE DEF U, R, net
      <4> QED
        BY <1>2, <2>2, <4>1
    <3>2. Beyond(P, P, ab)
      BY DEF Beyond
    <3> HIDE DEF start, top, net
    <3> QED
      BY <1>2, <2>1, <3>1, <3>2 DEF Paying
  <2>4. Curbed(start, top, 0, P, L, net, ab)
    <3>1. net - net = 0
      BY <1>2
    <3>2. Held(P, L, P, M, ab)
      <4>1. M = Z
        <5>1. Z \in Nat /\ Move(P, ab) \in Nat
          BY GroundType
        <5>2. M = Z + 0 * Move(P, ab)
          BY Zenon DEF Moved
        <5> HIDE DEF M, Z
        <5> QED
          BY <5>1, <5>2
      <4>2. M = IF ab THEN L * Q ELSE P * L
        BY <4>1 DEF Ground
      <4>3. /\ P \in Nat /\ L \in Nat
            /\ P * (L * Q) <= P * (L * Q)
        BY ProductType, QuoteAssumption
      <4> HIDE DEF M, P, L
      <4> QED
        BY <4>2, <4>3 DEF Held
    <3>3. (0 * U) * M <= (R * Z) * 0 + G * M
      <4> HIDE DEF R, U, Z, M, G
      <4>1. G * M \in Nat /\ R * Z \in Nat
        BY <2>2, ProductType
      <4> QED
        BY <2>2, <4>1
    <3> HIDE DEF start, top, net
    <3> QED
      BY <2>1, <3>1, <3>2, <3>3 DEF Curbed
  <2> HIDE DEF start, top
  <2> QED
    BY <1>5, <1>6, <2>1, <2>3, <2>4 DEF Walked
<1>9. ASSUME NEW n \in Nat, n \in S PROVE n + 1 \in S
  <2> SUFFICES ASSUME n + 1 <= N PROVE J(n + 1)
    OBVIOUS
  <2>1. J(n) /\ n \in 0..(N - 1) /\ n + 1 \in 0..N
    BY <1>4, <1>9
  <2>2. w[n + 1] = VisitTick(w[n], seq[n + 1], ab) /\ d[n + 1] = Deepen(d[n], seq[n + 1], ab)
    BY <1>5, <1>6, <2>1
  <2>3. d[n + 1].liq <= L
    BY <1>7, <2>1
  <2> HIDE DEF P, L, net
  <2>4. P \in Nat \ {0} /\ L \in Nat \ {0} /\ net \in Nat
    BY <1>2 DEF P, L
  <2>5. Walked(w[n], d[n], n, P, net, ab) /\ (~w[n].fail => Curbed(w[n], d[n], n, P, L, net, ab))
    BY <2>1
  <2> HIDE DEF J
  <2> DEFINE u == w[n]
             e == d[n]
             s == seq[n + 1]
  <2>6. Walked(u, e, n, P, net, ab) /\ (~u.fail => Curbed(u, e, n, P, L, net, ab))
        /\ Deepen(e, s, ab).liq <= L
    BY <2>2, <2>3, <2>5
  <2>7. /\ w[n + 1] = VisitTick(u, s, ab) /\ d[n + 1] = Deepen(e, s, ab)
    BY <2>2
  <2> HIDE DEF u, e, s
  <2>8. Walked(VisitTick(u, s, ab), Deepen(e, s, ab), n + 1, P, net, ab)
    BY <2>4, <2>6, VisitPays
  <2>9. ~VisitTick(u, s, ab).fail
          => Curbed(VisitTick(u, s, ab), Deepen(e, s, ab), n + 1, P, L, net, ab)
    BY <2>4, <2>6, VisitCurbs
  <2> QED
    BY <2>7, <2>8, <2>9 DEF J
<1>10. J(N)
  <2> HIDE DEF S
  <2>1. N \in S
    BY <1>4, <1>8, <1>9, SetInduction
  <2> HIDE DEF J
  <2> QED
    BY <1>4, <2>1 DEF S
<1>11. /\ Walked(end, Depth(pool, ab), N, P, net, ab)
       /\ ~end.fail => Curbed(end, Depth(pool, ab), N, P, L, net, ab)
  BY <1>5, <1>6, <1>10
<1>12. out = PaidAlong(end, ab)
  BY <1>1, <1>2, Zenon DEF MultiTick, TicksFold, start, end, seq
<1> HIDE DEF out, end, net, P, L
<1>13. ~end.fail /\ out = end.out + PaidBehind(end, ab)
  BY <1>1, <1>12, Checked DEF PaidAlong
<1> DEFINE D == Depth(pool, ab)
<1>14. D.most \in Nat /\ Paying(end, D, N, P, net, ab) /\ Curbed(end, D, N, P, L, net, ab)
  BY <1>11, <1>13 DEF Walked
<1> HIDE DEF D
<1>15. P \in Nat \ {0} /\ L \in Nat \ {0}
  BY DEF P, L
<1>16. ((end.out + PaidBehind(end, ab)) * Unit(P, ab)) * Moved(net, P, L, ab)
          <= (Rate(P, ab) * Ground(P, L, ab)) * net
             + Gained(N + 1, D.most, 0, P, ab) * Moved(net, P, L, ab)
  BY <1>2, <1>14, <1>15, EndCurbed
<1> QED
  BY <1>4, <1>13, <1>16 DEF D, P, L, out, net, seq

(* Without ticks.  What a range pays for an input n is no less than its curve  *)
(* allows it, but for what is rounded.  Where the price falls,               *)
LEMMA SingleDown ==
  ASSUME NEW P \in Nat \ {0}, NEW L \in Nat \ {0}, NEW n \in Nat, NEW X, NEW to \in Nat, NEW s,
         X = (n * P) \div Q, to = (L * P) \div (L + X), to <= P, s = (L * (P - to)) \div Q,
         NEW m \in Nat, (m * (Q * Q)) * (L * Q + n * P) <= ((P * P) * (L * Q)) * n
  PROVE  m <= s + CeilDiv(P, Q)
<1> DEFINE N == n * P
           T == L * P
           D == P - to
           e == m * Q
           g == CeilDiv(P, Q)
           Y == X + 1
           K == L * D
<1>1. Q \in Nat \ {0} /\ {N, T, e} \subseteq Nat /\ D \in Nat /\ to + D = P
  BY QuoteAssumption, ProductType
<1>2. X \in Nat /\ N < X * Q + Q /\ X * Q \in Nat /\ Y \in Nat \ {0}
  <2> HIDE DEF N
  <2>1. X \in Nat /\ N < X * Q + Q
    <3>1. X = N \div Q
      BY DEF N
    <3> QED
      BY <1>1, <3>1, QuotientType
  <2> QED
    BY <1>1, <2>1, ProductType
<1>3. to * (L + X) <= T /\ L + X \in Nat \ {0} /\ to * (L + X) \in Nat
  <2> HIDE DEF T
  <2>1. to = T \div (L + X) /\ L + X \in Nat \ {0}
    BY <1>2 DEF T
  <2> QED
    BY <1>1, <2>1, QuotientType, ProductType
<1>4. K \in Nat /\ s \in Nat /\ K < s * Q + Q /\ s * Q \in Nat
  <2>1. K \in Nat
    <3> HIDE DEF D
    <3> QED
      BY <1>1, ProductType
  <2>2. s = K \div Q
    OBVIOUS
  <2> HIDE DEF K
  <2> QED
    BY <1>1, <2>1, <2>2, QuotientType, ProductType
<1>5. g \in Nat /\ g * Q >= P /\ g * Q \in Nat
  BY <1>1, CeilAbove, ProductType
<1> HIDE DEF D, g
<1>6. e * (L * Q) + e * N <= T * N
  <2>1. {m * Q, L * Q} \subseteq Nat
    BY <1>1, ProductType
  <2>2. /\ (m * (Q * Q)) * (L * Q + n * P) = (e * (L * Q) + e * N) * Q
        /\ ((P * P) * (L * Q)) * n = (T * N) * Q
    BY <1>1
  <2> HIDE DEF e, N, T
  <2>3. e * (L * Q) + e * N \in Nat /\ T * N \in Nat
    BY <1>1, <2>1, ProductType
  <2> QED
    BY <1>1, <2>2, <2>3, ProductCancel
<1> HIDE DEF N
<1>7. e * (L * Q) + e * (Y * Q) <= T * (Y * Q)
  <2>1. Y * Q = X * Q + Q
    BY <1>1, <1>2
  <2>2. e * (L * Q) \in Nat /\ (e * (L * Q) = 0 => e = 0) /\ Y * Q \in Nat /\ N <= Y * Q
    <3>1. L * Q \in Nat \ {0}
      BY <1>1, ProductType
    <3> QED
      BY <1>1, <1>2, <2>1, <3>1, ProductType
  <2> HIDE DEF e, T, Y
  <2> QED
    BY <1>1, <1>6, <2>2, BoundGrows
<1> HIDE DEF e, T
<1>8. e * (L + Y) <= T * Y
  <2> HIDE DEF Y
  <2>1. e * (L * Q) + e * (Y * Q) = (e * (L + Y)) * Q /\ T * (Y * Q) = (T * Y) * Q
    BY <1>1, <1>2
  <2>2. e * (L + Y) \in Nat /\ T * Y \in Nat
    BY <1>1, <1>2, ProductType
  <2> QED
    BY <1>1, <1>7, <2>1, <2>2, ProductCancel
<1>9. P * X <= D * (L + X)
  <2>1. to * (L + X) + D * (L + X) = T + P * X
    <3>1. (to + D) * (L + X) = to * (L + X) + D * (L + X)
      BY <1>1, <1>2
    <3>2. P * (L + X) = L * P + P * X
      BY <1>2
    <3> QED
      BY <1>1, <3>1, <3>2 DEF T
  <2>2. P * X \in Nat /\ D * (L + X) \in Nat
    BY <1>1, <1>2, <1>3, ProductType
  <2> QED
    BY <1>1, <1>3, <2>1, <2>2
<1>10. e <= K + P
  <2> SUFFICES ASSUME K + (P + 1) <= e PROVE FALSE
    BY <1>1, <1>4
  <2>1. (K + (P + 1)) * (L + Y) <= e * (L + Y)
    <3>1. L + Y \in Nat /\ K + (P + 1) \in Nat
      BY <1>2, <1>4
    <3> HIDE DEF K, Y
    <3> QED
      BY <1>1, <3>1, ProductOrder
  <2>2. (K + (P + 1)) * (L + Y) = K * (L + X) + K + (P + 1) * (L + Y)
    <3> HIDE DEF K
    <3> QED
      BY <1>2, <1>4
  <2>3. K * (L + X) >= (P * X) * L /\ K * (L + X) \in Nat /\ (P * X) * L \in Nat
    <3>1. (P * X) * L <= (D * (L + X)) * L /\ (P * X) * L \in Nat /\ (D * (L + X)) * L \in Nat
      <4>1. P * X \in Nat /\ D * (L + X) \in Nat
        BY <1>1, <1>2, <1>3, ProductType
      <4> QED
        BY <1>9, <4>1, ProductOrder, ProductType
    <3>2. (D * (L + X)) * L = K * (L + X)
      BY <1>1, <1>2
    <3> QED
      BY <3>1, <3>2
  <2>4. T * Y = (P * X) * L + L * P
    BY <1>2 DEF T
  <2>5. (P + 1) * (L + Y) = L * P + P * Y + L + Y /\ {L * P, P * Y} \subseteq Nat
    <3> HIDE DEF Y
    <3> QED
      BY <1>2, ProductType
  <2>6. e * (L + Y) \in Nat
    <3> HIDE DEF Y
    <3> QED
      BY <1>1, <1>2, ProductType
  <2> HIDE DEF K
  <2> DEFINE a == K * (L + X)
             b == (P * X) * L
             c == L * P
             d == P * Y
             f == e * (L + Y)
             k == (K + (P + 1)) * (L + Y)
  <2>7. /\ k <= f /\ k = a + K + (c + d + L + Y) /\ a >= b /\ {a, b, c, d, f} \subseteq Nat
        /\ f <= b + c
    BY <1>8, <2>1, <2>2, <2>3, <2>4, <2>5, <2>6
  <2> HIDE DEF a, b, c, d, f, k
  <2> QED
    BY <1>2, <1>4, <2>7
<1> HIDE DEF K
<1>11. m * Q < (s + 1 + g) * Q
  <2>1. (s + 1 + g) * Q = s * Q + Q + g * Q
    BY <1>1, <1>4, <1>5
  <2> QED
    BY <1>1, <1>4, <1>5, <1>10, <2>1 DEF e
<1>12. m < s + 1 + g
  <2> SUFFICES ASSUME s + 1 + g <= m PROVE FALSE
    BY <1>4, <1>5
  <2>1. s + 1 + g \in Nat
    BY <1>4, <1>5
  <2>2. (s + 1 + g) * Q <= m * Q
    BY <1>1, <2>1, ProductOrder
  <2>3. (s + 1 + g) * Q \in Nat /\ m * Q \in Nat
    BY <1>1, <2>1, ProductType
  <2> QED
    BY <1>11, <2>2, <2>3
<1> QED
  BY <1>4, <1>5, <1>12 DEF g

(* and where it rises.                                                      *)
LEMMA SingleUp ==
  ASSUME NEW P \in Nat \ {0}, NEW L \in Nat \ {0}, NEW n \in Nat, NEW r, NEW to, NEW v, NEW s,
         r = (n * Q) \div L, to = P + r, v = (L * r) \div P, s = (v * Q) \div to,
         NEW m \in Nat, (m * (P * P)) * (P * L + n * Q) <= ((Q * Q) * (P * L)) * n
  PROVE  m <= s + CeilDiv(Q, P) + CeilDiv(L * Q, P * P)
<1> DEFINE N == n * Q
           T == L * Q
           e == m * P
           a == CeilDiv(Q, P)
           b == CeilDiv(L * Q, P * P)
           Y == r + 1
<1>1. Q \in Nat \ {0} /\ {N, T, e} \subseteq Nat /\ P * P \in Nat \ {0}
  BY QuoteAssumption, ProductType
<1>2. r \in Nat /\ N < r * L + L /\ r * L \in Nat /\ Y \in Nat \ {0}
  <2> HIDE DEF N
  <2>1. r \in Nat /\ N < r * L + L
    <3>1. r = N \div L
      BY DEF N
    <3> QED
      BY <1>1, <3>1, QuotientType
  <2> QED
    BY <1>1, <2>1, ProductType
<1>3. to \in Nat \ {0} /\ P <= to
  BY <1>2
<1>4. v \in Nat /\ L * r \in Nat /\ L * r < v * P + P /\ v * P \in Nat
  <2>1. L * r \in Nat
    BY <1>2, ProductType
  <2> DEFINE d == L * r
  <2>2. d \in Nat /\ v = d \div P
    BY <2>1
  <2> HIDE DEF d
  <2>3. v \in Nat /\ d < v * P + P /\ v * P \in Nat
    BY <2>2, QuotientType, ProductType
  <2> QED
    BY <2>1, <2>3 DEF d
<1>5. s \in Nat /\ v * Q < s * to + to /\ s * to \in Nat /\ v * Q \in Nat
  <2>1. v * Q \in Nat
    BY <1>1, <1>4, ProductType
  <2> DEFINE d == v * Q
  <2>2. d \in Nat /\ s = d \div to
    BY <2>1
  <2> HIDE DEF d
  <2>3. s \in Nat /\ d < s * to + to /\ s * to \in Nat
    BY <1>3, <2>2, QuotientType, ProductType
  <2> QED
    BY <2>1, <2>3 DEF d
<1>6. a \in Nat /\ b \in Nat /\ a * P >= Q /\ b * (P * P) >= T
  BY <1>1, CeilAbove
<1> HIDE DEF a, b
<1>7. e * (P * L) + e * N <= T * N
  <2>1. P * L \in Nat
    BY ProductType
  <2>2. /\ (m * (P * P)) * (P * L + n * Q) = (e * (P * L) + e * N) * P
        /\ ((Q * Q) * (P * L)) * n = (T * N) * P
    BY <1>1
  <2> HIDE DEF e, N, T
  <2>3. e * (P * L) + e * N \in Nat /\ T * N \in Nat
    BY <1>1, <2>1, ProductType
  <2> QED
    BY <1>1, <2>2, <2>3, ProductCancel
<1> HIDE DEF N
<1>8. e * (P * L) + e * (Y * L) <= T * (Y * L)
  <2>1. Y * L = r * L + L
    BY <1>2
  <2>2. e * (P * L) \in Nat /\ (e * (P * L) = 0 => e = 0) /\ Y * L \in Nat /\ N <= Y * L
    <3>1. P * L \in Nat \ {0}
      BY ProductType
    <3> QED
      BY <1>1, <1>2, <2>1, <3>1, ProductType
  <2> HIDE DEF e, T, Y
  <2> QED
    BY <1>1, <1>7, <2>2, BoundGrows
<1> HIDE DEF e, T
<1>9. e * (P + Y) <= T * Y
  <2> HIDE DEF Y
  <2>1. e * (P * L) + e * (Y * L) = (e * (P + Y)) * L /\ T * (Y * L) = (T * Y) * L
    BY <1>1, <1>2
  <2>2. e * (P + Y) \in Nat /\ T * Y \in Nat
    BY <1>1, <1>2, ProductType
  <2> QED
    BY <1>1, <1>8, <2>1, <2>2, ProductCancel
<1> DEFINE u == P * to
<1>10. m * u <= T * r + T /\ {u, m * u, T * r} \subseteq Nat
  <2>1. u \in Nat /\ T * r \in Nat
    BY <1>1, <1>2, <1>3, ProductType
  <2>2. e * (P + Y) = m * u + e
    BY <1>1, <1>2 DEF e
  <2>3. T * Y = T * r + T
    <3>1. T \in Nat /\ r \in Nat
      BY <1>1, <1>2
    <3> QED
      BY ONLY <3>1
  <2> HIDE DEF u, Y
  <2>4. m * u \in Nat
    BY <2>1, ProductType
  <2> QED
    BY <1>1, <1>9, <2>1, <2>2, <2>3, <2>4
<1>11. T * r < s * u + u + P * Q /\ s * u \in Nat /\ P * Q \in Nat
  <2>1. P * Q \in Nat /\ u \in Nat
    BY <1>1, <1>3, ProductType
  <2>2. (L * r) * Q = T * r
    <3>1. L \in Nat /\ Q \in Nat /\ r \in Nat
      BY <1>1, <1>2
    <3>2. (L * r) * Q = (L * Q) * r
      BY ONLY <3>1
    <3> QED
      BY <3>2 DEF T
  <2>3. (L * r + 1) * Q <= (v * P + P) * Q
    <3>1. L * r + 1 \in Nat /\ v * P + P \in Nat /\ L * r + 1 <= v * P + P
      BY <1>4
    <3> DEFINE y == L * r + 1
               z == v * P + P
    <3> HIDE DEF y, z
    <3>2. y * Q <= z * Q
      BY <1>1, <3>1, ProductOrder DEF y, z
    <3> QED
      BY <3>2 DEF y, z
  <2>4. (L * r + 1) * Q = (L * r) * Q + Q /\ (v * P + P) * Q = (v * Q) * P + P * Q
    BY <1>1, <1>4
  <2>5. (v * Q) * P <= (s * to + to) * P /\ (v * Q) * P \in Nat
    <3>1. v * Q <= s * to + to /\ s * to + to \in Nat
      BY <1>3, <1>5
    <3> DEFINE y == v * Q
               z == s * to + to
    <3> HIDE DEF y, z
    <3>2. y * P <= z * P /\ y * P \in Nat
      BY <1>5, <3>1, ProductOrder, ProductType DEF y, z
    <3> QED
      BY <3>2 DEF y, z
  <2>6. (s * to + to) * P = s * u + u
    BY <1>3, <1>5
  <2>7. s * u \in Nat
    <3> HIDE DEF u
    <3> QED
      BY <1>5, <2>1, ProductType
  <2> HIDE DEF u
  <2> DEFINE y == (L * r) * Q
             z == (v * Q) * P
             q == P * Q
             k == s * u
  <2>8. /\ y = T * r /\ y + Q <= z + q /\ z <= k + u /\ {z, q, k, u, y} \subseteq Nat
    BY <1>10, <2>1, <2>2, <2>3, <2>4, <2>5, <2>6, <2>7
  <2> HIDE DEF y, z, q, k
  <2>9. T * r < k + u + q
    BY <1>1, <2>8
  <2> QED
    BY <2>1, <2>7, <2>9 DEF k, q
<1>12. a * u >= P * Q /\ b * u >= T /\ {a * u, b * u} \subseteq Nat
  <2>1. a * u = (a * P) * to /\ b * u = (b * P) * to
    BY <1>3, <1>6
  <2>2. (a * P) * to >= P * Q /\ {(a * P) * to} \subseteq Nat
    <3>1. a * P \in Nat /\ Q <= a * P
      BY <1>1, <1>6, ProductType
    <3>2. Q * P <= (a * P) * to /\ (a * P) * to \in Nat
      BY <1>1, <1>3, <3>1, ProductsOrder, ProductType
    <3>3. Q * P = P * Q
      BY <1>1
    <3> QED
      BY <3>2, <3>3
  <2>3. (b * P) * to >= T /\ (b * P) * to \in Nat
    <3>1. b * P \in Nat
      BY <1>6, ProductType
    <3>2. (b * P) * P <= (b * P) * to /\ {(b * P) * P, (b * P) * to} \subseteq Nat
      BY <1>3, <3>1, ProductsOrder, ProductType
    <3>3. (b * P) * P = b * (P * P)
      BY <1>6
    <3> QED
      BY <1>1, <1>6, <3>2, <3>3
  <2> QED
    BY <2>1, <2>2, <2>3
<1> HIDE DEF u
<1>13. m < s + 1 + a + b
  <2> DEFINE j == s + 1 + a + b
  <2> SUFFICES ASSUME j <= m PROVE FALSE
    BY <1>5, <1>6
  <2>1. j \in Nat
    BY <1>5, <1>6
  <2>2. j * u = s * u + u + a * u + b * u
    BY <1>5, <1>6, <1>10
  <2> HIDE DEF j
  <2>3. j * u <= m * u
    BY <1>10, <2>1, ProductOrder
  <2> QED
    BY <1>1, <1>10, <1>11, <1>12, <2>2, <2>3
<1> QED
  BY <1>5, <1>6, <1>13 DEF a, b

(* Where a price falls to.                                                  *)
LEMMA FallsTo ==
  ASSUME NEW p \in Nat, NEW liq \in Nat \ {0}, NEW x \in Nat, NEW ab \in BOOLEAN,
         PriceAfter(p, liq, x, ab) # None
  PROVE  ab => /\ PriceAfter(p, liq, x, ab) = (liq * p) \div (liq + (x * p) \div Q)
               /\ PriceAfter(p, liq, x, ab) \in Nat
BY PriceAfterDown

(* What a range without ticks pays, in these terms.                          *)
LEMMA SingleCurb ==
  ASSUME NEW pool, pool.price \in Nat \ {0}, pool.liq \in Nat \ {0}, pool.fee \in Nat,
         NEW in \in Nat, NEW ab \in BOOLEAN, SingleTick(pool, in, ab) # None,
         NEW n, n = AfterFee(pool, in), n # 0, NEW m \in Nat,
         (m * Unit(pool.price, ab)) * Moved(n, pool.price, pool.liq, ab)
           <= (Rate(pool.price, ab) * Ground(pool.price, pool.liq, ab)) * n
  PROVE  m <= SingleTick(pool, in, ab) + RoundingLoss(pool, ab)
<1> DEFINE out == SingleTick(pool, in, ab)
           P == pool.price
           L == pool.liq
           to == PriceAfter(P, L, n, ab)
           paid == Paid(P, to, L, ab)
<1>1. n \in Nat
  BY SingleNet, AfterFeeBelow
<1>2. /\ to # None /\ (ab => ~(to >= P)) /\ (~ab => ~(to <= P))
      /\ out = FitsU64(paid)
  BY DEF SingleTick
<1>3. paid # None /\ out = paid
  BY <1>2, Checked
<1>6. ASSUME ab PROVE to = (L * P) \div (L + (n * P) \div Q) /\ to \in Nat
  <2>1. to # None
    BY <1>2
  <2>2. P \in Nat /\ L \in Nat \ {0}
    OBVIOUS
  <2> HIDE DEF P, L
  <2>3. PriceAfter(P, L, n, ab) # None
    BY <2>1
  <2> QED
    BY <1>1, <1>6, <2>2, <2>3, FallsTo
<1>4. CASE ab
  <2>1. to = (L * P) \div (L + (n * P) \div Q) /\ to \in Nat
    BY <1>4, <1>6
  <2>2. to <= P /\ paid = (L * (P - to)) \div Q
    <3>1. paid = (L * (P - to)) \div Q
      BY <1>3, <1>4, PaysDown
    <3>2. ~(to >= P)
      BY <1>2, <1>4
    <3> HIDE DEF to, paid
    <3> QED
      BY <2>1, <3>1, <3>2
  <2>3. (m * (Q * Q)) * (L * Q + n * P) <= ((P * P) * (L * Q)) * n
    BY <1>4, Zenon DEF Unit, Rate, Ground, Moved, Move
  <2>4. RoundingLoss(pool, ab) = CeilDiv(P, Q)
    BY <1>4 DEF RoundingLoss
  <2> HIDE DEF to, paid, P, L, out
  <2>5. P \in Nat \ {0} /\ L \in Nat \ {0}
    BY DEF P, L
  <2>6. m <= paid + CeilDiv(P, Q)
    BY <1>1, <2>1, <2>2, <2>3, <2>5, SingleDown
  <2> QED
    BY <1>3, <2>4, <2>6 DEF out
<1>5. CASE ~ab
  <2> DEFINE r == (n * Q) \div L
  <2>1. to = P + r /\ r \in Nat
    BY <1>1, <1>2, <1>5, PriceAfterUp
  <2>2. paid = (((L * (to - P)) \div P) * Q) \div to
    BY <1>3, <1>5, PaysUp
  <2>3. (m * (P * P)) * (P * L + n * Q) <= ((Q * Q) * (P * L)) * n
    BY <1>5, Zenon DEF Unit, Rate, Ground, Moved, Move
  <2>4. RoundingLoss(pool, ab) = CeilDiv(Q, P) + CeilDiv(L * Q, P * P)
    BY <1>5 DEF RoundingLoss
  <2> HIDE DEF to, paid, P, L, out, r
  <2>5. P \in Nat \ {0} /\ L \in Nat \ {0}
    BY DEF P, L
  <2>6. to - P = r
    BY <2>1, <2>5
  <2> DEFINE v == (L * r) \div P
  <2>7. paid = (v * Q) \div to
    BY <2>2, <2>6
  <2> HIDE DEF v
  <2>8. m <= paid + CeilDiv(Q, P) + CeilDiv(L * Q, P * P)
    BY <1>1, <2>1, <2>3, <2>5, <2>7, SingleUp DEF r, v
  <2>9. paid \in Nat /\ CeilDiv(Q, P) \in Nat /\ CeilDiv(L * Q, P * P) \in Nat
    <3>1. /\ Q \in Nat \ {0} /\ v * Q \in Nat /\ to \in Nat \ {0} /\ L * Q \in Nat
          /\ P * P \in Nat \ {0}
      <4>1. Q \in Nat \ {0} /\ L * r \in Nat /\ to \in Nat \ {0}
        BY <2>1, <2>5, QuoteAssumption, ProductType
      <4>2. v \in Nat
        <5> DEFINE y == L * r
        <5>1. v = y \div P /\ y \in Nat
          BY <4>1 DEF v
        <5> HIDE DEF y
        <5> QED
          BY <2>5, <5>1, QuotientType
      <4> QED
        BY <2>5, <4>1, <4>2, ProductType
    <3> QED
      BY <2>5, <2>7, <3>1, QuotientType, CeilAbove
  <2> QED
    BY <1>3, <2>4, <2>8, <2>9 DEF out
<1> QED
  BY <1>4, <1>5

(* A quote along ticks that only take liquidity away.                        *)
LEMMA ThinningBelow ==
  ASSUME NEW pool, Indexed(pool.ticks), pool.price \in Nat \ {0}, pool.liq \in Nat \ {0},
         pool.fee \in Nat, NEW in \in Nat, NEW ab \in BOOLEAN, MultiTick(pool, in, ab) # None,
         SingleTick(pool, in, ab) # None, Thinning(pool, ab)
  PROVE  MultiTick(pool, in, ab)
           <= SingleTick(pool, in, ab) + RoundingLoss(pool, ab) + RoundingGain("ticks", pool, ab)
<1> DEFINE out == MultiTick(pool, in, ab)
           one == SingleTick(pool, in, ab)
           loss == RoundingLoss(pool, ab)
           n == AfterFee(pool, in)
           P == pool.price
           L == pool.liq
           U == Unit(P, ab)
           S == PerStep(P, ab)
           steps == Len(TicksReached(pool, ab)) + 1
           pg == PriceGain(Depth(pool, ab).most, ab)
           sg == StepsGain(pool, ab, steps)
           G == sg + pg
           V == Moved(n, P, L, ab)
           C == (Rate(P, ab) * Ground(P, L, ab)) * n
<1>1. RoundingGain("ticks", pool, ab) = G
  BY Zenon DEF RoundingGain
<1>2. /\ out \in Nat /\ n \in Nat /\ steps \in Nat /\ Depth(pool, ab).most \in Nat
      /\ pool.fee \in 0..Bps
  BY WalkBelow DEF Indexed
<1>3. one \in Nat /\ loss \in Nat
  <2>1. one \in Nat
    BY RangeBelow
  <2>2. Q \in Nat \ {0} /\ P * P \in Nat \ {0} /\ L * Q \in Nat
    <3>1. Q \in Nat \ {0} /\ P \in Nat \ {0} /\ L \in Nat
      BY QuoteAssumption
    <3> HIDE DEF P, L
    <3> QED
      BY <3>1, ProductType
  <2>3. CeilDiv(P, Q) \in Nat /\ CeilDiv(Q, P) \in Nat /\ CeilDiv(L * Q, P * P) \in Nat
    BY <2>2, CeilAbove
  <2> QED
    BY <2>1, <2>3 DEF RoundingLoss
<1>4. pg \in Nat /\ sg \in Nat /\ sg = CeilDiv(steps * S, U) /\ steps * S \in Nat
  <2>1. pg \in Nat
    <3> DEFINE k == Depth(pool, ab).most
    <3>1. k \in Nat /\ k <= k
      BY <1>2
    <3> HIDE DEF k
    <3>2. PriceGain(k, ab) \in Nat
      BY <3>1, GainOrder
    <3> QED
      BY <3>2 DEF k
  <2>2. P \in Nat \ {0}
    OBVIOUS
  <2> HIDE DEF steps
  <2> QED
    BY <1>2, <2>1, SpotIs
<1>5. U \in Nat \ {0} /\ V \in Nat \ {0} /\ C \in Nat
  <2>1. U \in Nat \ {0} /\ Rate(P, ab) \in Nat
    BY RateType
  <2> HIDE DEF n
  <2>2. V \in Nat \ {0} /\ Ground(P, L, ab) \in Nat
    BY <1>2, GroundType
  <2>3. Rate(P, ab) * Ground(P, L, ab) \in Nat
    BY <2>1, <2>2, ProductType
  <2> QED
    BY <1>2, <2>1, <2>2, <2>3, ProductType
<1>6. CASE n = 0
  <2>1. out = 0
    BY <1>6 DEF MultiTick, None
  <2> HIDE DEF out, one, loss, sg, pg
  <2> QED
    BY <1>1, <1>3, <1>4, <2>1 DEF out, one, loss
<1>7. CASE n # 0
  <2>1. (out * U) * V <= C + Gained(steps, Depth(pool, ab).most, 0, P, ab) * V
    BY <1>7, WalkUnder, Zenon
  <2>2. Gained(steps, Depth(pool, ab).most, 0, P, ab) = steps * S + pg * U
    BY Zenon DEF Gained
  <2> DEFINE E == steps * S
  <2>3. E \in Nat /\ sg = CeilDiv(E, U)
    BY <1>4
  <2> HIDE DEF out, one, loss, sg, pg, U, S, V, C, n, P, L, E, steps
  <2>4. E + pg * U <= G * U /\ {E + pg * U, G * U} \subseteq Nat
    <3>1. E <= sg * U
      BY <1>5, <2>3, CeilAbove
    <3>2. G * U = sg * U + pg * U /\ {sg * U, pg * U} \subseteq Nat
      BY <1>4, <1>5, ProductType
    <3> QED
      BY <1>4, <2>3, <3>1, <3>2
  <2>5. (out * U) * V <= C + (G * U) * V
    <3>1. (E + pg * U) * V <= (G * U) * V /\ {(E + pg * U) * V, (G * U) * V, out * U} \subseteq Nat
      BY <1>2, <1>5, <2>4, ProductOrder, ProductType DEF out
    <3>2. (out * U) * V <= C + (E + pg * U) * V
      BY <2>1, <2>2 DEF E
    <3>3. (out * U) * V \in Nat
      BY <1>5, <3>1, ProductType
    <3> HIDE DEF G
    <3> QED
      BY <1>5, <3>1, <3>2, <3>3
  <2>6. CASE out <= G
    BY <1>1, <1>2, <1>3, <1>4, <2>6 DEF out, one, loss
  <2>7. CASE out > G
    <3> DEFINE m == out - G
    <3>1. m \in Nat /\ out = m + G /\ G \in Nat
      BY <1>2, <1>4, <2>7 DEF out
    <3> HIDE DEF m, G
    <3>2. (m * U) * V <= C
      <4>1. (out * U) * V = (m * U) * V + (G * U) * V
        BY <1>5, <3>1
      <4>2. (m * U) * V \in Nat /\ (G * U) * V \in Nat
        <5>1. m * U \in Nat /\ G * U \in Nat
          BY <1>5, <3>1, ProductType
        <5> QED
          BY <1>5, <5>1, ProductType
      <4> QED
        BY <1>5, <2>5, <4>1, <4>2
    <3>3. m <= one + loss
      <4>1. (m * Unit(pool.price, ab)) * Moved(n, pool.price, pool.liq, ab)
               <= (Rate(pool.price, ab) * Ground(pool.price, pool.liq, ab)) * n
        BY <3>2 DEF U, V, C, P, L
      <4>2. n = AfterFee(pool, in) /\ n # 0
        BY <1>7 DEF n
      <4> QED
        BY <3>1, <4>1, <4>2, SingleCurb DEF one, loss
    <3> QED
      BY <1>1, <1>3, <3>1, <3>3 DEF out, one, loss
  <2> QED
    BY <1>2, <1>4, <2>6, <2>7 DEF out
<1> QED
  BY <1>6, <1>7
-----------------------------------------------------------------------------
(* A ladder of bins.                                                        *)

(* Numbers have a least one, and a largest one below a bound.                *)
LEMMA LeastOf ==
  ASSUME NEW S, S \subseteq Nat, S # {}
  PROVE  \E m \in S : \A x \in S : m <= x
<1> DEFINE R == {ss \in Nat \X Nat : ss[1] < ss[2]}
<1>1. IsWellFoundedOn(R, Nat)
  BY NatWellFounded
<1>2. \A x, y \in Nat : y < x => <<y, x>> \in R
  OBVIOUS
<1> HIDE DEF R
<1>3. PICK m \in S : \A k \in S : ~ (<<k, m>> \in R)
  BY <1>1, WFMin
<1>4. ASSUME NEW x \in S PROVE m <= x
  <2>1. x \in Nat /\ m \in Nat
    BY <1>3
  <2>2. x < m => <<x, m>> \in R
    BY <1>2, <2>1
  <2>3. ~ (<<x, m>> \in R)
    BY <1>3
  <2> QED
    BY <2>1, <2>2, <2>3
<1> QED
  BY <1>4

(* The least number of a set is one of it.                                   *)
LEMMA MinIs ==
  ASSUME NEW S, S \subseteq Nat, S # {}
  PROVE  Min(S) \in S /\ \A x \in S : Min(S) <= x
BY LeastOf DEF Min

(* So is the largest.                                                        *)
LEMMA MaxIs ==
  ASSUME NEW k \in Nat, NEW S, S \subseteq 0..k, S # {}
  PROVE  Max(S) \in S /\ \A x \in S : x <= Max(S)
<1> DEFINE T == {n \in Nat : k - n \in S}
<1>1. PICK y : y \in S
  OBVIOUS
<1>2. k - y \in T
  BY <1>1
<1>3. PICK m \in T : \A x \in T : m <= x
  BY <1>2, LeastOf
<1>4. k - m \in S
  BY <1>3
<1>5. ASSUME NEW x \in S PROVE k - m >= x
  <2>1. k - x \in T /\ x \in Nat
    OBVIOUS
  <2> QED
    BY <1>3, <2>1
<1> QED
  BY <1>4, <1>5 DEF Max

(* What a bin takes of the input that is left: the fee on what is left, and   *)
(* what the bin is worth with its fee.                                       *)
LEMMA FeeTaken ==
  ASSUME NEW pool, pool.fee \in Nat, pool.fee < Bps, NEW left \in Nat
  PROVE  LET net == left - Least(left, BinFee(pool, left))
         IN  net \in 0..left /\ net * Bps <= left * (Bps - pool.fee)
<1> DEFINE f == pool.fee
           h == Bps - f
           c == BinFee(pool, left)
           net == left - Least(left, c)
<1>1. f \in Nat /\ h \in Nat \ {0} /\ Bps = h + f
  BY QuoteAssumption
<1>2. left * f \in Nat /\ left * h \in Nat
  BY <1>1, ProductType
<1>3. c \in Nat /\ c * h >= left * f
  BY <1>1, <1>2, CeilAbove DEF BinFee
<1> HIDE DEF h, f, c
<1>4. net \in 0..left
  BY <1>3 DEF Least
<1>5. CASE c >= left
  <2>1. net = 0
    BY <1>3, <1>5 DEF Least
  <2> HIDE DEF net
  <2>2. net * Bps = 0
    BY <1>1, <2>1
  <2> QED
    BY <1>2, <1>4, <2>2 DEF net, h, f, c
<1>6. CASE ~(c >= left)
  <2>1. net = left - c
    BY <1>3, <1>6 DEF Least
  <2> HIDE DEF net
  <2>2. net \in Nat /\ net <= left /\ left = net + c
    BY <1>3, <1>4, <2>1
  <2>3. left * h = net * h + c * h /\ net * Bps = net * h + net * f
    BY <1>1, <1>3, <2>2
  <2>4. net * f <= left * f /\ {net * f, net * h, c * h} \subseteq Nat
    BY <1>1, <1>3, <2>2, ProductOrder, ProductType
  <2>5. net * Bps <= left * h
    BY <1>2, <1>3, <2>3, <2>4
  <2> QED
    BY <1>4, <2>5 DEF net, h, f, c
<1> QED
  BY <1>5, <1>6

(* A bin that is emptied takes what it is worth and the fee on that.         *)
LEMMA WholeTaken ==
  ASSUME NEW pool, pool.fee \in Nat, pool.fee < Bps, NEW left \in Nat, NEW most \in Nat,
         left - Least(left, BinFee(pool, left)) >= most
  PROVE  LET taken == Least(left, most + BinFee(pool, most))
         IN  taken \in 0..left /\ most * Bps <= taken * (Bps - pool.fee)
<1> DEFINE f == pool.fee
           h == Bps - f
           c == BinFee(pool, most)
           net == left - Least(left, BinFee(pool, left))
<1>1. f \in Nat /\ h \in Nat \ {0} /\ Bps = h + f
  BY QuoteAssumption
<1>2. {left * f, left * h, most * f, most * h} \subseteq Nat
  BY <1>1, ProductType
<1>3. c \in Nat /\ c * h >= most * f
  BY <1>1, <1>2, CeilAbove DEF BinFee
<1>4. net \in 0..left /\ net * Bps <= left * h
  BY FeeTaken
<1> HIDE DEF h, f, c, net
<1>5. CASE left < most + c
  <2>1. Least(left, most + c) = left
    BY <1>5 DEF Least
  <2>2. most * Bps <= net * Bps /\ {most * Bps, net * Bps} \subseteq Nat
    BY <1>1, <1>4, ProductOrder, ProductType DEF net
  <2>3. most * Bps <= left * h
    BY <1>2, <1>4, <2>2
  <2> QED
    BY <2>1, <2>3 DEF h, f, c
<1>6. CASE ~(left < most + c)
  <2>1. Least(left, most + c) = most + c
    BY <1>6 DEF Least
  <2>2. (most + c) * h = most * h + c * h /\ most * Bps = most * h + most * f /\ c * h \in Nat
    BY <1>1, <1>3, ProductType
  <2>3. most * Bps <= (most + c) * h
    BY <1>2, <1>3, <2>2
  <2>4. most + c \in 0..left
    BY <1>3, <1>6
  <2> QED
    BY <2>1, <2>3, <2>4 DEF h, f, c
<1> QED
  BY <1>5, <1>6

(* A bin with a price is one of the pool.                                    *)
LEMMA BinFound ==
  ASSUME NEW pool, \A i \in DOMAIN pool.bins : pool.bins[i] \in Seq(BinStates), NEW id,
         BinAt(pool.bins, id).price # 0
  PROVE  /\ BinAt(pool.bins, id).x \in Nat /\ BinAt(pool.bins, id).y \in Nat
         /\ BinAt(pool.bins, id).price \in BinPrices(pool)
         /\ BinAt(pool.bins, id).price \in 1..(U128 - 1)
<1> DEFINE arr == id \div BinsPerArray
           off == (id % BinsPerArray) + 1
           bin == BinAt(pool.bins, id)
<1>1. arr \in DOMAIN pool.bins /\ off \in DOMAIN pool.bins[arr] /\ bin = pool.bins[arr][off]
  BY DEF BinAt, NoBin
<1> HIDE DEF arr, off, bin
<1>2. pool.bins[arr] \in Seq(BinStates)
  BY <1>1
<1>3. bin \in BinStates /\ bin \in Range(pool.bins[arr])
  BY <1>1, <1>2 DEF Range
<1>4. MaxU64 \in Nat /\ U128 \in Nat
  BY QuoteAssumption, ProductType DEF MaxU64, U128
<1>5. bin.x \in Nat /\ bin.y \in Nat /\ bin.price \in 0..(U128 - 1)
  BY <1>3, <1>4 DEF BinStates
<1>6. bin.price \in BinPrices(pool)
  BY <1>1, <1>3 DEF BinPrices, bin
<1> QED
  BY <1>4, <1>5, <1>6 DEF bin

(* The rate A / B is at least that of every bin.                             *)
BestRate(pool, ab, A, B) ==
  \A p \in BinPrices(pool) : IF ab THEN p * B <= A * Q ELSE Q * B <= A * p

(* What a bin pays for an amount at its price, the rate pays too.             *)
LEMMA RatePays ==
  ASSUME NEW pool, NEW ab \in BOOLEAN, NEW A \in Nat, NEW B \in Nat, BestRate(pool, ab, A, B),
         NEW p \in BinPrices(pool), p \in Nat \ {0}, NEW pay \in Nat, NEW amount \in Nat,
         ab => pay * Q <= amount * p, ~ab => pay * p <= amount * Q
  PROVE  pay * B <= amount * A
<1>1. Q \in Nat \ {0}
  BY QuoteAssumption
<1>2. {pay * B, amount * A} \subseteq Nat
  BY ProductType
<1>3. CASE ab
  <2>1. (pay * Q) * B <= (amount * p) * B
    BY <1>1, <1>3, ProductOrder, ProductType
  <2>2. p * B <= A * Q
    BY <1>3 DEF BestRate
  <2>3. (p * B) * amount <= (A * Q) * amount
    BY <1>1, <2>2, ProductOrder, ProductType
  <2>4. /\ (pay * Q) * B = (pay * B) * Q /\ (amount * p) * B = (p * B) * amount
        /\ (A * Q) * amount = (amount * A) * Q
    BY <1>1
  <2>5. {(pay * B) * Q, (p * B) * amount, (amount * A) * Q} \subseteq Nat
    BY <1>1, ProductType
  <2>6. (pay * B) * Q <= (amount * A) * Q
    BY <2>1, <2>3, <2>4, <2>5
  <2> QED
    BY <1>1, <1>2, <2>6, ProductCancel
<1>4. CASE ~ab
  <2>1. (pay * p) * B <= (amount * Q) * B
    BY <1>1, <1>4, ProductOrder, ProductType
  <2>2. Q * B <= A * p
    BY <1>4 DEF BestRate
  <2>3. (Q * B) * amount <= (A * p) * amount
    BY <1>1, <2>2, ProductOrder, ProductType
  <2>4. /\ (pay * p) * B = (pay * B) * p /\ (amount * Q) * B = (Q * B) * amount
        /\ (A * p) * amount = (amount * A) * p
    BY <1>1
  <2>5. {(pay * B) * p, (Q * B) * amount, (amount * A) * p} \subseteq Nat
    BY <1>1, ProductType
  <2>6. (pay * B) * p <= (amount * A) * p
    BY <2>1, <2>3, <2>4, <2>5
  <2> QED
    BY <1>2, <2>6, ProductCancel
<1> QED
  BY <1>3, <1>4

(* What the visits of bins have paid is no more than the rate pays for what   *)
(* they have taken, the fee deducted.                                        *)
Binned(w, pool, in, A, B) ==
  /\ w = [left |-> w.left, out |-> w.out, id |-> w.id, stop |-> w.stop]
  /\ w.left \in 0..in
  /\ w.out = None => w.stop \/ w.left = 0
  /\ w.out # None => /\ w.out \in Nat
                     /\ w.out * (Bps * B) <= ((in - w.left) * (Bps - pool.fee)) * A

(* The visit of a bin keeps that.                                            *)
LEMMA BinPays ==
  ASSUME NEW pool, pool.fee \in Nat, pool.fee < Bps, NEW ab \in BOOLEAN,
         \A i \in DOMAIN pool.bins : pool.bins[i] \in Seq(BinStates),
         NEW A \in Nat, NEW B \in Nat, BestRate(pool, ab, A, B), NEW in \in Nat,
         NEW w, Binned(w, pool, in, A, B)
  PROVE  Binned(VisitBin(w, pool, ab), pool, in, A, B)
<1> DEFINE bin   == BinAt(pool.bins, w.id)
           next  == IF ab THEN w.id - 1 ELSE w.id + 1
           there == IF ab THEN bin.y ELSE bin.x
           most  == BinCapacity(bin, ab)
           net   == w.left - Least(w.left, BinFee(pool, w.left))
           gross == most + BinFee(pool, most)
           part  == IF ab THEN Div(Mul(net, bin.price), Q) ELSE Div(net * Q, bin.price)
           v == VisitBin(w, pool, ab)
           h == Bps - pool.fee
<1>1. v = IF w.stop \/ w.left = 0 \/ bin.price = 0
          THEN [w EXCEPT !.stop = TRUE]
          ELSE IF there = 0
          THEN [w EXCEPT !.id = next]
          ELSE IF most = None
          THEN [w EXCEPT !.stop = TRUE, !.out = None]
          ELSE IF net >= most
          THEN [w EXCEPT !.left = w.left - Least(w.left, gross),
                         !.out = w.out + there, !.id = next]
          ELSE [w EXCEPT !.left = 0, !.out = Add(w.out, part)]
  BY Zenon DEF VisitBin
<1>2. /\ w = [left |-> w.left, out |-> w.out, id |-> w.id, stop |-> w.stop]
      /\ w.left \in 0..in
      /\ w.out = None => w.stop \/ w.left = 0
      /\ w.out # None => w.out \in Nat /\ w.out * (Bps * B) <= ((in - w.left) * h) * A
  BY DEF Binned
<1>3. Bps \in Nat \ {0} /\ Q \in Nat \ {0} /\ h \in Nat
  BY QuoteAssumption
<1> HIDE DEF bin, next, there, most, net, gross, part, v, h
<1>4. CASE w.stop \/ w.left = 0 \/ bin.price = 0
  <2>1. v = [w EXCEPT !.stop = TRUE]
    BY <1>1, <1>4
  <2>2. /\ v = [left |-> v.left, out |-> v.out, id |-> v.id, stop |-> v.stop]
        /\ v.left = w.left /\ v.out = w.out /\ v.stop
    BY <1>2, <2>1
  <2> QED
    BY <1>2, <2>2 DEF Binned, v, h
<1>5. CASE ~(w.stop \/ w.left = 0 \/ bin.price = 0) /\ there = 0
  <2>1. v = [w EXCEPT !.id = next]
    BY <1>1, <1>5
  <2>2. /\ v = [left |-> v.left, out |-> v.out, id |-> v.id, stop |-> v.stop]
        /\ v.left = w.left /\ v.out = w.out /\ v.stop = w.stop
    BY <1>2, <2>1
  <2> QED
    BY <1>2, <2>2 DEF Binned, v, h
<1>6. CASE ~(w.stop \/ w.left = 0 \/ bin.price = 0) /\ there # 0 /\ most = None
  <2>1. v = [w EXCEPT !.stop = TRUE, !.out = None]
    BY <1>1, <1>6
  <2>2. /\ v = [left |-> v.left, out |-> v.out, id |-> v.id, stop |-> v.stop]
        /\ v.left = w.left /\ v.out = None /\ v.stop
    BY <1>2, <2>1
  <2> QED
    BY <1>2, <2>2 DEF Binned, v, h
<1>7. CASE ~(w.stop \/ w.left = 0 \/ bin.price = 0) /\ there # 0 /\ most # None
  <2>1. /\ w.out \in Nat /\ w.out * (Bps * B) <= ((in - w.left) * h) * A
        /\ w.left \in 0..in /\ w.left \in Nat
    BY <1>2, <1>7
  <2>2. /\ bin.x \in Nat /\ bin.y \in Nat /\ bin.price \in BinPrices(pool)
        /\ bin.price \in Nat \ {0}
    <3>1. U128 \in Nat
      BY QuoteAssumption, ProductType DEF U128
    <3>2. /\ bin.x \in Nat /\ bin.y \in Nat /\ bin.price \in BinPrices(pool)
          /\ bin.price \in 1..(U128 - 1)
      BY <1>7, BinFound DEF bin
    <3> QED
      BY <3>1, <3>2
  <2>3. /\ there \in Nat /\ most \in Nat
        /\ ab => there * Q <= most * bin.price
        /\ ~ab => there * bin.price <= most * Q
    <3>1. CASE ab
      <4>1. there = bin.y /\ most = Div(Add(bin.y * Q, bin.price - 1), bin.price)
        BY <3>1 DEF there, most, BinCapacity
      <4>2. Add(bin.y * Q, bin.price - 1) # None /\ most = Add(bin.y * Q, bin.price - 1) \div bin.price
        BY <1>7, <4>1, Checked
      <4>3. most = (bin.y * Q + (bin.price - 1)) \div bin.price
        BY <4>2, Checked
      <4>4. bin.y * Q \in Nat
        BY <1>3, <2>2, ProductType
      <4>5. most = CeilDiv(bin.y * Q, bin.price)
        <5>1. bin.y * Q + (bin.price - 1) = bin.y * Q + bin.price - 1
          BY <2>2, <4>4
        <5> QED
          BY <2>2, <4>3, <5>1 DEF CeilDiv
      <4>6. most \in Nat /\ most * bin.price >= bin.y * Q
        BY <2>2, <4>4, <4>5, CeilAbove
      <4>7. most * bin.price \in Nat
        BY <2>2, <4>6, ProductType
      <4> QED
        BY <2>2, <3>1, <4>1, <4>4, <4>6, <4>7
    <3>2. CASE ~ab
      <4>1. /\ there = bin.x /\ bin.x * bin.price = Mul(bin.x, bin.price)
            /\ most = CeilDiv(bin.x * bin.price, Q)
        <5>1. there = bin.x /\ most = CeilOf(Mul(bin.x, bin.price), Q)
          BY <3>2 DEF there, most, BinCapacity
        <5>2. Mul(bin.x, bin.price) # None /\ most = CeilDiv(Mul(bin.x, bin.price), Q)
          BY <1>7, <5>1 DEF CeilOf
        <5>3. Mul(bin.x, bin.price) = bin.x * bin.price
          BY <5>2, Checked
        <5> QED
          BY <5>1, <5>2, <5>3
      <4>2. bin.x * bin.price \in Nat
        BY <2>2, ProductType
      <4>3. most \in Nat /\ most * Q >= bin.x * bin.price
        BY <1>3, <4>1, <4>2, CeilAbove
      <4>4. most * Q \in Nat
        BY <1>3, <4>3, ProductType
      <4> QED
        BY <2>2, <3>2, <4>1, <4>2, <4>3, <4>4
    <3> QED
      BY <3>1, <3>2
  <2>4. ASSUME NEW pay \in Nat, NEW amount \in Nat, NEW taken \in 0..w.left,
               pay * B <= amount * A, amount * Bps <= taken * h
        PROVE  (w.out + pay) * (Bps * B) <= ((in - (w.left - taken)) * h) * A
    <3> DEFINE gone == in - w.left
    <3>1. gone \in Nat /\ taken \in Nat /\ in - (w.left - taken) = gone + taken
      BY <2>1
    <3>2. (pay * B) * Bps <= (amount * A) * Bps /\ (amount * Bps) * A <= (taken * h) * A
      BY <1>3, <2>4, <3>1, ProductOrder, ProductType
    <3> HIDE DEF gone
    <3>3. /\ (w.out + pay) * (Bps * B) = w.out * (Bps * B) + (pay * B) * Bps
          /\ (amount * A) * Bps = (amount * Bps) * A
          /\ ((gone + taken) * h) * A = (gone * h) * A + (taken * h) * A
      BY <1>3, <2>1, <3>1
    <3>4. {w.out * (Bps * B), (pay * B) * Bps, (amount * Bps) * A, (gone * h) * A, (taken * h) * A}
             \subseteq Nat
      BY <1>3, <2>1, <3>1, ProductType
    <3>5. w.out * (Bps * B) <= (gone * h) * A
      BY <2>1 DEF gone
    <3>6. (w.out + pay) * (Bps * B) <= ((gone + taken) * h) * A
      BY <3>2, <3>3, <3>4, <3>5
    <3> QED
      BY <3>1, <3>6
  <2>5. CASE net >= most
    <3> DEFINE taken == Least(w.left, gross)
    <3>1. v = [w EXCEPT !.left = w.left - taken, !.out = w.out + there, !.id = next]
      BY <1>1, <1>7, <2>5
    <3>2. taken \in 0..w.left /\ most * Bps <= taken * h
      BY <2>1, <2>3, <2>5, WholeTaken DEF net, gross, h
    <3>3. there * B <= most * A
      BY <2>2, <2>3, RatePays
    <3> HIDE DEF taken
    <3>4. /\ v = [left |-> v.left, out |-> v.out, id |-> v.id, stop |-> v.stop]
          /\ v.left = w.left - taken /\ v.out = w.out + there
      BY <1>2, <3>1
    <3>5. v.out * (Bps * B) <= ((in - v.left) * h) * A
      BY <2>3, <2>4, <3>2, <3>3, <3>4
    <3>6. v.left \in 0..in /\ v.out \in Nat
      BY <2>1, <2>3, <3>2, <3>4
    <3> QED
      BY <3>4, <3>5, <3>6 DEF Binned, v, h, None
  <2>6. CASE ~(net >= most)
    <3>1. v = [w EXCEPT !.left = 0, !.out = Add(w.out, part)]
      BY <1>1, <1>7, <2>6
    <3>2. /\ v = [left |-> v.left, out |-> v.out, id |-> v.id, stop |-> v.stop]
          /\ v.left = 0 /\ v.out = Add(w.out, part)
      BY <1>2, <3>1
    <3>3. ASSUME v.out # None
          PROVE  v.out \in Nat /\ v.out * (Bps * B) <= ((in - v.left) * h) * A
      <4>1. part # None /\ v.out = w.out + part
        BY <3>2, <3>3, Checked
      <4>2. net \in 0..w.left /\ net * Bps <= w.left * h
        BY <2>1, FeeTaken DEF net, h
      <4>3. part \in Nat /\ (ab => part * Q <= net * bin.price) /\ (~ab => part * bin.price <= net * Q)
        <5>1. net \in Nat /\ net * bin.price \in Nat /\ net * Q \in Nat
          <6>1. net \in Nat
            BY <2>1, <4>2
          <6> QED
            BY <1>3, <2>2, <6>1, ProductType
        <5>2. CASE ab
          <6>1. part = Div(Mul(net, bin.price), Q)
            BY <5>2 DEF part
          <6>2. Mul(net, bin.price) # None /\ part = Mul(net, bin.price) \div Q
            BY <4>1, <6>1, Checked
          <6>3. part = (net * bin.price) \div Q
            BY <6>2, Checked
          <6> QED
            BY <1>3, <5>1, <5>2, <6>3, QuotientType
        <5>3. CASE ~ab
          <6>1. part = Div(net * Q, bin.price)
            BY <5>3 DEF part
          <6>2. part = (net * Q) \div bin.price
            BY <4>1, <6>1, Checked
          <6> QED
            BY <2>2, <5>1, <5>3, <6>2, QuotientType
        <5> QED
          BY <5>2, <5>3
      <4>4. part * B <= net * A
        <5>1. net \in Nat
          BY <2>1, <4>2
        <5> QED
          BY <2>2, <4>3, <5>1, RatePays
      <4>5. (w.out + part) * (Bps * B) <= ((in - (w.left - w.left)) * h) * A
        <5>1. net \in Nat /\ w.left \in 0..w.left
          BY <2>1, <4>2
        <5> QED
          BY <2>4, <4>2, <4>3, <4>4, <5>1
      <4>6. w.left - w.left = v.left
        BY <2>1, <3>2
      <4> QED
        BY <2>1, <4>1, <4>3, <4>5, <4>6
    <3>4. v.left \in 0..in
      BY <3>2
    <3> QED
      BY <3>2, <3>3, <3>4 DEF Binned, v, h
  <2> QED
    BY <2>5, <2>6
<1> QED
  BY <1>4, <1>5, <1>6, <1>7

(* The rate of the reference: the best price there is, and nothing without     *)
(* bins.                                                                    *)
LEMMA BestRateIs ==
  ASSUME NEW pool, BinPrices(pool) \subseteq 1..(U128 - 1), NEW ab \in BOOLEAN,
         pool.fee \in Nat, pool.fee < Bps, NEW amount \in Nat
  PROVE  \E A \in Nat, B \in Nat \ {0} :
           /\ BestRate(pool, ab, A, B)
           /\ amount * (Bps - pool.fee) \in Nat
           /\ SpotDlmm(pool, amount, ab) \in Nat
           /\ \A out \in Nat : out * (Bps * B) <= (amount * (Bps - pool.fee)) * A
                                => out <= SpotDlmm(pool, amount, ab)
<1> DEFINE S == BinPrices(pool)
           gross == amount * (Bps - pool.fee)
           spot == SpotDlmm(pool, amount, ab)
<1>1. Bps \in Nat \ {0} /\ Q \in Nat \ {0} /\ U128 \in Nat /\ Bps - pool.fee \in Nat
  BY QuoteAssumption, ProductType DEF U128
<1>2. gross \in Nat
  BY <1>1, ProductType
<1>3. S \subseteq Nat \ {0} /\ S \subseteq 0..U128
  BY <1>1
<1> HIDE DEF S, gross
<1>4. ASSUME NEW A \in Nat, NEW B \in Nat \ {0}, BestRate(pool, ab, A, B),
             spot = (gross * A) \div (Bps * B)
      PROVE  /\ spot \in Nat
             /\ \A out \in Nat : out * (Bps * B) <= gross * A => out <= spot
  <2>1. gross * A \in Nat /\ Bps * B \in Nat \ {0}
    BY <1>1, <1>2, ProductType
  <2> QED
    BY <1>4, <2>1, QuotientType, QuotientAbove
<1>5. CASE S = {}
  <2>1. spot = 0 /\ BestRate(pool, ab, 0, 1)
    BY <1>5 DEF SpotDlmm, BestRate, S
  <2>2. (gross * 0) \div (Bps * 1) = 0
    <3>1. gross * 0 = 0 /\ Bps * 1 = Bps
      BY <1>1, <1>2
    <3> QED
      BY <1>1, <3>1
  <2>3. 0 \in Nat /\ 1 \in Nat \ {0}
    OBVIOUS
  <2> QED
    BY <1>2, <1>4, <2>1, <2>2, <2>3 DEF gross
<1>6. CASE S # {} /\ ab
  <2> DEFINE M == Max(S)
  <2>1. M \in S /\ \A x \in S : x <= M
    BY <1>1, <1>3, <1>6, MaxIs
  <2>2. spot = (gross * M) \div (Bps * Q)
    BY <1>6 DEF SpotDlmm, S, gross
  <2> HIDE DEF M, spot
  <2>3. BestRate(pool, ab, M, Q)
    <3>1. ASSUME NEW p \in S PROVE p * Q <= M * Q
      BY <1>1, <1>3, <2>1, ProductOrder
    <3> QED
      BY <1>6, <3>1 DEF BestRate, S
  <2>4. M \in Nat /\ Q \in Nat \ {0}
    BY <1>1, <1>3, <2>1
  <2> QED
    BY <1>2, <1>4, <2>2, <2>3, <2>4 DEF gross, spot
<1>7. CASE S # {} /\ ~ab
  <2> DEFINE m == Min(S)
  <2>1. m \in S /\ \A x \in S : m <= x
    <3>1. S \subseteq Nat
      BY <1>3
    <3> QED
      BY <1>7, <3>1, MinIs
  <2>2. spot = (gross * Q) \div (Bps * m)
    BY <1>7 DEF SpotDlmm, S, gross
  <2> HIDE DEF m, spot
  <2>3. BestRate(pool, ab, Q, m)
    <3>1. ASSUME NEW p \in S PROVE Q * m <= Q * p
      <4>1. m * Q <= p * Q /\ m * Q = Q * m /\ p * Q = Q * p
        BY <1>1, <1>3, <2>1, ProductOrder
      <4> QED
        BY <4>1
    <3> QED
      BY <1>7, <3>1 DEF BestRate, S
  <2>4. m \in Nat \ {0} /\ Q \in Nat
    BY <1>1, <1>3, <2>1
  <2> QED
    BY <1>2, <1>4, <2>2, <2>3, <2>4 DEF gross, spot
<1> QED
  BY <1>5, <1>6, <1>7

(* The prices of bins are those of the parser.                               *)
LEMMA BinPricesType ==
  ASSUME NEW pool, \A i \in DOMAIN pool.bins : pool.bins[i] \in Seq(BinStates)
  PROVE  BinPrices(pool) \subseteq 1..(U128 - 1)
<1>1. U128 \in Nat
  BY QuoteAssumption, ProductType DEF U128
<1> SUFFICES ASSUME NEW p \in BinPrices(pool) PROVE p \in 1..(U128 - 1)
  OBVIOUS
<1>2. PICK i \in DOMAIN pool.bins : \E bin \in Range(pool.bins[i]) : p = bin.price
  BY DEF BinPrices
<1>3. PICK bin \in Range(pool.bins[i]) : p = bin.price
  BY <1>2
<1>4. pool.bins[i] \in Seq(BinStates)
  OBVIOUS
<1>5. bin \in BinStates
  BY <1>4 DEF Range
<1>6. p \in 0..(U128 - 1) /\ p # 0
  BY <1>3, <1>5 DEF BinStates, BinPrices
<1> QED
  BY <1>1, <1>6

(* A quote along bins.                                                      *)
LEMMA BinsBelow ==
  ASSUME NEW pool, pool.fee \in Nat, NEW ab \in BOOLEAN,
         \A i \in DOMAIN pool.bins : pool.bins[i] \in Seq(BinStates),
         NEW in \in Nat, Dlmm(pool, in, ab) # None
  PROVE  /\ Dlmm(pool, in, ab) \in Nat /\ SpotDlmm(pool, in, ab) \in Nat
         /\ Dlmm(pool, in, ab) <= SpotDlmm(pool, in, ab) /\ pool.fee < Bps
<1> DEFINE start == [left |-> in, out |-> 0, id |-> pool.tick, stop |-> FALSE]
           seq == [i \in 1..MaxBins |-> i]
           end == BinsFold(pool, ab, start, seq)
           out == Dlmm(pool, in, ab)
           h == Bps - pool.fee
<1>1. out = IF DOMAIN pool.bins = {} \/ pool.fee >= Bps THEN None ELSE FitsU64(end.out)
  BY Zenon DEF Dlmm, BinsFold
<1>2. MaxBins \in Nat /\ Bps \in Nat \ {0} /\ DOMAIN seq = 1..MaxBins
  BY QuoteAssumption
<1>3. PICK w : /\ w[0] = start /\ end = w[MaxBins]
               /\ \A i \in 0..(MaxBins - 1) : w[i + 1] = VisitBin(w[i], pool, ab)
  <2>1. end = BinsFold(pool, ab, start, seq)
    OBVIOUS
  <2> HIDE DEF end, start, seq
  <2> QED
    BY <1>2, <2>1, BinsWalked
<1> HIDE DEF end, seq, out
<1>4. pool.fee < Bps /\ out = end.out /\ out # None
  <2>1. out # None
    BY DEF out
  <2>2. ~(pool.fee >= Bps) /\ out = FitsU64(end.out)
    BY <1>1, <2>1
  <2> QED
    BY <1>2, <2>1, <2>2, Checked
<1>5. PICK A \in Nat, B \in Nat \ {0} :
           /\ BestRate(pool, ab, A, B)
           /\ in * h \in Nat /\ SpotDlmm(pool, in, ab) \in Nat
           /\ \A x \in Nat : x * (Bps * B) <= (in * h) * A => x <= SpotDlmm(pool, in, ab)
  BY <1>4, BinPricesType, BestRateIs
<1> DEFINE S == {i \in Nat : i <= MaxBins => Binned(w[i], pool, in, A, B)}
<1>6. 0 \in S
  <2>1. start.left = in /\ start.out = 0
        /\ start = [left |-> start.left, out |-> start.out, id |-> start.id, stop |-> start.stop]
    OBVIOUS
  <2> HIDE DEF start, h
  <2>2. 0 * (Bps * B) <= ((in - in) * h) * A
    <3>1. h \in Nat /\ Bps * B \in Nat
      BY <1>2, <1>4, ProductType DEF h
    <3>2. 0 * (Bps * B) = 0
      BY <3>1
    <3>3. (in - in) * h = 0
      BY <3>1
    <3> QED
      BY <3>2, <3>3
  <2>3. Binned(start, pool, in, A, B)
    BY <2>1, <2>2 DEF Binned, None, h
  <2> QED
    BY <1>3, <2>3
<1>7. ASSUME NEW n \in Nat, n \in S PROVE n + 1 \in S
  <2> SUFFICES ASSUME n + 1 <= MaxBins PROVE Binned(w[n + 1], pool, in, A, B)
    OBVIOUS
  <2>1. Binned(w[n], pool, in, A, B) /\ n \in 0..(MaxBins - 1)
    BY <1>2, <1>7
  <2>2. w[n + 1] = VisitBin(w[n], pool, ab)
    BY <1>3, <2>1
  <2>3. Binned(VisitBin(w[n], pool, ab), pool, in, A, B)
    BY <1>4, <1>5, <2>1, BinPays
  <2> QED
    BY <2>2, <2>3
<1> HIDE DEF S
<1>8. Binned(end, pool, in, A, B)
  <2>1. MaxBins \in S
    BY <1>2, <1>6, <1>7, SetInduction
  <2> QED
    BY <1>2, <1>3, <2>1 DEF S
<1>9. out \in Nat /\ end.left \in 0..in /\ out * (Bps * B) <= ((in - end.left) * h) * A
  BY <1>4, <1>8 DEF Binned
<1> HIDE DEF h
<1>10. out * (Bps * B) <= (in * h) * A
  <2>1. h \in Nat
    BY <1>2, <1>4 DEF h
  <2>2. ((in - end.left) * h) * A <= (in * h) * A
    <3>1. in - end.left \in Nat /\ in - end.left <= in
      BY <1>9
    <3>2. (in - end.left) * h <= in * h /\ (in - end.left) * h \in Nat
      BY <2>1, <3>1, ProductOrder, ProductType
    <3> QED
      BY <1>5, <3>2, ProductOrder
  <2>3. {out * (Bps * B), ((in - end.left) * h) * A, (in * h) * A} \subseteq Nat
    BY <1>2, <1>5, <1>9, <2>1, ProductType
  <2> QED
    BY <1>9, <2>2, <2>3
<1> QED
  BY <1>4, <1>5, <1>9, <1>10 DEF out
-----------------------------------------------------------------------------
(* Every kind of pool.                                                       *)

(* What the price of a pool rests on, and what a quote is bounded by.          *)
Priced(by, pool, ab) ==
  /\ pool.fee \in 0..Bps
  /\ \/ by = "product" /\ (IF ab THEN pool.a ELSE pool.b) # 0
     \/ by \in {"ticks", "range", "fallback"} /\ pool.price # 0
     \/ by \in {"Phoenix", "Manifest"} /\ IF ab THEN pool.bid # None ELSE pool.ask \notin {None, 0}
     \/ by = "bins" /\ pool.fee < Bps

Bounded(by, out, pool, in, ab) ==
  /\ Priced(by, pool, ab)
  /\ out \in Nat /\ Spot(by, pool, in, ab) \in Nat /\ RoundingGain(by, pool, ab) \in Nat
  /\ out <= Spot(by, pool, in, ab) + RoundingGain(by, pool, ab)

Stored(pool) ==
  /\ {pool.a, pool.b, pool.fee, pool.price, pool.liq} \subseteq Nat
  /\ {pool.bid, pool.ask} \subseteq Nat \cup {None}
  /\ Indexed(pool.ticks)
  /\ \A i \in DOMAIN pool.bins : pool.bins[i] \in Seq(BinStates)

(* What is stored of a pool has these types.                                 *)
LEMMA StoredIs == ASSUME NEW pool, IsPoolState(pool) PROVE Stored(pool)
<1>1. 0..MaxU64 \subseteq Nat
  OBVIOUS
<1> QED
  BY <1>1 DEF IsPoolState, Stored, Indexed

(* A constant product, whatever it stands for.                               *)
LEMMA ProductBounded ==
  ASSUME NEW pool, Stored(pool), NEW in \in Nat, NEW ab \in BOOLEAN, Cpmm(pool, in, ab) # None
  PROVE  Bounded("product", Cpmm(pool, in, ab), pool, in, ab)
<1>1. /\ Cpmm(pool, in, ab) \in Nat /\ SpotCpmm(pool, in, ab) \in Nat
      /\ Cpmm(pool, in, ab) <= SpotCpmm(pool, in, ab) /\ Priced("product", pool, ab)
  BY CpmmBelow DEF Stored, Priced
<1>2. Spot("product", pool, in, ab) = SpotCpmm(pool, in, ab)
  BY DEF Spot
<1>3. RoundingGain("product", pool, ab) = 0
  BY DEF RoundingGain
<1> QED
  BY <1>1, <1>2, <1>3 DEF Bounded

(* A book.                                                                   *)
LEMMA BookBounded ==
  ASSUME NEW pool, Stored(pool), NEW in \in Nat, NEW ab \in BOOLEAN,
         NEW by \in {"Phoenix", "Manifest"}, NEW one \in Nat \ {0},
         one = IF by = "Phoenix" THEN 1 ELSE PriceOne,
         TopOfBook(pool, in, ab, one) # None
  PROVE  Bounded(by, TopOfBook(pool, in, ab, one), pool, in, ab)
<1> DEFINE out == TopOfBook(pool, in, ab, one)
           spot == SpotBook(pool, in, ab, one)
<1>1. /\ out \in Nat /\ spot \in Nat /\ out <= spot /\ pool.fee \in 0..Bps
      /\ IF ab THEN pool.bid # None ELSE pool.ask \notin {None, 0}
  BY BookBelow DEF Stored
<1>4. Priced(by, pool, ab)
  BY <1>1 DEF Priced
<1>2. Spot(by, pool, in, ab) = spot
  BY DEF Spot
<1>3. RoundingGain(by, pool, ab) = 0
  BY DEF RoundingGain
<1> HIDE DEF out, spot
<1> QED
  BY <1>1, <1>2, <1>3, <1>4 DEF Bounded, out

(* One range of liquidity.                                                   *)
LEMMA RangeBounded ==
  ASSUME NEW pool, Stored(pool), HasClmmState(pool), NEW in \in Nat, NEW ab \in BOOLEAN,
         SingleTick(pool, in, ab) # None
  PROVE  Bounded("range", SingleTick(pool, in, ab), pool, in, ab)
<1>1. pool.price \in Nat \ {0} /\ pool.liq \in Nat \ {0} /\ pool.fee \in Nat
  BY DEF Stored, HasClmmState
<1>2. /\ SingleTick(pool, in, ab) \in Nat /\ SpotClmm(pool, in, ab) \in Nat
      /\ RoundingGain("range", pool, ab) \in Nat
      /\ SingleTick(pool, in, ab) <= SpotClmm(pool, in, ab) + RoundingGain("range", pool, ab)
      /\ Priced("range", pool, ab)
  BY <1>1, RangeBelow DEF Priced
<1>3. Spot("range", pool, in, ab) = SpotClmm(pool, in, ab)
  BY DEF Spot
<1> QED
  BY <1>2, <1>3 DEF Bounded

(* A walk along ticks.                                                       *)
LEMMA TicksBounded ==
  ASSUME NEW pool, Stored(pool), HasClmmState(pool), NEW in \in Nat, NEW ab \in BOOLEAN,
         MultiTick(pool, in, ab) # None
  PROVE  Bounded("ticks", MultiTick(pool, in, ab), pool, in, ab)
<1>1. /\ pool.price \in Nat \ {0} /\ pool.liq \in Nat \ {0} /\ pool.fee \in Nat
      /\ IsFiniteSet(pool.ticks)
  BY DEF Stored, HasClmmState, Indexed
<1>2. /\ MultiTick(pool, in, ab) \in Nat /\ SpotClmm(pool, in, ab) \in Nat
      /\ RoundingGain("ticks", pool, ab) \in Nat
      /\ MultiTick(pool, in, ab) <= SpotClmm(pool, in, ab) + RoundingGain("ticks", pool, ab)
      /\ Priced("ticks", pool, ab)
  BY <1>1, TicksBelow DEF Priced
<1>3. Spot("ticks", pool, in, ab) = SpotClmm(pool, in, ab)
  BY DEF Spot
<1> QED
  BY <1>2, <1>3 DEF Bounded

(* A curve that falls back to its reserves.                                  *)
LEMMA FallbackBounded ==
  ASSUME NEW pool, Stored(pool), HasClmmState(pool), OnCurve(pool), NEW in \in Nat,
         NEW ab \in BOOLEAN, Cpmm(pool, in, ab) # None
  PROVE  Bounded("fallback", Cpmm(pool, in, ab), pool, in, ab)
<1>1. /\ pool.price \in Nat \ {0} /\ pool.liq \in Nat \ {0} /\ pool.fee \in Nat
      /\ pool.a \in Nat /\ pool.b \in Nat
  BY DEF Stored, HasClmmState
<1>2. /\ Cpmm(pool, in, ab) \in Nat /\ SpotClmm(pool, in, ab) \in Nat
      /\ RoundingGain("fallback", pool, ab) \in Nat
      /\ Cpmm(pool, in, ab) <= SpotClmm(pool, in, ab) + RoundingGain("fallback", pool, ab)
      /\ Priced("fallback", pool, ab)
  BY <1>1, FallbackBelow DEF Priced
<1>3. Spot("fallback", pool, in, ab) = SpotClmm(pool, in, ab)
  BY DEF Spot
<1> QED
  BY <1>2, <1>3 DEF Bounded

(* A walk along bins.                                                        *)
LEMMA BinsBounded ==
  ASSUME NEW pool, Stored(pool), NEW in \in Nat, NEW ab \in BOOLEAN, Dlmm(pool, in, ab) # None
  PROVE  Bounded("bins", Dlmm(pool, in, ab), pool, in, ab)
<1>1. /\ Dlmm(pool, in, ab) \in Nat /\ SpotDlmm(pool, in, ab) \in Nat
      /\ Dlmm(pool, in, ab) <= SpotDlmm(pool, in, ab) /\ Priced("bins", pool, ab)
  <2>1. /\ Dlmm(pool, in, ab) \in Nat /\ SpotDlmm(pool, in, ab) \in Nat
        /\ Dlmm(pool, in, ab) <= SpotDlmm(pool, in, ab) /\ pool.fee < Bps /\ pool.fee \in Nat
    BY BinsBelow DEF Stored
  <2>2. Priced("bins", pool, ab)
    BY <2>1, QuoteAssumption DEF Priced
  <2> QED
    BY <2>1, <2>2
<1>2. Spot("bins", pool, in, ab) = SpotDlmm(pool, in, ab)
  BY DEF Spot
<1>3. RoundingGain("bins", pool, ab) = 0
  BY DEF RoundingGain
<1> QED
  BY <1>1, <1>2, <1>3 DEF Bounded

(* What quotes a pool, and what that comes to.                               *)
LEMMA QuoteIs ==
  ASSUME NEW pool, NEW in \in Nat \ {0}, NEW ab \in BOOLEAN, Quote(pool, in, ab) # None
  PROVE  LET by  == QuotedBy(pool, in, ab)
             out == Quote(pool, in, ab)
         IN  \/ by = "product" /\ out = Cpmm(pool, in, ab)
             \/ by = "Phoenix" /\ out = TopOfBook(pool, in, ab, 1)
             \/ by = "Manifest" /\ out = TopOfBook(pool, in, ab, PriceOne)
             \/ by = "range" /\ out = SingleTick(pool, in, ab) /\ HasClmmState(pool)
             \/ by = "ticks" /\ out = MultiTick(pool, in, ab) /\ HasClmmState(pool)
             \/ by = "fallback" /\ out = Cpmm(pool, in, ab) /\ HasClmmState(pool) /\ OnCurve(pool)
             \/ by = "bins" /\ out = Dlmm(pool, in, ab)
<1> DEFINE by  == QuotedBy(pool, in, ab)
           out == Quote(pool, in, ab)
<1>1. out = QuoteBy(pool, in, ab)
  BY DEF Quote
<1>2. CASE pool.dex \in {"OrcaWhirlpool", "RaydiumClmm"} /\ Orca(pool, in, ab) # None
  <2>1. out = Orca(pool, in, ab) /\ by = IF pool.ticks = {} THEN "range" ELSE "ticks"
    BY <1>1, <1>2 DEF QuoteBy, QuotedBy, OrElse, RaydiumClmm
  <2> HIDE DEF out, by
  <2> QED
    BY <1>2, <2>1 DEF Orca, out, by
<1>3. CASE pool.dex \in {"OrcaWhirlpool", "RaydiumClmm"} /\ Orca(pool, in, ab) = None
  <2>1. /\ out = Cpmm(pool, in, ab)
        /\ by = IF HasClmmState(pool) /\ OnCurve(pool) THEN "fallback" ELSE "product"
    BY <1>1, <1>3 DEF QuoteBy, QuotedBy, OrElse, RaydiumClmm
  <2> HIDE DEF out, by
  <2> QED
    BY <2>1 DEF out, by
<1>4. CASE pool.dex \in {"MeteoraDammV2", "SanctumInfinity"}
  <2>1. /\ out = IF HasClmmState(pool) THEN SingleTick(pool, in, ab) ELSE Cpmm(pool, in, ab)
        /\ by = IF HasClmmState(pool) THEN "range" ELSE "product"
    BY <1>1, <1>4 DEF QuoteBy, QuotedBy, DammV2, Sanctum
  <2> HIDE DEF out, by
  <2> QED
    BY <2>1 DEF out, by
<1>5. CASE pool.dex \in {"Phoenix", "Manifest"}
  <2>1. /\ by = pool.dex
        /\ out = IF pool.dex = "Phoenix" THEN TopOfBook(pool, in, ab, 1)
                                         ELSE TopOfBook(pool, in, ab, PriceOne)
    BY <1>1, <1>5 DEF QuoteBy, QuotedBy, Phoenix, Manifest
  <2> HIDE DEF out, by
  <2> QED
    BY <1>5, <2>1 DEF out, by
<1>6. CASE pool.dex = "MeteoraDlmm"
  <2>1. /\ out = IF Dlmm(pool, in, ab) = None THEN Cpmm(pool, in, ab) ELSE Dlmm(pool, in, ab)
        /\ by = IF Dlmm(pool, in, ab) = None THEN "product" ELSE "bins"
    BY <1>1, <1>6 DEF QuoteBy, QuotedBy, OrElse
  <2> HIDE DEF out, by
  <2> QED
    BY <2>1 DEF out, by
<1>7. CASE pool.dex \notin {"OrcaWhirlpool", "RaydiumClmm", "MeteoraDammV2", "SanctumInfinity",
                            "Phoenix", "Manifest", "MeteoraDlmm"}
  <2>1. out = Cpmm(pool, in, ab) /\ by = "product"
    BY <1>1, <1>7 DEF QuoteBy, QuotedBy
  <2> HIDE DEF out, by
  <2> QED
    BY <2>1 DEF out, by
<1> QED
  BY <1>2, <1>3, <1>4, <1>5, <1>6, <1>7

(* A quote, whatever it comes from.                                          *)
LEMMA QuoteBounded ==
  ASSUME NEW pool, Stored(pool), NEW in \in Nat \ {0}, NEW ab \in BOOLEAN,
         Quote(pool, in, ab) # None
  PROVE  Bounded(QuotedBy(pool, in, ab), Quote(pool, in, ab), pool, in, ab)
<1> DEFINE by  == QuotedBy(pool, in, ab)
           out == Quote(pool, in, ab)
<1>1. \/ by = "product" /\ out = Cpmm(pool, in, ab)
      \/ by = "Phoenix" /\ out = TopOfBook(pool, in, ab, 1)
      \/ by = "Manifest" /\ out = TopOfBook(pool, in, ab, PriceOne)
      \/ by = "range" /\ out = SingleTick(pool, in, ab) /\ HasClmmState(pool)
      \/ by = "ticks" /\ out = MultiTick(pool, in, ab) /\ HasClmmState(pool)
      \/ by = "fallback" /\ out = Cpmm(pool, in, ab) /\ HasClmmState(pool) /\ OnCurve(pool)
      \/ by = "bins" /\ out = Dlmm(pool, in, ab)
  BY QuoteIs
<1>2. out # None /\ in \in Nat /\ PriceOne \in Nat \ {0} /\ 1 \in Nat \ {0}
  BY QuoteAssumption
<1> HIDE DEF by, out
<1>3. CASE by = "product" /\ out = Cpmm(pool, in, ab)
  BY <1>2, <1>3, ProductBounded DEF by, out
<1>4. CASE by = "Phoenix" /\ out = TopOfBook(pool, in, ab, 1)
  BY <1>2, <1>4, BookBounded DEF by, out
<1>5. CASE by = "Manifest" /\ out = TopOfBook(pool, in, ab, PriceOne)
  BY <1>2, <1>5, BookBounded DEF by, out
<1>6. CASE by = "range" /\ out = SingleTick(pool, in, ab) /\ HasClmmState(pool)
  BY <1>2, <1>6, RangeBounded DEF by, out
<1>7. CASE by = "ticks" /\ out = MultiTick(pool, in, ab) /\ HasClmmState(pool)
  BY <1>2, <1>7, TicksBounded DEF by, out
<1>8. CASE by = "fallback" /\ out = Cpmm(pool, in, ab) /\ HasClmmState(pool) /\ OnCurve(pool)
  BY <1>2, <1>8, FallbackBounded DEF by, out
<1>9. CASE by = "bins" /\ out = Dlmm(pool, in, ab)
  BY <1>2, <1>9, BinsBounded DEF by, out
<1> QED
  BY <1>1, <1>3, <1>4, <1>5, <1>6, <1>7, <1>8, <1>9

(* The reference grows with the amount.                                      *)
LEMMA QuotientOrder ==
  ASSUME NEW m \in Nat, NEW n \in Nat, m <= n, NEW d \in Nat \ {0}
  PROVE  m \div d <= n \div d /\ n \div d \in Nat
<1> DEFINE q == m \div d
<1>1. q \in Nat /\ q * d <= m /\ q * d \in Nat
  BY QuotientType, ProductType
<1> HIDE DEF q
<1>2. q * d <= n
  BY <1>1
<1> QED
  BY <1>1, <1>2, QuotientAbove, QuotientType DEF q

(* So does the share of an amount.                                           *)
LEMMA ShareGrows ==
  ASSUME NEW N \in Nat, NEW D \in Nat \ {0}, NEW x \in Nat, NEW y \in Nat, x <= y
  PROVE  (x * N) \div D <= (y * N) \div D /\ (y * N) \div D \in Nat
<1>1. x * N <= y * N /\ {x * N, y * N} \subseteq Nat
  BY ProductOrder, ProductType
<1> QED
  BY <1>1, QuotientOrder

(* And the reference, which is such a share.                                 *)
LEMMA SpotGrows ==
  ASSUME NEW pool, Stored(pool), NEW ab \in BOOLEAN, NEW by, Priced(by, pool, ab),
         NEW x \in Nat, NEW y \in Nat, x <= y
  PROVE  Spot(by, pool, x, ab) <= Spot(by, pool, y, ab) /\ Spot(by, pool, y, ab) \in Nat
<1> DEFINE f == Bps - pool.fee
           S(z) == Spot(by, pool, z, ab)
<1>1. Bps \in Nat \ {0} /\ Q \in Nat \ {0} /\ PriceOne \in Nat \ {0} /\ f \in Nat
      /\ {pool.a, pool.b, pool.fee, pool.price, pool.liq} \subseteq Nat
      /\ {pool.bid, pool.ask} \subseteq Nat \cup {None}
      /\ \A i \in DOMAIN pool.bins : pool.bins[i] \in Seq(BinStates)
  BY QuoteAssumption DEF Priced, Stored
<1>2. ASSUME NEW N \in Nat, NEW D \in Nat \ {0},
             \A z \in Nat : S(z) = (z * N) \div D
      PROVE  S(x) <= S(y) /\ S(y) \in Nat
  <2>1. S(x) = (x * N) \div D /\ S(y) = (y * N) \div D
    BY <1>2
  <2>2. (x * N) \div D <= (y * N) \div D /\ (y * N) \div D \in Nat
    BY ShareGrows
  <2> HIDE DEF S
  <2> QED
    BY <2>1, <2>2
<1>3. CASE by = "product" /\ (IF ab THEN pool.a ELSE pool.b) # 0
  <2> DEFINE rin == IF ab THEN pool.a ELSE pool.b
             rout == IF ab THEN pool.b ELSE pool.a
  <2>1. \A z : S(z) = (z * f * rout) \div (rin * Bps)
    BY <1>3 DEF Spot, SpotCpmm
  <2>2. rin \in Nat \ {0} /\ rout \in Nat
    BY <1>1, <1>3
  <2> HIDE DEF rin, rout, S, f
  <2>3. rin * Bps \in Nat \ {0} /\ f * rout \in Nat
    BY <1>1, <2>2, ProductType
  <2>4. \A z \in Nat : z * f * rout = z * (f * rout)
    BY <1>1, <2>2
  <2>5. \A z \in Nat : S(z) = (z * (f * rout)) \div (rin * Bps)
    BY <2>1, <2>4
  <2> QED
    BY <1>2, <2>3, <2>5 DEF S
<1>4. CASE by \in {"ticks", "range", "fallback"} /\ pool.price # 0
  <2> DEFINE R == Rate(pool.price, ab)
             U == Unit(pool.price, ab)
  <2>1. R \in Nat /\ U \in Nat \ {0} /\ pool.price \in Nat \ {0} /\ pool.fee \in 0..Bps
    BY <1>1, <1>4, RateType DEF Priced
  <2>2. \A z \in Nat : SpotClmm(pool, z, ab) = (z * f * R) \div (Bps * U)
    BY <2>1, SpotIs
  <2>3. \A z : S(z) = SpotClmm(pool, z, ab)
    BY <1>4 DEF Spot
  <2> HIDE DEF R, U, S, f
  <2>4. Bps * U \in Nat \ {0} /\ f * R \in Nat
    BY <1>1, <2>1, ProductType
  <2>5. \A z \in Nat : z * f * R = z * (f * R)
    BY <1>1, <2>1
  <2>6. \A z \in Nat : S(z) = (z * (f * R)) \div (Bps * U)
    BY <2>2, <2>3, <2>5
  <2> QED
    BY <1>2, <2>4, <2>6 DEF S
<1>5. CASE by \in {"Phoenix", "Manifest"} /\ IF ab THEN pool.bid # None ELSE pool.ask \notin {None, 0}
  <2> DEFINE one == IF by = "Phoenix" THEN 1 ELSE PriceOne
             N == IF ab THEN pool.bid ELSE one
             D == IF ab THEN one ELSE pool.ask
  <2>1. one \in Nat \ {0}
    BY <1>1
  <2>2. \A z : S(z) = SpotBook(pool, z, ab, one)
    BY <1>5 DEF Spot
  <2> HIDE DEF one
  <2>3. \A z : S(z) = (z * f * N) \div (Bps * D)
    BY <2>2 DEF SpotBook
  <2>4. N \in Nat /\ D \in Nat \ {0}
    BY <1>1, <1>5, <2>1
  <2> HIDE DEF N, D, S, f
  <2>5. Bps * D \in Nat \ {0} /\ f * N \in Nat
    BY <1>1, <2>4, ProductType
  <2>6. \A z \in Nat : z * f * N = z * (f * N)
    BY <1>1, <2>4
  <2>7. \A z \in Nat : S(z) = (z * (f * N)) \div (Bps * D)
    BY <2>3, <2>6
  <2> QED
    BY <1>2, <2>5, <2>7 DEF S
<1>6. CASE by = "bins" /\ pool.fee < Bps
  <2> DEFINE B == BinPrices(pool)
             N == IF B = {} THEN 0 ELSE IF ab THEN Max(B) ELSE Q
             D == IF B = {} THEN 1 ELSE IF ab THEN Q ELSE Min(B)
  <2>1. \A z : S(z) = IF B = {} THEN 0 ELSE (z * f * N) \div (Bps * D)
    BY <1>6 DEF Spot, SpotDlmm
  <2>2. U128 \in Nat /\ B \subseteq 1..(U128 - 1)
    BY <1>1, BinPricesType, ProductType DEF U128
  <2> HIDE DEF B
  <2>8. \A b \in B : b \in Nat /\ b \in Nat \ {0}
    BY <2>2
  <2>3. N \in Nat /\ D \in Nat \ {0}
    <3>1. CASE B = {}
      BY <3>1
    <3>2. CASE B # {} /\ ab
      <4>1. B \subseteq 0..U128
        BY <2>2
      <4>2. Max(B) \in B
        BY <2>2, <3>2, <4>1, MaxIs
      <4>3. Max(B) \in Nat
        BY <2>8, <4>2, Zenon
      <4> QED
        BY <1>1, <3>2, <4>3
    <3>3. CASE B # {} /\ ~ab
      <4>1. B \subseteq Nat
        BY <2>2
      <4>2. Min(B) \in B
        BY <3>3, <4>1, MinIs
      <4>3. Min(B) \in Nat \ {0}
        BY <2>8, <4>2, Zenon
      <4> QED
        BY <1>1, <3>3, <4>3
    <3> QED
      BY <3>1, <3>2, <3>3
  <2>4. B = {} => N = 0 /\ D = 1
    OBVIOUS
  <2> HIDE DEF N, D, S, f
  <2>5. Bps * D \in Nat \ {0} /\ f * N \in Nat
    BY <1>1, <2>3, ProductType
  <2>6. \A z \in Nat : z * f * N = z * (f * N)
    BY <1>1, <2>3
  <2>7. \A z \in Nat : S(z) = (z * (f * N)) \div (Bps * D)
    <3>1. CASE B = {}
      <4>1. f * N = 0 /\ Bps * D = Bps
        BY <1>1, <2>4, <3>1
      <4>2. \A z \in Nat : (z * 0) \div Bps = 0
        BY <1>1
      <4> QED
        BY <2>1, <3>1, <4>1, <4>2
    <3>2. CASE B # {}
      BY <2>1, <2>6, <3>2
    <3> QED
      BY <3>1, <3>2
  <2> QED
    BY <1>2, <2>5, <2>7 DEF S
<1> QED
  BY <1>3, <1>4, <1>5, <1>6 DEF Priced

(* A hop pays no more than the reference allows it, for the amount that was    *)
(* quoted or any larger one.                                                *)
LEMMA HopBelow ==
  ASSUME NEW pool, Stored(pool), NEW in \in Nat \ {0}, NEW ab \in BOOLEAN,
         Quote(pool, in, ab) # None, NEW amount \in Nat, in <= amount
  PROVE  /\ Quote(pool, in, ab) \in Nat /\ Above(pool, in, ab, amount) \in Nat
         /\ Quote(pool, in, ab) <= Above(pool, in, ab, amount)
<1> DEFINE by  == QuotedBy(pool, in, ab)
           out == Quote(pool, in, ab)
           gain == RoundingGain(by, pool, ab)
<1>1. Bounded(by, out, pool, in, ab)
  BY QuoteBounded
<1>2. Above(pool, in, ab, amount) = Spot(by, pool, amount, ab) + gain
  BY DEF Above
<1> HIDE DEF by, out
<1>3. /\ Priced(by, pool, ab) /\ out \in Nat /\ Spot(by, pool, in, ab) \in Nat /\ gain \in Nat
      /\ out <= Spot(by, pool, in, ab) + gain
  BY <1>1 DEF Bounded
<1>4. Spot(by, pool, in, ab) <= Spot(by, pool, amount, ab) /\ Spot(by, pool, amount, ab) \in Nat
  BY <1>3, SpotGrows
<1> HIDE DEF gain
<1> QED
  BY <1>2, <1>3, <1>4 DEF out

-----------------------------------------------------------------------------
(* Along the hops of a simulation.                                           *)

(* The mint that hop i of a path over pools is given.                        *)
MintBefore(pools, i) == MintsFold(Wsol, SubSeq(pools, 1, i - 1))

IsPoolSeq(pools) ==
  /\ \E S : pools \in Seq(S)
  /\ \A i \in 1..Len(pools) : IsPoolState(pools[i])

(* Each of outs after the first is what its hop pays for the one before.     *)
Quoting(pools, outs) ==
  /\ IsPoolSeq(pools)
  /\ outs \in Seq(Nat \ {0}) /\ Len(outs) \in 1..(Len(pools) + 1)
  /\ \A i \in 1..(Len(outs) - 1) : outs[i + 1] = Pay(pools[i], MintBefore(pools, i), outs[i])

(* What the reference comes to, hop by hop.                                  *)
PastHops(w, pools, ins) ==
  /\ w[0] = [mint |-> Wsol, amount |-> ins[1]]
  /\ \A i \in 0..(Len(pools) - 1) : w[i + 1] = PastHop(w[i], i + 1, pools, ins)

(* The reference passes the same mints as the simulation.                     *)
LEMMA SameMints ==
  ASSUME NEW pools, IsPoolSeq(pools), NEW ins, NEW w, PastHops(w, pools, ins),
         NEW n \in 0..Len(pools)
  PROVE  MintBefore(pools, n + 1) = w[n].mint
<1> DEFINE seq == SubSeq(pools, 1, n)
<1>1. /\ n \in Nat /\ Len(pools) \in Nat
      /\ DOMAIN seq = 1..n /\ \A i \in 1..n : seq[i] = pools[i]
  BY DEF IsPoolSeq
<1> HIDE DEF seq
<1> DEFINE end == MintsFold(Wsol, seq)
<1>2. end = MintsFold(Wsol, seq)
  OBVIOUS
<1> HIDE DEF end
<1>3. PICK v : /\ v[0] = Wsol /\ end = v[n]
               /\ \A i \in 0..(n - 1) : v[i + 1] = OtherToken(seq[i + 1], v[i])
  <2>1. \E v : /\ v[0] = Wsol /\ MintsFold(Wsol, seq) = v[n]
               /\ \A i \in 0..(n - 1) : v[i + 1] = OtherToken(seq[i + 1], v[i])
    BY <1>1, MintsWalked
  <2> QED
    BY <1>2, <2>1
<1> DEFINE S == {k \in Nat : k <= n => v[k] = w[k].mint}
<1>4. 0 \in S
  BY <1>3 DEF PastHops
<1>5. ASSUME NEW k \in Nat, k \in S PROVE k + 1 \in S
  <2> SUFFICES ASSUME k + 1 <= n PROVE v[k + 1] = w[k + 1].mint
    OBVIOUS
  <2>1. v[k] = w[k].mint
    BY <1>5
  <2>2. k \in 0..(n - 1) /\ k \in 0..(Len(pools) - 1) /\ k + 1 \in 1..n
    BY <1>1
  <2>3. v[k + 1] = OtherToken(pools[k + 1], v[k])
    BY <1>1, <1>3, <2>2
  <2>4. w[k + 1] = PastHop(w[k], k + 1, pools, ins)
    BY <2>2 DEF PastHops
  <2>5. w[k + 1].mint = OtherToken(pools[k + 1], w[k].mint)
    BY <2>4 DEF PastHop
  <2> QED
    BY <2>1, <2>3, <2>5
<1>6. Nat \subseteq S
  <2> HIDE DEF S
  <2> QED
    BY <1>4, <1>5, SetInduction
<1>7. v[n] = w[n].mint
  BY <1>1, <1>6
<1>8. MintBefore(pools, n + 1) = end
  <2>1. (n + 1) - 1 = n
    BY <1>1
  <2> QED
    BY <1>2, <2>1 DEF MintBefore, seq
<1> QED
  BY <1>3, <1>7, <1>8

(* What a hop of a simulation pays.                                          *)
LEMMA HopPays ==
  ASSUME NEW pool, IsPoolState(pool), NEW mint, NEW in \in Nat \ {0},
         Pay(pool, mint, in) \notin {None, 0}
  PROVE  Pay(pool, mint, in) \in Nat \ {0}
<1> DEFINE ab == pool.mintA = mint
<1>1. Pay(pool, mint, in) = Quote(pool, in, ab) /\ ab \in BOOLEAN
  BY DEF Pay
<1>2. Stored(pool)
  BY StoredIs
<1> HIDE DEF ab
<1>3. Quote(pool, in, ab) # None
  BY <1>1
<1>4. Quote(pool, in, ab) \in Nat
  BY <1>1, <1>2, <1>3, HopBelow
<1> QED
  BY <1>1, <1>4

(* A cycle pays no more than the reference does along the same pools.         *)
LEMMA CycleBelow ==
  ASSUME NEW pools, NEW outs, Quoting(pools, outs), Len(outs) = Len(pools) + 1
  PROVE  SpotAlong(pools, outs) \in Nat /\ Last(outs) <= SpotAlong(pools, outs)
<1> DEFINE N == Len(pools)
           base == [mint |-> Wsol, amount |-> outs[1]]
           seq == [i \in 1..N |-> i]
           end == HopsFold(pools, outs, base, seq)
<1>1. /\ N \in Nat /\ IsPoolSeq(pools)
      /\ \A i \in 1..(N + 1) : outs[i] \in Nat \ {0}
      /\ \A i \in 1..N : outs[i + 1] = Pay(pools[i], MintBefore(pools, i), outs[i])
      /\ Last(outs) = outs[N + 1]
  BY DEF Quoting, IsPoolSeq, Last
<1>2. DOMAIN seq = 1..N /\ \A i \in 1..N : seq[i] = i
  OBVIOUS
<1>3. base.mint = Wsol /\ base.amount = outs[1]
  OBVIOUS
<1>4. SpotAlong(pools, outs) = end.amount
  BY Zenon DEF SpotAlong, HopsFold
<1>5. end = HopsFold(pools, outs, base, seq)
  OBVIOUS
<1> HIDE DEF end, base, seq
<1>6. PICK w : /\ w[0] = base /\ end = w[N]
               /\ \A i \in 0..(N - 1) : w[i + 1] = PastHop(w[i], seq[i + 1], pools, outs)
  <2>1. \E w : /\ w[0] = base /\ HopsFold(pools, outs, base, seq) = w[N]
               /\ \A i \in 0..(N - 1) : w[i + 1] = PastHop(w[i], seq[i + 1], pools, outs)
    BY <1>1, <1>2, HopsWalked, SMTT(60)
  <2> QED
    BY <1>5, <2>1
<1>7. PastHops(w, pools, outs)
  <2>1. ASSUME NEW i \in 0..(N - 1) PROVE w[i + 1] = PastHop(w[i], i + 1, pools, outs)
    <3>1. i + 1 \in 1..N
      BY <1>1
    <3> QED
      BY <1>2, <1>6, <3>1
  <2>2. w[0] = [mint |-> Wsol, amount |-> outs[1]]
    BY <1>6 DEF base
  <2> QED
    BY <2>1, <2>2 DEF PastHops
<1> DEFINE S == {n \in Nat : n <= N => w[n].amount \in Nat /\ outs[n + 1] <= w[n].amount}
<1>8. 0 \in S
  BY <1>1, <1>3, <1>6
<1>9. ASSUME NEW n \in Nat, n \in S PROVE n + 1 \in S
  <2> SUFFICES ASSUME n + 1 <= N
               PROVE  w[n + 1].amount \in Nat /\ outs[n + 2] <= w[n + 1].amount
    OBVIOUS
  <2> DEFINE pool == pools[n + 1]
             in == outs[n + 1]
             amount == w[n].amount
             ab == pool.mintA = w[n].mint
  <2>1. n \in 0..(N - 1) /\ n + 1 \in 1..N /\ n \in 0..N /\ n + 1 \in 1..(N + 1)
    BY <1>1
  <2>2. in \in Nat \ {0} /\ amount \in Nat /\ in <= amount
    BY <1>1, <1>9, <2>1
  <2>3. IsPoolState(pool)
    BY <1>1, <2>1 DEF IsPoolSeq
  <2>4. Stored(pool)
    BY <2>3, StoredIs
  <2>5. MintBefore(pools, n + 1) = w[n].mint
    BY <1>1, <1>7, <2>1, SameMints
  <2>6. outs[n + 2] = Pay(pool, w[n].mint, in)
    <3>1. outs[(n + 1) + 1] = Pay(pools[n + 1], MintBefore(pools, n + 1), outs[n + 1])
      BY <1>1, <2>1
    <3>2. (n + 1) + 1 = n + 2
      OBVIOUS
    <3> QED
      BY <2>5, <3>1, <3>2
  <2>7. outs[n + 2] = Quote(pool, in, ab) /\ ab \in BOOLEAN
    BY <2>6 DEF Pay
  <2>8. outs[n + 2] \in Nat \ {0}
    BY <1>1, <2>1
  <2>9. w[n + 1].amount = Above(pool, in, ab, amount)
    <3> DEFINE most == Above(pool, in, ab, amount)
    <3>1. w[n + 1] = PastHop(w[n], n + 1, pools, outs)
      BY <1>7, <2>1 DEF PastHops
    <3>2. PastHop(w[n], n + 1, pools, outs) =
            [mint |-> OtherToken(pool, w[n].mint), amount |-> most]
      BY Zenon DEF PastHop
    <3> HIDE DEF most
    <3>3. w[n + 1].amount = most
      BY <3>1, <3>2
    <3> QED
      BY <3>3 DEF most
  <2> HIDE DEF pool, in, amount, ab
  <2>10. Quote(pool, in, ab) # None
    BY <2>7, <2>8 DEF None
  <2>11. Above(pool, in, ab, amount) \in Nat /\ Quote(pool, in, ab) <= Above(pool, in, ab, amount)
    BY <2>2, <2>4, <2>7, <2>10, HopBelow
  <2> QED
    BY <2>7, <2>9, <2>11
<1>10. Nat \subseteq S
  <2> HIDE DEF S
  <2> QED
    BY <1>8, <1>9, SetInduction
<1> QED
  BY <1>1, <1>4, <1>6, <1>10

(* A decision to accept leaves the input, the tip and the least profit.       *)
LEMMA DecideKeeps ==
  ASSUME NEW route, NEW outs, route.input \in Nat, Last(outs) \in Nat,
         floor \in Floors, Decide(route, outs).accepted
  PROVE  LET d == Decide(route, outs)
         IN  /\ d.outs = outs
             /\ Last(outs) >= d.input + d.tip + MinProfit
             /\ d.input \in Nat /\ d.tip \in Nat
<1> DEFINE gross == Last(outs) - route.input
           f == <<Slippage[2] - Slippage[1], Slippage[2]>>
           adjusted == Portion(gross, f)
           share == Portion(adjusted, TipFraction)
           tip == IF share > EffectiveMinTip THEN share ELSE EffectiveMinTip
           d == Decide(route, outs)
<1>1. /\ gross > 0 /\ ~ (tip >= adjusted) /\ ~ (adjusted - tip < MinProfit)
      /\ d.outs = outs /\ d.input = route.input /\ d.tip = tip
  <2> HIDE DEF adjusted, tip, f
  <2>1. d = IF \/ \E i \in DOMAIN outs : outs[i] \in {None, 0}
               \/ gross <= 0
               \/ gross > MaxSaneProfit
               \/ tip >= adjusted
               \/ adjusted - tip < MinProfit
            THEN Rejected
            ELSE [accepted |-> TRUE, path |-> route.path, input |-> route.input, outs |-> outs,
                  tip |-> tip, minOut |-> route.input]
    BY Zenon DEF Decide, adjusted, tip, f
  <2> HIDE DEF d, gross
  <2>2. d.accepted
    BY DEF d
  <2>3. ~ Rejected.accepted
    BY DEF Rejected
  <2>4. gross \in Int
    BY DEF gross
  <2> QED
    BY <2>1, <2>2, <2>3, <2>4
<1>2. gross \in Nat /\ gross + route.input = Last(outs)
  BY <1>1
<1>3. /\ f[1] \in Nat /\ f[2] \in Nat \ {0} /\ f[1] <= f[2]
      /\ TipFraction[1] \in Nat /\ TipFraction[2] \in Nat \ {0} /\ MinTip \in Nat /\ MinProfit \in Nat
      /\ floor \in Nat \cup {None}
  <2>1. Slippage[1] \in 0..Slippage[2] /\ Slippage[2] \in Nat \ {0}
    BY SearchAssumption
  <2>2. TipFraction[1] \in 0..TipFraction[2] /\ TipFraction[2] \in Nat \ {0}
    BY SearchAssumption
  <2>3. f[1] = Slippage[2] - Slippage[1] /\ f[2] = Slippage[2]
    OBVIOUS
  <2> HIDE DEF f
  <2>4. {MinTip, MinProfit} \subseteq Nat /\ Floors \subseteq Nat \cup {None}
    BY SearchAssumption
  <2> QED
    BY <2>1, <2>2, <2>3, <2>4
<1> HIDE DEF gross, f, d
<1>4. adjusted \in Nat /\ adjusted <= gross
  <2>1. gross * f[1] \in Nat /\ gross * f[2] \in Nat
    BY <1>2, <1>3, ProductType
  <2>2. gross * f[1] <= gross * f[2]
    <3>1. f[1] * gross <= f[2] * gross
      BY <1>2, <1>3, ProductOrder
    <3> QED
      BY <1>2, <1>3, <3>1
  <2>3. adjusted \in Nat /\ adjusted * f[2] <= gross * f[1]
    BY <1>3, <2>1, QuotientType DEF Portion
  <2> HIDE DEF adjusted
  <2>4. adjusted * f[2] \in Nat
    BY <1>3, <2>3, ProductType
  <2>5. adjusted * f[2] <= gross * f[2]
    BY <2>1, <2>2, <2>3, <2>4
  <2> QED
    BY <1>2, <1>3, <2>3, <2>5, ProductCancel
<1>5. tip \in Nat
  <2>1. share \in Nat
    <3> HIDE DEF adjusted
    <3>1. adjusted * TipFraction[1] \in Nat
      BY <1>3, <1>4, ProductType
    <3> QED
      BY <1>3, <3>1, QuotientType DEF Portion
  <2>2. EffectiveMinTip \in Nat
    BY <1>3 DEF EffectiveMinTip
  <2> HIDE DEF share
  <2> QED
    BY <2>1, <2>2
<1> HIDE DEF adjusted, tip
<1>6. gross >= tip + MinProfit
  BY <1>1, <1>2, <1>3, <1>4, <1>5
<1> QED
  BY <1>1, <1>2, <1>3, <1>5, <1>6 DEF d
(* The cache holds of a pool what the pool may be.                          *)

CacheInv == \A p \in Pools : cache[p] \in Contents[p]

(* No input is zero.                                                         *)
LEMMA InputsPositive == Inputs \subseteq Nat \ {0}
<1>1. MaxU64 \div 4 \in Nat
  BY QuoteAssumption DEF MaxU64
<1> QED
  BY <1>1 DEF Inputs

(* Whatever that is, it is what parsers and caches store of a pool.          *)
LEMMA CachedState ==
  ASSUME CacheInv, NEW p \in Pools PROVE IsPoolState(cache[p])
BY SearchAssumption DEF CacheInv, Pools

(* Only the stream writes to the cache.                                     *)
LEMMA NextCache ==
  ASSUME CacheInv, [Next]_vars PROVE CacheInv'
<1>1. CASE UNCHANGED cache
  BY <1>1 DEF CacheInv, Pools
<1>2. ASSUME NEW p \in Pools, Refresh(p) PROVE CacheInv'
  BY <1>2 DEF CacheInv, Refresh, Pools
<1>3. CASE Search \/ SearchDeeper
  BY <1>1, <1>3 DEF Search, SearchDeeper
<1>4. CASE Simulate \/ ReadPool \/ QuoteHop \/ Conclude
  BY <1>1, <1>4, Zenon
  DEF Simulate, ReadPool, QuoteHop, Conclude
<1>5. CASE FloorMoves \/ UNCHANGED vars
  BY <1>1, <1>5 DEF FloorMoves, vars
<1> QED
  BY <1>2, <1>3, <1>4, <1>5 DEF Next

(* Every constant-product quote of what is cached.                           *)
LEMMA CachedQuotesExact ==
  ASSUME CacheInv, NEW p \in Pools, NEW in \in Nat \ {0}, NEW ab \in BOOLEAN
  PROVE  ExactAt(cache[p], in, ab)
<1> DEFINE pool == cache[p]
           rin == IF ab THEN pool.a ELSE pool.b
           rout == IF ab THEN pool.b ELSE pool.a
           net == in * (Bps - pool.fee)
<1>1. pool.a \in Nat /\ pool.b \in Nat /\ pool.fee \in Nat
  <2>1. 0..MaxU64 \subseteq Nat /\ IsPoolState(pool)
    BY CachedState
  <2> QED
    BY <2>1 DEF IsPoolState
<1> HIDE DEF pool
<1>2. ASSUME pool.dex = "RaydiumAmm", rin * rout > 0, pool.fee <= Bps,
             rout * net < U128, rin * Bps + net < U128
      PROVE  Quote(pool, in, ab) =
               Max({x \in 0..rout : (rin * Bps + net) * (rout - x) >= rin * Bps * rout})
  <2>1. pool.fee \in 0..Bps
    BY <1>1, <1>2, QuoteAssumption
  <2> QED
    BY <1>1, <1>2, <2>1, CpmmLargest
<1>3. ExactAt(pool, in, ab)
  BY <1>2 DEF ExactAt
<1> QED
  BY <1>3 DEF pool

(* Unless a product overflows a u128, a constant-product quote of any pool    *)
(* the cache may hold is the most the pool can pay without its product       *)
(* falling, for any fee and reserves. (cpmm::quote)                          *)
THEOREM ExactQuotes == Spec => []CpmmExact
<1>1. Init => CacheInv
  BY DEF Init, CacheInv, Pools
<1>2. CacheInv /\ [Next]_vars => CacheInv'
  BY NextCache
<1>3. CacheInv => CpmmExact
  BY InputsPositive, CachedQuotesExact DEF CpmmExact
<1> QED
  BY <1>1, <1>2, <1>3, PTL DEF Spec

-----------------------------------------------------------------------------
(* What a simulation goes through.                                           *)

IsRoute(route) == route.path \in Seq(Pools) /\ route.input \in Nat \ {0}

(* No hop is quoted before all pools are read.                               *)
UnderWay(s) ==
  /\ s = [route |-> s.route, read |-> s.read, outs |-> s.outs]
  /\ IsRoute(s.route)
  /\ Quoting(s.read, s.outs)
  /\ Len(s.read) <= Len(s.route.path)
  /\ Len(s.outs) > 1 => Len(s.read) = Len(s.route.path)

SpreadInv ==
  /\ CacheInv
  /\ floor \in Floors
  /\ \A r \in routes : IsRoute(r)
  /\ sim = NoSimulation \/ UnderWay(sim)
  /\ AcceptedHasSpread

(* The search gives cycles of pools and an input that is not zero.            *)
LEMMA SomeOf == ASSUME NEW S, NEW n, NEW T \in AnyOf(S, n) PROVE T \subseteq S
BY DEF AnyOf, kSubset

(* The input of a cycle of two pools is not zero.                            *)
LEMMA InputPositive ==
  ASSUME CacheInv, NEW p \in Pools, NEW q \in Pools PROVE OptimalInput(p, q) \in Nat \ {0}
<1>1. {cache[p].a, cache[p].b, cache[q].a, cache[q].b} \subseteq Nat
  <2>1. 0..MaxU64 \subseteq Nat
    OBVIOUS
  <2>2. IsPoolState(cache[p]) /\ IsPoolState(cache[q])
    BY CachedState
  <2> QED
    BY <2>1, <2>2 DEF IsPoolState
<1> DEFINE least == Least(BaseReserve(p), BaseReserve(q))
<1>2. least \in Nat
  BY <1>1 DEF Least, BaseReserve
<1>3. ReserveShare \in Nat \ {0} /\ MinInput \in Nat \ {0}
  BY SearchAssumption
<1> HIDE DEF least
<1> DEFINE share == least \div ReserveShare
<1>4. share \in Nat
  BY <1>2, <1>3, QuotientType
<1>5. OptimalInput(p, q) = IF share > MinInput THEN share ELSE MinInput
  BY DEF OptimalInput, least
<1> HIDE DEF share
<1> QED
  BY <1>3, <1>4, <1>5

(* What the search keeps, of paths of pools and inputs that are not zero.    *)
LEMMA FoundAreRoutes ==
  ASSUME NEW input, \A path \in DOMAIN input : path \in Seq(Pools) /\ input[path] \in Nat \ {0},
         NEW r \in Profitable(input)
  PROVE  IsRoute(r)
<1>1. PICK path \in DOMAIN input : r = [path |-> path, input |-> input[path],
                                        outs |-> Amounts(cache, path, input[path])]
  BY DEF Profitable
<1> QED
  BY <1>1 DEF IsRoute

(* Cycles of two pools.                                                      *)
LEMMA TwoHopRoutes ==
  ASSUME CacheInv, NEW near \in SUBSET Pools, NEW r \in Profitable(TwoHopInputs(near))
  PROVE  IsRoute(r)
<1>1. ASSUME NEW path \in DOMAIN TwoHopInputs(near)
      PROVE  path \in Seq(Pools) /\ TwoHopInputs(near)[path] \in Nat \ {0}
  <2>1. path \in TwoHopPaths(near) /\ TwoHopInputs(near)[path] = OptimalInput(path[1], path[2])
    BY DEF TwoHopInputs
  <2>2. PICK p \in near, q \in Pools : path = <<p, q>>
    BY <2>1 DEF TwoHopPaths, PoolsForPair, PoolsForToken
  <2> QED
    BY <2>1, <2>2, InputPositive
<1> QED
  BY <1>1, FoundAreRoutes

(* Cycles of three pools.                                                    *)
LEMMA ThreeHopRoutes ==
  ASSUME NEW near \in SUBSET Pools, NEW mids,
         NEW r \in Profitable([path \in ThreeHopPaths(near, mids) |-> TestAmount])
  PROVE  IsRoute(r)
<1> DEFINE input == [path \in ThreeHopPaths(near, mids) |-> TestAmount]
<1>1. ASSUME NEW path \in DOMAIN input
      PROVE  path \in Seq(Pools) /\ input[path] \in Nat \ {0}
  <2>1. path \in near \X Pools \X Pools
    BY DEF ThreeHopPaths
  <2>2. input[path] = TestAmount /\ TestAmount \in Nat \ {0}
    BY SearchAssumption
  <2>3. PICK x \in near, y \in Pools, z \in Pools : path = <<x, y, z>>
    BY <2>1
  <2>4. path \in Seq(Pools)
    BY <2>3
  <2> HIDE DEF input
  <2> QED
    BY <2>2, <2>4
<1> HIDE DEF input
<1> QED
  BY <1>1, FoundAreRoutes DEF input

(* Every search returns routes.                                              *)
LEMMA SearchRoutes ==
  ASSUME CacheInv, Search \/ SearchDeeper, NEW r \in routes' PROVE IsRoute(r)
<1>1. CASE Search
  <2>1. PICK near \in AnyOf(PoolsForToken(Wsol), MaxPoolsPerToken) :
             \E two \in AnyOf(Profitable(TwoHopInputs(near)), EarlyExit) : routes' = two
    BY <1>1 DEF Search
  <2>2. near \subseteq Pools
    BY SomeOf DEF PoolsForToken
  <2>3. r \in Profitable(TwoHopInputs(near))
    BY <2>1, SomeOf
  <2> QED
    BY <2>2, <2>3, TwoHopRoutes
<1>2. CASE SearchDeeper
  <2>1. PICK near \in AnyOf(PoolsForToken(Wsol), MaxPoolsPerToken),
             near3 \in AnyOf(PoolsForToken(Wsol), MaxPoolsPerToken) :
          \E mids \in [{OtherToken(cache[p], Wsol) : p \in near3} -> SUBSET Pools] :
            \E two \in AnyOf(Profitable(TwoHopInputs(near)), EarlyExit) :
              \E three \in AnyOf(Profitable([path \in ThreeHopPaths(near3, mids) |-> TestAmount]),
                                 EarlyExit - Cardinality(two)) :
                routes' = two \cup three
    BY <1>2, Zenon DEF SearchDeeper
  <2>2. PICK mids : \E two \in AnyOf(Profitable(TwoHopInputs(near)), EarlyExit) :
              \E three \in AnyOf(Profitable([path \in ThreeHopPaths(near3, mids) |-> TestAmount]),
                                 EarlyExit - Cardinality(two)) :
                routes' = two \cup three
    BY <2>1, Zenon
  <2> DEFINE threes == Profitable([path \in ThreeHopPaths(near3, mids) |-> TestAmount])
  <2>3. PICK two \in AnyOf(Profitable(TwoHopInputs(near)), EarlyExit) :
               \E three \in AnyOf(threes, EarlyExit - Cardinality(two)) : routes' = two \cup three
    BY <2>2, Zenon
  <2>4. PICK three \in AnyOf(threes, EarlyExit - Cardinality(two)) : routes' = two \cup three
    BY <2>3, Zenon
  <2> HIDE DEF threes
  <2>5. near \subseteq Pools /\ near3 \subseteq Pools
    BY SomeOf DEF PoolsForToken
  <2>6. r \in Profitable(TwoHopInputs(near)) \/ r \in threes
    <3>1. two \subseteq Profitable(TwoHopInputs(near)) /\ three \subseteq threes
      BY SomeOf
    <3> QED
      BY <2>4, <3>1
  <2>7. CASE r \in Profitable(TwoHopInputs(near))
    BY <2>5, <2>7, TwoHopRoutes
  <2>8. CASE r \in threes
    BY <2>5, <2>8, ThreeHopRoutes DEF threes
  <2> QED
    BY <2>6, <2>7, <2>8
<1> QED
  BY <1>1, <1>2

(* A simulation begins with the input of its route and reads pool by pool.    *)
LEMMA SimulateUnderWay ==
  ASSUME SpreadInv, Simulate PROVE UnderWay(sim')
<1>1. PICK route \in routes : sim' = [route |-> route, read |-> <<>>, outs |-> <<route.input>>]
  BY DEF Simulate
<1> DEFINE s == [route |-> route, read |-> <<>>, outs |-> <<route.input>>]
<1>2. s.route = route /\ s.read = <<>> /\ s.outs = <<route.input>>
  OBVIOUS
<1>3. IsRoute(route)
  BY DEF SpreadInv
<1>4. s = [route |-> s.route, read |-> s.read, outs |-> s.outs]
  OBVIOUS
<1> HIDE DEF s
<1>5. IsPoolSeq(s.read) /\ Len(s.read) = 0
  <2>1. <<>> \in Seq({})
    OBVIOUS
  <2> QED
    BY <1>2, <2>1 DEF IsPoolSeq
<1>6. s.outs \in Seq(Nat \ {0}) /\ Len(s.outs) = 1
  BY <1>2, <1>3 DEF IsRoute
<1>7. Quoting(s.read, s.outs)
  BY <1>5, <1>6 DEF Quoting
<1>8. Len(route.path) \in Nat
  BY <1>3 DEF IsRoute
<1>9. UnderWay(s)
  BY <1>2, <1>3, <1>4, <1>5, <1>6, <1>7, <1>8 DEF UnderWay
<1> QED
  BY <1>1, <1>9 DEF s

(* One pool more.                                                            *)
LEMMA MorePools ==
  ASSUME NEW pools, IsPoolSeq(pools), NEW pool, IsPoolState(pool)
  PROVE  IsPoolSeq(Append(pools, pool)) /\ Len(Append(pools, pool)) = Len(pools) + 1
<1>1. PICK S : pools \in Seq(S)
  BY DEF IsPoolSeq
<1> DEFINE T == S \cup {pool}
           more == Append(pools, pool)
<1>2. pools \in Seq(T) /\ pool \in T
  BY <1>1
<1> HIDE DEF T
<1>3. /\ more \in Seq(T) /\ Len(more) = Len(pools) + 1 /\ Len(pools) \in Nat
      /\ \A i \in 1..Len(pools) : more[i] = pools[i]
      /\ more[Len(pools) + 1] = pool
  BY <1>2
<1> HIDE DEF more
<1>4. \A i \in 1..Len(more) : IsPoolState(more[i])
  <2> SUFFICES ASSUME NEW i \in 1..Len(more) PROVE IsPoolState(more[i])
    OBVIOUS
  <2>1. CASE i \in 1..Len(pools)
    BY <1>3, <2>1 DEF IsPoolSeq
  <2>2. CASE i = Len(pools) + 1
    BY <1>3, <2>2
  <2> QED
    BY <1>3, <2>1, <2>2
<1> QED
  BY <1>3, <1>4 DEF IsPoolSeq, more

(* What is ahead is what has not been read.                                  *)
LEMMA AheadIs ==
  ASSUME NEW path \in Seq(Pools), NEW n \in Nat, n <= Len(path)
  PROVE  LET ahead == SubSeq(path, n + 1, Len(path))
         IN  /\ (ahead = <<>>) <=> (n = Len(path))
             /\ n < Len(path) => Head(ahead) = path[n + 1] /\ path[n + 1] \in Pools
<1>1. CASE n = Len(path)
  BY <1>1
<1>2. CASE n < Len(path)
  <2> DEFINE ahead == SubSeq(path, n + 1, Len(path))
  <2>1. Len(ahead) = Len(path) - n /\ ahead \in Seq(Pools) /\ ahead[1] = path[n + 1]
    BY <1>2
  <2> HIDE DEF ahead
  <2>2. ahead # <<>> /\ Head(ahead) = ahead[1]
    BY <1>2, <2>1
  <2>3. path[n + 1] \in Pools
    BY <1>2
  <2> QED
    BY <1>2, <2>1, <2>2, <2>3 DEF ahead
<1> QED
  BY <1>1, <1>2

(* Reading a pool.                                                           *)
LEMMA ReadPoolUnderWay ==
  ASSUME SpreadInv, ReadPool PROVE UnderWay(sim')
<1>1. /\ UnderWay(sim) /\ Ahead # <<>>
      /\ sim' = [sim EXCEPT !.read = Append(@, cache[Head(Ahead)])]
  BY DEF ReadPool, SpreadInv
<1> DEFINE path == sim.route.path
           n == Len(sim.read)
           pool == cache[Head(Ahead)]
           read == Append(sim.read, pool)
           s == [route |-> sim.route, read |-> read, outs |-> sim.outs]
<1>2. path \in Seq(Pools) /\ n \in Nat /\ n <= Len(path) /\ IsPoolSeq(sim.read)
  BY <1>1 DEF UnderWay, IsRoute, Quoting, IsPoolSeq
<1>3. n < Len(path) /\ Head(Ahead) \in Pools
  <2>1. Ahead = SubSeq(path, n + 1, Len(path))
    BY DEF Ahead
  <2> HIDE DEF path, n
  <2> QED
    BY <1>1, <1>2, <2>1, AheadIs
<1>4. IsPoolState(pool)
  BY <1>3, CachedState DEF SpreadInv
<1>5. IsPoolSeq(read) /\ Len(read) = n + 1
  <2> HIDE DEF pool
  <2> QED
    BY <1>2, <1>4, MorePools
<1>6. sim' = s
  BY <1>1 DEF UnderWay
<1>7. Len(sim.outs) = 1 /\ sim.outs \in Seq(Nat \ {0})
  <2>1. Len(sim.outs) > 1 => n = Len(path)
    BY <1>1 DEF UnderWay
  <2>2. sim.outs \in Seq(Nat \ {0}) /\ Len(sim.outs) \in 1..(n + 1)
    BY <1>1 DEF UnderWay, Quoting
  <2>3. Len(path) \in Nat /\ Len(sim.outs) \in Nat
    BY <1>2, <2>2
  <2> DEFINE l == Len(path)
             m == Len(sim.outs)
  <2>4. (m > 1 => n = l) /\ m \in 1..(n + 1) /\ l \in Nat /\ n \in Nat /\ n < l
    BY <1>2, <1>3, <2>1, <2>2, <2>3
  <2> HIDE DEF n, l, m
  <2>5. m = 1
    BY <2>4
  <2> QED
    BY <2>2, <2>5 DEF m
<1>8. s.route = sim.route /\ s.read = read /\ s.outs = sim.outs
      /\ s = [route |-> s.route, read |-> s.read, outs |-> s.outs]
  OBVIOUS
<1> HIDE DEF s, read
<1> HIDE DEF n, path
<1>9. Quoting(read, sim.outs)
  BY <1>2, <1>5, <1>7 DEF Quoting
<1>10. IsRoute(sim.route)
  BY <1>1 DEF UnderWay
<1>11. n + 1 <= Len(path)
  BY <1>2, <1>3
<1>12. UnderWay(s)
  <2>1. Len(s.read) <= Len(s.route.path) /\ Len(s.outs) = 1
    BY <1>5, <1>7, <1>8, <1>11 DEF path
  <2>2. IsRoute(s.route) /\ Quoting(s.read, s.outs)
    BY <1>8, <1>9, <1>10
  <2> QED
    BY <1>8, <2>1, <2>2 DEF UnderWay
<1> QED
  BY <1>6, <1>12

(* A hop replaces the ticks and bins of its pool, and adds what it pays.       *)
LEMMA FreshPool ==
  ASSUME NEW old, IsPoolState(old), NEW new, IsPoolState(new)
  PROVE  IsPoolState([old EXCEPT !.ticks = new.ticks, !.bins = new.bins])
<1> DEFINE pool == [old EXCEPT !.ticks = new.ticks, !.bins = new.bins]
<1>1. {"dex", "mintA", "mintB", "fee", "a", "b", "bid", "ask", "tick", "price", "liq",
       "ticks", "bins"} = DOMAIN old
  BY DEF IsPoolState
<1>2. /\ DOMAIN pool = DOMAIN old
      /\ pool.a = old.a /\ pool.b = old.b /\ pool.fee = old.fee /\ pool.price = old.price
      /\ pool.liq = old.liq /\ pool.bid = old.bid /\ pool.ask = old.ask
      /\ pool.ticks = new.ticks /\ pool.bins = new.bins
  BY <1>1
<1> HIDE DEF pool
<1>3. IsPoolState(pool)
  BY <1>2 DEF IsPoolState
<1> QED
  BY <1>3 DEF pool

(* Replacing one of the pools leaves the others and the mints before it.     *)
LEMMA OtherPool ==
  ASSUME NEW pools, IsPoolSeq(pools), NEW k \in 1..Len(pools), NEW pool, IsPoolState(pool),
         NEW read, read = [pools EXCEPT ![k] = pool]
  PROVE  /\ IsPoolSeq(read) /\ Len(read) = Len(pools) /\ read[k] = pool
         /\ \A i \in 1..Len(pools) : i # k => read[i] = pools[i]
         /\ \A i \in 1..k : MintBefore(read, i) = MintBefore(pools, i)
<1>1. PICK S : pools \in Seq(S)
  BY DEF IsPoolSeq
<1> DEFINE T == S \cup {pool}
<1>2. pools \in Seq(T) /\ pool \in T /\ Len(pools) \in Nat
  BY <1>1
<1> HIDE DEF T
<1>3. /\ read \in Seq(T) /\ Len(read) = Len(pools) /\ read[k] = pool
      /\ \A i \in 1..Len(pools) : i # k => read[i] = pools[i]
  BY <1>2
<1>4. IsPoolSeq(read)
  <2>1. ASSUME NEW i \in 1..Len(read) PROVE IsPoolState(read[i])
    BY <1>3 DEF IsPoolSeq
  <2> QED
    BY <1>3, <2>1 DEF IsPoolSeq
<1>5. ASSUME NEW i \in 1..k PROVE MintBefore(read, i) = MintBefore(pools, i)
  <2> DEFINE a == SubSeq(read, 1, i - 1)
             b == SubSeq(pools, 1, i - 1)
  <2>1. /\ a \in Seq(T) /\ b \in Seq(T) /\ Len(a) = i - 1 /\ Len(b) = i - 1 /\ i - 1 \in Nat
        /\ \A j \in 1..(i - 1) : a[j] = read[j] /\ b[j] = pools[j]
    BY <1>2, <1>3
  <2>2. \A j \in 1..(i - 1) : a[j] = b[j]
    <3> SUFFICES ASSUME NEW j \in 1..(i - 1) PROVE a[j] = b[j]
      OBVIOUS
    <3>1. j \in 1..Len(pools) /\ j # k
      BY <1>2
    <3> HIDE DEF a, b
    <3> QED
      BY <1>3, <2>1, <3>1
  <2> HIDE DEF a, b
  <2>3. a = b
    BY <2>1, <2>2
  <2> QED
    BY <2>3 DEF MintBefore, a, b
<1> QED
  BY <1>3, <1>4, <1>5

(* Quoting a hop.                                                            *)
LEMMA QuoteHopUnderWay ==
  ASSUME SpreadInv, QuoteHop PROVE sim' = NoSimulation \/ UnderWay(sim')
<1> DEFINE k == Len(sim.outs)
           path == sim.route.path
           p == path[k]
           mint == MintBefore(sim.read, k)
           pool == [sim.read[k] EXCEPT !.ticks = cache[p].ticks, !.bins = cache[p].bins]
           out == Pay(pool, mint, Last(sim.outs))
           read == [sim.read EXCEPT ![k] = pool]
           outs == Append(sim.outs, out)
           s == [route |-> sim.route, read |-> read, outs |-> outs]
<1>1. /\ UnderWay(sim) /\ Ahead = <<>> /\ k <= Len(sim.read)
      /\ sim' = IF out \in {None, 0} THEN NoSimulation
                ELSE [sim EXCEPT !.outs = Append(@, out), !.read[k] = pool]
  <2>1. UnderWay(sim)
    BY DEF QuoteHop, SpreadInv
  <2>2. /\ Ahead = <<>> /\ k <= Len(sim.read)
        /\ sim' = IF out \in {None, 0} THEN NoSimulation
                  ELSE [sim EXCEPT !.outs = Append(@, out), !.read[k] = pool]
    BY Zenon DEF QuoteHop, MintBefore, MintsFold
  <2> QED
    BY <2>1, <2>2
<1> SUFFICES ASSUME out \notin {None, 0} PROVE UnderWay(s)
  <2> HIDE DEF s, out
  <2>1. sim = [route |-> sim.route, read |-> sim.read, outs |-> sim.outs]
    BY <1>1 DEF UnderWay
  <2> DEFINE paid == [sim EXCEPT !.outs = Append(sim.outs, out)]
             fresh == [paid.read EXCEPT ![k] = pool]
  <2>2. [sim EXCEPT !.outs = Append(@, out), !.read[k] = pool] = [paid EXCEPT !.read = fresh]
    BY Zenon
  <2>3. paid = [route |-> sim.route, read |-> sim.read, outs |-> Append(sim.outs, out)]
    BY <2>1
  <2>4. paid.read = sim.read /\ fresh = read
    BY <2>3
  <2> HIDE DEF paid, fresh, pool, k, read
  <2>5. [[route |-> sim.route, read |-> sim.read, outs |-> Append(sim.outs, out)]
           EXCEPT !.read = fresh] =
          [route |-> sim.route, read |-> fresh, outs |-> Append(sim.outs, out)]
    OBVIOUS
  <2>6. [paid EXCEPT !.read = fresh] = [route |-> sim.route, read |-> read,
                                        outs |-> Append(sim.outs, out)]
    BY <2>3, <2>4, <2>5
  <2> QED
    BY <1>1, <2>2, <2>6 DEF s
<1>2. /\ IsPoolSeq(sim.read) /\ IsRoute(sim.route)
      /\ sim.outs \in Seq(Nat \ {0}) /\ k \in 1..(Len(sim.read) + 1)
      /\ \A i \in 1..(k - 1) :
           sim.outs[i + 1] = Pay(sim.read[i], MintBefore(sim.read, i), sim.outs[i])
      /\ Len(sim.read) <= Len(path)
  BY <1>1 DEF UnderWay, Quoting
<1>3. Len(sim.read) \in Nat /\ path \in Seq(Pools) /\ Len(path) \in Nat
  BY <1>2 DEF IsPoolSeq, IsRoute
<1>4. Len(sim.read) = Len(path)
  <2>1. Ahead = SubSeq(path, Len(sim.read) + 1, Len(path))
    BY DEF Ahead
  <2> HIDE DEF path
  <2> QED
    BY <1>1, <1>2, <1>3, <2>1, AheadIs
<1>5. k \in 1..Len(sim.read) /\ p \in Pools
  <2> HIDE DEF k, path
  <2>1. k \in 1..Len(sim.read)
    BY <1>1, <1>2, <1>3
  <2> QED
    BY <1>3, <1>4, <2>1 DEF p
<1>6. IsPoolState(pool)
  <2> HIDE DEF k, p
  <2>1. IsPoolState(sim.read[k]) /\ IsPoolState(cache[p])
    BY <1>2, <1>5, CachedState DEF IsPoolSeq, SpreadInv
  <2> QED
    BY <2>1, FreshPool
<1> HIDE DEF pool, p
<1>7. /\ IsPoolSeq(read) /\ Len(read) = Len(sim.read) /\ read[k] = pool
      /\ \A i \in 1..Len(sim.read) : i # k => read[i] = sim.read[i]
      /\ \A i \in 1..k : MintBefore(read, i) = MintBefore(sim.read, i)
  <2>1. read = [sim.read EXCEPT ![k] = pool]
    OBVIOUS
  <2> HIDE DEF k, read
  <2> QED
    <3>1. IsPoolSeq(sim.read) /\ k \in 1..Len(sim.read) /\ IsPoolState(pool)
      BY <1>2, <1>5, <1>6
    <3> QED
      BY ONLY <2>1, <3>1, OtherPool
<1> HIDE DEF read
<1>8. Last(sim.outs) = sim.outs[k] /\ sim.outs[k] \in Nat \ {0}
  BY <1>2 DEF Last
<1>9. out = Pay(pool, mint, sim.outs[k])
  BY <1>8
<1> HIDE DEF out
<1>10. out \in Nat \ {0}
  <2> HIDE DEF mint
  <2> QED
    BY <1>6, <1>8, <1>9, HopPays
<1>11. /\ outs \in Seq(Nat \ {0}) /\ Len(outs) = k + 1 /\ outs[k + 1] = out
       /\ \A i \in 1..k : outs[i] = sim.outs[i]
  BY <1>2, <1>10
<1> HIDE DEF outs, k
<1>12. ASSUME NEW i \in 1..(Len(outs) - 1)
       PROVE  outs[i + 1] = Pay(read[i], MintBefore(read, i), outs[i])
  <2>1. i \in 1..k /\ k \in Nat
    BY <1>5, <1>11
  <2>2. MintBefore(read, i) = MintBefore(sim.read, i) /\ outs[i] = sim.outs[i]
    BY <1>7, <1>11, <2>1
  <2>3. CASE i = k
    BY <1>7, <1>9, <1>11, <2>2, <2>3 DEF mint
  <2>4. CASE i # k
    <3>1. i \in 1..(k - 1) /\ i \in 1..Len(sim.read) /\ i + 1 \in 1..k
      BY <1>5, <2>1, <2>4
    <3>2. read[i] = sim.read[i] /\ outs[i + 1] = sim.outs[i + 1]
      BY <1>7, <1>11, <2>4, <3>1
    <3> QED
      BY <1>2, <2>2, <3>1, <3>2
  <2> QED
    BY <2>3, <2>4
<1>13. Quoting(read, outs)
  <2>1. Len(outs) \in 1..(Len(read) + 1)
    BY <1>3, <1>5, <1>7, <1>11
  <2> QED
    BY <1>7, <1>11, <1>12, <2>1 DEF Quoting
<1>14. /\ s.route = sim.route /\ s.read = read /\ s.outs = outs
       /\ s = [route |-> s.route, read |-> s.read, outs |-> s.outs]
  OBVIOUS
<1>15. Len(read) = Len(path) /\ Len(path) \in Nat
  BY <1>3, <1>4, <1>7
<1> HIDE DEF s
<1> QED
  BY <1>2, <1>13, <1>14, <1>15 DEF UnderWay, path

(* An accepted verdict is about hops whose quotes stay below the reference.    *)
LEMMA ConcludeAccepts ==
  ASSUME SpreadInv, Conclude PROVE AcceptedHasSpread'
<1>1. /\ UnderWay(sim) /\ Len(sim.outs) > Len(sim.route.path)
      /\ verdict' = Decide(sim.route, sim.outs) /\ quoted' = sim.read
  BY DEF Conclude, SpreadInv, Validate
<1> SUFFICES ASSUME Decide(sim.route, sim.outs).accepted
             PROVE  SpotAlong(sim.read, Decide(sim.route, sim.outs).outs) >=
                      Decide(sim.route, sim.outs).input + Decide(sim.route, sim.outs).tip + MinProfit
  BY <1>1 DEF AcceptedHasSpread
<1>2. /\ Quoting(sim.read, sim.outs) /\ sim.route.input \in Nat
      /\ Len(sim.read) <= Len(sim.route.path) /\ Len(sim.route.path) \in Nat
  BY <1>1 DEF UnderWay, IsRoute
<1>3. Len(sim.outs) = Len(sim.read) + 1
  <2>1. Len(sim.read) \in Nat /\ Len(sim.outs) \in 1..(Len(sim.read) + 1)
    BY <1>2 DEF Quoting, IsPoolSeq
  <2> QED
    BY <1>1, <1>2, <2>1
<1>4. SpotAlong(sim.read, sim.outs) \in Nat /\ Last(sim.outs) <= SpotAlong(sim.read, sim.outs)
  BY <1>2, <1>3, CycleBelow
<1>5. Last(sim.outs) \in Nat
  BY <1>2, <1>3 DEF Quoting, Last
<1> DEFINE d == Decide(sim.route, sim.outs)
<1>6. /\ d.outs = sim.outs /\ d.input \in Nat /\ d.tip \in Nat
      /\ Last(sim.outs) >= d.input + d.tip + MinProfit
  BY <1>2, <1>5, DecideKeeps DEF SpreadInv
<1>7. MinProfit \in Nat
  BY SearchAssumption
<1> HIDE DEF d
<1>8. SpotAlong(sim.read, d.outs) >= d.input + d.tip + MinProfit
  BY <1>4, <1>5, <1>6, <1>7
<1> QED
  BY <1>8 DEF d

(* At first there is no simulation and no verdict.                           *)
LEMMA InitSpread == ASSUME Init PROVE SpreadInv
<1>1. CacheInv
  BY DEF Init, CacheInv, Pools
<1>2. ~ Rejected.accepted
  BY DEF Rejected
<1> QED
  BY <1>1, <1>2 DEF Init, SpreadInv, AcceptedHasSpread

(* Every step keeps the invariant.                                           *)
LEMMA NextSpread == ASSUME SpreadInv, [Next]_vars PROVE SpreadInv'
<1>1. CacheInv' /\ CacheInv
  BY NextCache DEF SpreadInv
<1>2. ~ Rejected.accepted
  BY DEF Rejected
<1>3. UNCHANGED <<verdict, quoted>> => AcceptedHasSpread'
  BY DEF SpreadInv, AcceptedHasSpread
<1>4. verdict' = Rejected => AcceptedHasSpread'
  BY <1>2 DEF AcceptedHasSpread
<1>5. CASE Search \/ SearchDeeper
  <2>1. UNCHANGED <<floor, sim, verdict, quoted>>
    BY <1>5 DEF Search, SearchDeeper
  <2>2. \A r \in routes' : IsRoute(r)
    BY <1>1, <1>5, SearchRoutes
  <2> QED
    BY <1>1, <1>3, <2>1, <2>2 DEF SpreadInv
<1>6. CASE Simulate
  <2>1. routes' \subseteq routes /\ floor' = floor /\ verdict' = Rejected
    BY <1>6 DEF Simulate
  <2> QED
    BY <1>1, <1>4, <1>6, <2>1, SimulateUnderWay DEF SpreadInv
<1>7. CASE ReadPool
  <2>1. UNCHANGED <<floor, routes, verdict, quoted>>
    BY <1>7 DEF ReadPool
  <2> QED
    BY <1>1, <1>3, <1>7, <2>1, ReadPoolUnderWay DEF SpreadInv
<1>8. CASE QuoteHop
  <2>1. UNCHANGED <<floor, routes, verdict, quoted>>
    BY <1>8, Zenon DEF QuoteHop
  <2> QED
    BY <1>1, <1>3, <1>8, <2>1, QuoteHopUnderWay DEF SpreadInv
<1>9. CASE Conclude
  <2>1. UNCHANGED <<floor, routes>> /\ sim' = NoSimulation
    BY <1>9 DEF Conclude
  <2> QED
    BY <1>1, <1>9, <2>1, ConcludeAccepts DEF SpreadInv
<1>10. CASE FloorMoves
  <2>1. UNCHANGED <<routes, sim, verdict, quoted>> /\ floor' \in Floors
    BY <1>10 DEF FloorMoves
  <2> QED
    BY <1>1, <1>3, <2>1 DEF SpreadInv
<1>11. CASE \E p \in Pools : Refresh(p)
  <2>1. UNCHANGED <<floor, routes, sim, verdict, quoted>>
    BY <1>11 DEF Refresh
  <2> QED
    BY <1>1, <1>3, <2>1 DEF SpreadInv
<1>12. CASE UNCHANGED vars
  <2>1. UNCHANGED <<floor, routes, sim, verdict, quoted>>
    BY <1>12 DEF vars
  <2> QED
    BY <1>1, <1>3, <2>1 DEF SpreadInv
<1> QED
  BY <1>5, <1>6, <1>7, <1>8, <1>9, <1>10, <1>11, <1>12 DEF Next

(* A route is accepted only if the best prices of the pools, as the simulation  *)
(* itself read them, turn the input into the input, the tip and the least      *)
(* profit, but for what rounding gains on curves: whatever the pools, fees,    *)
(* ticks and bins, and however often the cache changes between the search, the *)
(* reads and the quotes. (ProfitSimulator::simulate)                           *)
THEOREM AcceptedSpread == Spec => []AcceptedHasSpread
<1>1. Init => SpreadInv
  BY InitSpread
<1>2. SpreadInv /\ [Next]_vars => SpreadInv'
  BY NextSpread
<1>3. SpreadInv => AcceptedHasSpread
  BY DEF SpreadInv
<1> QED
  BY <1>1, <1>2, <1>3, PTL DEF Spec
-----------------------------------------------------------------------------
(* Every quote of a pool in the cache.                                      *)

(* A quote along ticks is that walk.                                         *)
LEMMA TicksQuoted ==
  ASSUME NEW pool, NEW in \in Nat \ {0}, NEW ab \in BOOLEAN, QuotedBy(pool, in, ab) = "ticks"
  PROVE  /\ HasClmmState(pool)
         /\ Quote(pool, in, ab) = MultiTick(pool, in, ab) /\ MultiTick(pool, in, ab) # None
<1>1. pool.dex \in {"OrcaWhirlpool", "RaydiumClmm"} /\ Orca(pool, in, ab) # None
  <2>1. CASE pool.dex \in {"OrcaWhirlpool", "RaydiumClmm"} /\ Orca(pool, in, ab) = None
    <3>1. QuotedBy(pool, in, ab) = IF HasClmmState(pool) /\ OnCurve(pool) THEN "fallback"
                                                                         ELSE "product"
      BY <2>1 DEF QuotedBy
    <3> QED
      BY <3>1
  <2>2. CASE pool.dex \notin {"OrcaWhirlpool", "RaydiumClmm"}
    <3>1. QuotedBy(pool, in, ab) \in {"range", "bins", "product", "Phoenix", "Manifest"}
      BY <2>2, Zenon DEF QuotedBy
    <3> QED
      BY <3>1
  <2> QED
    BY <2>1, <2>2
<1>2. pool.ticks # {}
  <2>1. QuotedBy(pool, in, ab) = IF pool.ticks = {} THEN "range" ELSE "ticks"
    BY <1>1 DEF QuotedBy
  <2> QED
    BY <2>1
<1>3. Quote(pool, in, ab) = Orca(pool, in, ab)
  BY <1>1 DEF Quote, QuoteBy, OrElse, RaydiumClmm
<1>4. HasClmmState(pool) /\ Orca(pool, in, ab) = MultiTick(pool, in, ab)
  BY <1>1, <1>2 DEF Orca
<1> QED
  BY <1>1, <1>3, <1>4

(* Every quote of what is cached.                                            *)
LEMMA CachedQuotesBelow ==
  ASSUME CacheInv, NEW p \in Pools, NEW in \in Nat \ {0}, NEW ab \in BOOLEAN
  PROVE  BelowAt(cache[p], in, ab)
<1> DEFINE pool == cache[p]
           out  == Quote(pool, in, ab)
<1>1. Stored(pool)
  BY CachedState, StoredIs
<1> HIDE DEF pool
<1>2. ASSUME out # None PROVE out <= Above(pool, in, ab, in)
  BY <1>1, <1>2, HopBelow
<1>3. ASSUME QuotedBy(pool, in, ab) = "ticks", Thinning(pool, ab), SingleTick(pool, in, ab) # None
      PROVE  out <= SingleTick(pool, in, ab) + RoundingLoss(pool, ab)
                      + RoundingGain("ticks", pool, ab)
  <2>1. HasClmmState(pool) /\ out = MultiTick(pool, in, ab) /\ MultiTick(pool, in, ab) # None
    BY <1>3, TicksQuoted
  <2>2. /\ Indexed(pool.ticks) /\ pool.price \in Nat \ {0} /\ pool.liq \in Nat \ {0}
        /\ pool.fee \in Nat
    BY <1>1, <2>1 DEF Stored, HasClmmState
  <2> HIDE DEF out
  <2>3. MultiTick(pool, in, ab)
          <= SingleTick(pool, in, ab) + RoundingLoss(pool, ab) + RoundingGain("ticks", pool, ab)
    BY <1>3, <2>1, <2>2, ThinningBelow
  <2> QED
    BY <2>1, <2>3
<1> HIDE DEF out
<1>4. BelowAt(pool, in, ab)
  BY <1>2, <1>3 DEF BelowAt, out
<1> QED
  BY <1>4 DEF pool

(* A quote of any pool the cache may hold, in either direction, never promises *)
(* more than the best price of the pool pays after fees, up to what rounding   *)
(* gains; and where the ticks ahead only take liquidity away, no more than if  *)
(* there were none.  This is so of every kind of pool and of the fallbacks,    *)
(* however many ticks and bins a quote crosses.                                *)
(* (get_output_amount_with_cache, multi_tick_output, bin_output)               *)
THEOREM BelowCurve == Spec => []QuotesBelowCurve
<1>1. Init => CacheInv
  BY DEF Init, CacheInv
<1>2. CacheInv /\ [Next]_vars => CacheInv'
  BY NextCache
<1>3. CacheInv => QuotesBelowCurve
  BY InputsPositive, CachedQuotesBelow DEF QuotesBelowCurve
<1> QED
  BY <1>1, <1>2, <1>3, PTL DEF Spec

(* Both at any time and for every input, also one that no u64 holds: what the  *)
(* runs bound for TLC, the states and the inputs, is no part of it.            *)
THEOREM EveryQuote ==
  Spec => [](\A p \in Pools, in \in Nat \ {0}, ab \in BOOLEAN :
               BelowAt(cache[p], in, ab) /\ ExactAt(cache[p], in, ab))
<1> DEFINE Every == \A p \in Pools, in \in Nat \ {0}, ab \in BOOLEAN :
                      BelowAt(cache[p], in, ab) /\ ExactAt(cache[p], in, ab)
<1>1. Init => CacheInv
  BY DEF Init, CacheInv
<1>2. CacheInv /\ [Next]_vars => CacheInv'
  BY NextCache
<1>3. CacheInv => Every
  BY CachedQuotesBelow, CachedQuotesExact
<1> HIDE DEF Every
<1>4. Spec => []Every
  BY <1>1, <1>2, <1>3, PTL DEF Spec
<1> QED
  BY <1>4 DEF Every
=============================================================================
