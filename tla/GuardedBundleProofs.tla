---- MODULE GuardedBundleProofs ----
(***************************************************************************)
(* The guard's windows never close on a loss and are never based anew; a   *)
(* bundle of the engine that commits loses no more than its tip, the fee    *)
(* and the rent of accounts it leaves open, leaves other tokens alone and   *)
(* is measured where it is paid: for every set of routes and of hand-made   *)
(* transactions.                                                            *)
(***************************************************************************)
EXTENDS GuardedBundle, SequenceTheorems, FiniteSetTheorems, TLAPS

\* What is locked is what the history records, and every closed window gained.
WindowInv(b, g, w, c) ==
  /\ b \in [Tokens -> Amount]
  /\ g \in [locked : BOOLEAN, start : Amount, account : Mints \cup {"none"}]
  /\ g.locked => w.account = g.account /\ g.start = w.bal[w.account]
  /\ \A x \in c : x.to[x.account] >= x.from[x.account] + x.min

Inv ==
  /\ WindowInv(bal, guard, window, closed)
  /\ WindowInv(saved.bal, saved.guard, saved.window, saved.closed)
  /\ atas \subseteq Mints /\ saved.atas \subseteq Mints

\* The rent of some mints' accounts is a number.
LEMMA RentNat == ASSUME NEW a \in SUBSET Mints PROVE RentOf(a) \in Nat /\ IsFiniteSet(a)
<1>1. IsFiniteSet(a)
  BY GuardAssumption, FS_Subset
<1>2. Cardinality(a) \in Nat
  BY <1>1, FS_CardinalityType
<1> QED BY <1>1, <1>2, GuardAssumption DEF RentOf

\* Accounts that are opened add their rent to that of the others ...
LEMMA RentOpened ==
  ASSUME NEW a \in SUBSET Mints, NEW b \in SUBSET Mints, a \cap b = {}
  PROVE  RentOf(a \cup b) = RentOf(a) + RentOf(b)
<1>1. IsFiniteSet(a) /\ IsFiniteSet(b)
  BY RentNat
<1>2. Cardinality(a) \in Nat /\ Cardinality(b) \in Nat
  BY <1>1, FS_CardinalityType
<1>3. Cardinality(a \cup b) = Cardinality(a) + Cardinality(b)
  BY <1>1, <1>2, FS_Union, FS_EmptySet
<1> QED BY <1>2, <1>3, GuardAssumption DEF RentOf

\* ... and one that is closed takes its own away.
LEMMA RentClosed ==
  ASSUME NEW a \in SUBSET Mints, NEW m \in a
  PROVE  RentOf(a) = RentOf(a \ {m}) + Rent
<1>1. a = (a \ {m}) \cup {m} /\ (a \ {m}) \cap {m} = {}
  OBVIOUS
<1>2. RentOf(a) = RentOf(a \ {m}) + RentOf({m})
  BY <1>1, RentOpened
<1>3. RentOf({m}) = Rent
  <2>1. Cardinality({m}) = 1 /\ Rent \in Nat
    BY FS_Singleton, GuardAssumption
  <2> QED BY <2>1 DEF RentOf
<1> QED BY <1>2, <1>3

\* What accounts cost more than before is the rent of the new ones at most.
LEMMA RentAdded ==
  ASSUME NEW a \in SUBSET Mints, NEW b \in SUBSET Mints
  PROVE  RentOf(a) <= RentOf(b) + RentOf(a \ b)
<1>1. /\ a = (a \cap b) \cup (a \ b) /\ (a \cap b) \cap (a \ b) = {}
      /\ b = (a \cap b) \cup (b \ a) /\ (a \cap b) \cap (b \ a) = {}
  OBVIOUS
<1>2. RentOf(a) = RentOf(a \cap b) + RentOf(a \ b) /\ RentOf(b) = RentOf(a \cap b) + RentOf(b \ a)
  BY <1>1, RentOpened
<1>3. RentOf(a \cap b) \in Nat /\ RentOf(a \ b) \in Nat /\ RentOf(b \ a) \in Nat
  BY RentNat
<1> QED BY <1>2, <1>3

\* An opcode's handler that only moves balances keeps the guard's part of the invariant.
LEMMA MoveKeeps ==
  ASSUME NEW from, NEW spent, NEW to, NEW got, Inv, Move(from, spent, to, got)
  PROVE  bal' \in [Tokens -> Amount]
<1> USE GuardAssumption
<1>1. bal \in [Tokens -> Amount]
  BY DEF Inv, WindowInv
<1>2. \A t \in Tokens : bal'[t] \in Amount
  <2> SUFFICES ASSUME NEW t \in Tokens PROVE bal'[t] \in Amount
    OBVIOUS
  <2>1. CASE t = from
    BY <1>1, <2>1 DEF Move, Amount
  <2>2. CASE t = to
    BY <1>1, <2>2 DEF Move, Amount
  <2>3. CASE t # from /\ t # to
    BY <1>1, <2>3 DEF Move
  <2> QED BY <2>1, <2>2, <2>3
<1> QED BY <1>1, <1>2 DEF Move

\* Taking a transaction back restores a state that satisfied the invariant.
LEMMA RevertKeeps == ASSUME NEW why, Inv, Revert(why) PROVE Inv'
BY DEF Inv, Revert

\* A step that leaves guard and history alone only has to keep the balances' type.
LEMMA BalanceStep ==
  ASSUME Inv, bal' \in [Tokens -> Amount], atas' \subseteq Mints,
         UNCHANGED <<guard, window, closed, saved>>
  PROVE  Inv'
BY DEF Inv, WindowInv

\* start_check opens a window with the balance of its account.
LEMMA StartCheckKeeps == ASSUME Inv, StartCheck PROVE Inv'
<1>1. CASE Revert("GuardAlreadyActive")
  BY <1>1, RevertKeeps
<1>2. CASE ~Revert("GuardAlreadyActive")
  <2> DEFINE a == Head(ixs).account
  <2>1. /\ a \in Mints
        /\ guard' = [locked |-> TRUE, start |-> bal[a], account |-> a]
        /\ window' = [account |-> a, bal |-> bal]
        /\ UNCHANGED <<bal, closed, saved>>
    BY <1>2 DEF StartCheck, Advance, Inv
  <2>2. a \in Tokens /\ atas' = atas
    BY <2>1, <1>2 DEF Tokens, StartCheck
  <2> HIDE DEF a
  <2> QED BY <2>1, <2>2 DEF Inv, WindowInv
<1> QED BY <1>1, <1>2

\* profit_check closes a window that gained.
LEMMA ProfitCheckKeeps == ASSUME Inv, ProfitCheck PROVE Inv'
<1>1. CASE Revert("profit_check")
  BY <1>1, RevertKeeps
<1>2. CASE ~Revert("profit_check")
  <2> DEFINE a == Head(ixs).account
             m == Head(ixs).min
             w == [account |-> window.account, from |-> window.bal, to |-> bal, min |-> m]
  <2>1. /\ ProfitHolds(a, m)
        /\ guard' = [guard EXCEPT !.locked = FALSE]
        /\ closed' = closed \cup {w}
        /\ UNCHANGED <<bal, atas, saved>>
    BY <1>2 DEF ProfitCheck, Advance
  <2>2. w.to[w.account] >= w.from[w.account] + w.min
    BY <2>1 DEF ProfitHolds, Inv, WindowInv
  <2>3. guard' \in [locked : BOOLEAN, start : Amount, account : Mints \cup {"none"}]
        /\ guard'.locked = FALSE
    BY <2>1 DEF Inv, WindowInv
  <2> HIDE DEF w
  <2> QED BY <2>1, <2>2, <2>3 DEF Inv, WindowInv
<1> QED BY <1>1, <1>2

\* Every step keeps the invariant, and it holds at the start.
LEMMA StepKeeps == ASSUME Inv, [Next]_vars PROVE Inv'
<1>0. bal \in [Tokens -> Amount] /\ atas \subseteq Mints
  BY DEF Inv, WindowInv
<1>1. ASSUME NEW m \in Mints, LearnProgram(m) PROVE Inv'
  BY <1>1, <1>0, BalanceStep DEF LearnProgram
<1>2. ASSUME NEW sequence, NEW description, Begin(sequence, description) PROVE Inv'
  <2>1. bal' \in [Tokens -> Amount]
    <3>1. Fee <= bal["sol"] /\ bal' = [bal EXCEPT !["sol"] = @ - Fee]
      BY <1>2 DEF Begin
    <3> QED BY <3>1, <1>0, GuardAssumption DEF Amount, Tokens
  <2>2. /\ UNCHANGED <<atas, guard, window, closed>>
        /\ saved' = [chain EXCEPT !.bal = bal']
    BY <1>2 DEF Begin
  <2>3. /\ saved'.bal = bal' /\ saved'.atas = atas /\ saved'.guard = guard
        /\ saved'.window = window /\ saved'.closed = closed
    BY <2>2 DEF chain
  <2> QED BY <2>1, <2>2, <2>3 DEF Inv, WindowInv
<1>3. ASSUME NEW route \in Routes, NEW guarded \in BOOLEAN, Submit(route, guarded) PROVE Inv'
  BY <1>3, <1>2, <1>0, BalanceStep DEF Submit
<1>4. ASSUME NEW sequence \in Programmed, Call(sequence) PROVE Inv'
  BY <1>4, <1>2 DEF Call
<1>5. CASE Commit
  BY <1>5, <1>0, BalanceStep DEF Commit
<1>6. CASE Create
  <2>1. CASE Revert("create")
    BY <2>1, RevertKeeps
  <2>2. CASE ~Revert("create")
    <3> DEFINE missing == {a[1] : a \in Head(ixs).accounts} \ atas
               rent == RentOf(missing)
    <3>1. /\ Head(ixs).accounts \subseteq TrueAccounts(Mints) /\ rent <= bal["sol"]
          /\ bal' = [bal EXCEPT !["sol"] = @ - rent]
          /\ atas' = atas \cup missing
          /\ UNCHANGED <<guard, window, closed, saved>>
      BY <1>6, <2>2 DEF Create, Advance
    <3>2. missing \in SUBSET Mints
      BY <3>1 DEF TrueAccounts
    <3>3. rent \in Nat
      BY <3>2, RentNat
    <3> HIDE DEF rent, missing
    <3>4. bal' \in [Tokens -> Amount]
      BY <3>1, <3>3, <1>0, GuardAssumption DEF Amount, Tokens
    <3> QED BY <3>1, <3>2, <3>4, <1>0, BalanceStep
  <2> QED BY <2>1, <2>2
<1>7. CASE WrapSol
  <2>1. CASE Revert("wrap")
    BY <2>1, RevertKeeps
  <2> QED BY <1>7, <2>1, <1>0, MoveKeeps, BalanceStep DEF WrapSol, Advance
<1>8. CASE UnwrapSol
  <2>1. CASE Revert("unwrap")
    BY <2>1, RevertKeeps
  <2> QED BY <1>8, <2>1, <1>0, MoveKeeps, BalanceStep DEF UnwrapSol, Advance
<1>9. CASE PayTip
  <2>1. CASE Revert("tip")
    BY <2>1, RevertKeeps
  <2>2. CASE ~Revert("tip")
    <3>1. /\ Head(ixs).amount \in 0..bal["sol"]
          /\ bal' = [bal EXCEPT !["sol"] = @ - Head(ixs).amount]
          /\ UNCHANGED <<atas, guard, window, closed, saved>>
      BY <1>9, <2>2 DEF PayTip, Advance
    <3>2. bal' \in [Tokens -> Amount]
      BY <3>1, <1>0, GuardAssumption DEF Amount, Tokens
    <3> QED BY <3>1, <3>2, <1>0, BalanceStep
  <2> QED BY <2>1, <2>2
<1>10. CASE Swap
  BY <1>10, <1>0, MoveKeeps, BalanceStep DEF Swap, Advance
<1>11. CASE SwapFails
  BY <1>11, RevertKeeps DEF SwapFails
<1>12. CASE StartCheck
  BY <1>12, StartCheckKeeps
<1>13. CASE ProfitCheck
  BY <1>13, ProfitCheckKeeps
<1>14. CASE EnterArbV2
  BY <1>14, <1>0, BalanceStep DEF EnterArbV2, Advance
<1>15. CASE EnterArb
  BY <1>15, <1>0, BalanceStep DEF EnterArb, Advance
<1>16. CASE Hop
  <2>1. \E from, to, spent, got : Move(from, spent, to, got)
    BY <1>16 DEF Hop
  <2> QED BY <1>16, <2>1, <1>0, MoveKeeps, BalanceStep DEF Hop
<1>17. CASE HopFails
  BY <1>17, RevertKeeps DEF HopFails
<1>18. CASE LeaveArb
  <2>1. CASE Revert("arb")
    BY <2>1, RevertKeeps
  <2> QED BY <1>18, <2>1, <1>0, BalanceStep DEF LeaveArb
<1>19. CASE UNCHANGED vars
  BY <1>19, <1>0, BalanceStep DEF vars
<1> QED BY <1>1, <1>3, <1>4, <1>5, <1>6, <1>7, <1>8, <1>9, <1>10, <1>11, <1>12, <1>13,
           <1>14, <1>15, <1>16, <1>17, <1>18, <1>19 DEF Next

\* No window is open at first.
LEMMA InitInv == Init => Inv
BY GuardAssumption DEF Init, Inv, WindowInv, chain, Unlocked, Amount, Tokens

\* So it always holds.
LEMMA InvHolds == Spec => []Inv
BY InitInv, StepKeeps, PTL DEF Spec

\* profit_check never accepts a loss on the account start_check was given.
THEOREM ClosedWindowsGain == Spec => []WindowsGain
<1>1. Inv => WindowsGain
  BY DEF Inv, WindowInv, WindowsGain
<1> QED BY <1>1, InvHolds, PTL

\* No step but a revert changes the guard while it stays locked.
THEOREM OpenWindowsKept == Spec => WindowNotRebased
<1>1. [Next]_vars => [KeepsWindow]_vars
  <2> SUFFICES ASSUME Next PROVE KeepsWindow \/ UNCHANGED vars
    OBVIOUS
  <2>1. ASSUME NEW why, Revert(why) PROVE KeepsWindow
    BY <2>1 DEF Revert, KeepsWindow
  <2>2. CASE UNCHANGED guard
    BY <2>2 DEF KeepsWindow
  <2>3. CASE StartCheck
    BY <2>1, <2>3 DEF StartCheck, KeepsWindow
  <2>4. CASE ProfitCheck
    <3>1. CASE Revert("profit_check")
      BY <3>1, <2>1
    <3>2. CASE ~Revert("profit_check")
      <4>1. guard' = [guard EXCEPT !.locked = FALSE]
        BY <2>4, <3>2 DEF ProfitCheck
      <4> QED BY <4>1 DEF KeepsWindow
    <3> QED BY <3>1, <3>2
  <2> QED BY <2>1, <2>2, <2>3, <2>4
       DEF Next, LearnProgram, Submit, Call, Begin, Commit, Create, WrapSol, UnwrapSol, PayTip, Swap,
           SwapFails, EnterArbV2, EnterArb, Hop, HopFails, LeaveArb, Advance
<1> QED BY <1>1, PTL DEF Spec, WindowNotRebased

\* A route is a cycle of hops.
LEMMA RouteShape ==
  ASSUME NEW route \in Routes
  PROVE  /\ Len(route.hops) \in Nat /\ Len(route.hops) >= 2
         /\ DOMAIN route.hops = 1..Len(route.hops)
         /\ \A i \in 1..Len(route.hops) : route.hops[i] \in Hops
         /\ route.input \in Nat
         /\ route.hops[1].input = Wsol /\ route.hops[Len(route.hops)].output = Wsol
         /\ \A i \in 1..(Len(route.hops) - 1) :
              /\ route.hops[i].output = route.hops[i + 1].input
              /\ route.hops[i].output # Wsol
         /\ \A i, j \in 1..Len(route.hops) : route.hops[i].output = route.hops[j].output => i = j
<1> DEFINE hops == route.hops
<1>1. route.input \in Nat /\ Cycle(hops)
  BY RouteAssumption
<1> HIDE DEF hops
<1>2. /\ hops \in Seq(Hops) /\ Len(hops) >= 2
      /\ hops[1].input = Wsol /\ hops[Len(hops)].output = Wsol
      /\ \A i \in 1..(Len(hops) - 1) : hops[i].output = hops[i + 1].input
      /\ \A i, j \in 1..Len(hops) : hops[i].output = hops[j].output => i = j
  BY <1>1 DEF Cycle
<1>3. /\ Len(hops) \in Nat /\ DOMAIN hops = 1..Len(hops)
      /\ \A i \in 1..Len(hops) : hops[i] \in Hops
  BY <1>2
<1>4. ASSUME NEW i \in 1..(Len(hops) - 1) PROVE hops[i].output # Wsol
  <2> DEFINE n == Len(hops)
  <2>0. n \in Nat /\ n >= 2 /\ i \in 1..(n - 1)
    BY <1>2, <1>3
  <2> HIDE DEF n
  <2>1. i \in 1..n /\ n \in 1..n /\ i # n
    BY <2>0
  <2>2. hops[i].output # hops[Len(hops)].output
    BY <2>1, <1>2, Zenon DEF n
  <2> QED BY <2>2, <1>2, Zenon
<1> QED BY <1>1, <1>2, <1>3, <1>4 DEF hops

\* What a build learns is a program, from the cache or from a pool of the route.
LEMMA LearnedTyped ==
  ASSUME NEW route \in Routes, known \in [Mints -> Programs \cup {NoProgram}]
  PROVE  Learned(route, known) \in [Mints -> Programs \cup {NoProgram}]
<1>1. ASSUME NEW m \in Mints PROVE Hint(route, m) \in Programs \cup {NoProgram}
  <2>1. CASE FirstHints(route, m) = {}
    BY <2>1 DEF Hint
  <2>2. CASE FirstHints(route, m) # {}
    <3> DEFINE i == CHOOSE k \in FirstHints(route, m) : TRUE
    <3>1. i \in DOMAIN route.hops
      BY <2>2 DEF FirstHints
    <3>2. route.hops[i].extra \in [Mints -> Programs \cup {NoProgram}]
      BY <3>1, RouteShape DEF Hops
    <3> QED BY <2>2, <3>2 DEF Hint
  <2> QED BY <2>1, <2>2
<1> QED BY <1>1 DEF Learned, OrElse

\* The part of TypeOK that is not about the chain.
PlanOK ==
  /\ known \in [Mints -> Programs \cup {NoProgram}]
  /\ Idle => frame = NoFrame /\ ixs = <<>>

\* It is inductive.
LEMMA PlanStep == ASSUME PlanOK, [Next]_vars PROVE PlanOK'
<1>1. ASSUME NEW m \in Mints, LearnProgram(m) PROVE PlanOK'
  BY <1>1, GuardAssumption DEF LearnProgram, PlanOK, Idle
<1>2. ASSUME NEW why, Revert(why) PROVE PlanOK'
  BY <1>2 DEF Revert, PlanOK
<1>3. ASSUME NEW route \in Routes, NEW guarded \in BOOLEAN, Submit(route, guarded) PROVE PlanOK'
  <2>1. known' \in [Mints -> Programs \cup {NoProgram}]
    BY <1>3, LearnedTyped DEF Submit, PlanOK
  <2> QED BY <1>3, <2>1 DEF Submit, Begin, PlanOK, Idle
<1>4. ASSUME NEW sequence \in Programmed, Call(sequence) PROVE PlanOK'
  BY <1>4 DEF Call, Begin, PlanOK, Idle
<1>5. CASE Commit
  BY <1>5 DEF Commit, PlanOK
<1>6. ASSUME Advance, UNCHANGED frame, ~Idle PROVE PlanOK'
  BY <1>6 DEF Advance, PlanOK, Idle
<1>7. CASE Create \/ WrapSol \/ UnwrapSol \/ PayTip \/ Swap \/ SwapFails \/ StartCheck \/ ProfitCheck
  BY <1>7, <1>2, <1>6 DEF Create, WrapSol, UnwrapSol, PayTip, Swap, SwapFails, StartCheck, ProfitCheck,
       Running, Idle
<1>8. CASE EnterArbV2 \/ EnterArb
  BY <1>8 DEF EnterArbV2, EnterArb, Running, Advance, PlanOK, Idle
<1>9. CASE Hop
  BY <1>9 DEF Hop, InArb, PlanOK, Idle
<1>10. CASE HopFails \/ LeaveArb
  BY <1>10, <1>2 DEF HopFails, LeaveArb, InArb, PlanOK, Idle
<1>11. CASE UNCHANGED vars
  BY <1>11 DEF vars, PlanOK, Idle
<1> QED BY <1>1, <1>3, <1>4, <1>5, <1>7, <1>8, <1>9, <1>10, <1>11 DEF Next

\* Balances, guard and mint program cache are well typed, and an idle chain has nothing left to run.
THEOREM TypeCorrect == Spec => []TypeOK
<1>1. Init => PlanOK
  BY DEF Init, PlanOK
<1>2. Spec => []PlanOK
  BY <1>1, PlanStep, PTL DEF Spec
<1>3. Inv /\ PlanOK => TypeOK
  BY DEF Inv, WindowInv, PlanOK, TypeOK, ChainTypeOK
<1> QED BY <1>2, <1>3, InvHolds, PTL

----------------------------------------------------------------------------
(* The engine's bundles.  Of a transaction that is running, the invariant says   *)
(* which route it was built of, which of its instructions are left, and what the *)
(* wallet's balances are by then.                                                *)

PlanLen(route, guarded) == IF guarded THEN 5 ELSE Len(route.hops) + 4

Plan(route, guarded, programs) ==
  SignedBundle(BuildArbInstructions(route, route.input, guarded, programs), Tip)

\* The j-th instruction of that transaction.
PlanIx(route, guarded, programs, j) ==
  CASE j = 1 -> [op |-> "create",
                 accounts |-> {<<m, AtaProgram(m, programs)>> : m \in RouteMints(route)}]
    [] j = 2 -> [op |-> "wrap", amount |-> route.input]
    [] j = PlanLen(route, guarded) - 1 -> [op |-> "unwrap"]
    [] j = PlanLen(route, guarded) -> [op |-> "tip", amount |-> Tip]
    [] OTHER -> IF guarded
                THEN ExecuteArbV2(route, HopIxs(route, route.input, programs), route.input, programs)
                ELSE HopIxs(route, route.input, programs)[j - 2]

PlanIxs(route, guarded, programs) ==
  {PlanIx(route, guarded, programs, j) : j \in 1..PlanLen(route, guarded)}

\* The instructions left are the last ones of the plan.
Left(route, guarded, programs) ==
  /\ ixs \in Seq(PlanIxs(route, guarded, programs))
  /\ Len(ixs) <= PlanLen(route, guarded)
  /\ \A j \in 1..Len(ixs) :
       ixs[j] = PlanIx(route, guarded, programs, PlanLen(route, guarded) - Len(ixs) + j)

Description(route, guarded) ==
  [kind |-> "engine", guarded |-> guarded, input |-> route.input,
   dexes |-> {route.hops[i].dex : i \in DOMAIN route.hops},
   floored |-> guarded \/ ~SellsOnPhoenix(route.hops[Len(route.hops)])]

\* What the wallet has, the rent it would get back counted.
Wealth(b, a) == b["sol"] + b[Wsol] + RentOf(a)

\* What the wallet may be short of while the instructions left are still to run.
Owed(route, guarded) ==
  IF Len(ixs) = 0 THEN Tip
  ELSE IF ~guarded /\ Len(ixs) \in 3..(Len(route.hops) + 1) THEN route.input
  ELSE 0

\* Between two instructions.
Outside(route, guarded) ==
  /\ bundle.floored \/ Len(ixs) > 2
       => Wealth(bal, atas) + Owed(route, guarded) >= Wealth(saved.bal, saved.atas)
  /\ guarded /\ bundle.dexes \subseteq Aligned
       => \A m \in Mints \ {Wsol} : bal[m] = saved.bal[m]

ArbHops(route, programs) ==
  ExecuteArbV2(route, HopIxs(route, route.input, programs), route.input, programs).hops

ArbHopSet(route, programs) == {ArbHops(route, programs)[i] : i \in 1..Len(route.hops)}

\* What the wallet holds of m because the hop before the next one has just paid it.
Received(route, m) ==
  IF Len(frame.hops) \in 1..(Len(route.hops) - 1) /\ m = frame.hops[1].ix.from[1]
  THEN frame.interim ELSE 0

\* Within execute_arb_v2 the native balance does not move, and only the token that the
\* next hop spends has grown, by what the hop before received.
Inside(route, programs) ==
  /\ frame \in [kind : {"v2"}, hops : Seq(ArbHopSet(route, programs)), min : {route.input},
                profit : {Wsol}, start : Amount, interim : Amount, first : BOOLEAN]
  /\ bal["sol"] + frame.start + RentOf(atas) >= Wealth(saved.bal, saved.atas)
  /\ Len(frame.hops) <= Len(route.hops)
  /\ \A j \in 1..Len(frame.hops) :
       frame.hops[j] = ArbHops(route, programs)[Len(route.hops) - Len(frame.hops) + j]
  /\ frame.first = (Len(frame.hops) = Len(route.hops))
  /\ bundle.dexes \subseteq Aligned =>
       \A m \in Mints \ {Wsol} : bal[m] = saved.bal[m] + Received(route, m)

\* The transaction under way is that of a route.
Runs(route, guarded, programs) ==
  /\ bundle = Description(route, guarded)
  /\ BuildOk(route, route.input, guarded, programs)
  /\ programs[Wsol] \in {NoProgram, "spl"}
  /\ Left(route, guarded, programs)
  /\ IF frame = NoFrame THEN Outside(route, guarded)
     ELSE guarded /\ Len(ixs) = 2 /\ Inside(route, programs)

ProgramTables == [Mints -> Programs \cup {NoProgram}]

TxInv ==
  /\ known[Wsol] \in {NoProgram, "spl"}
  /\ bundle.kind = "engine" =>
       \E route \in Routes, guarded \in BOOLEAN, programs \in ProgramTables :
         Runs(route, guarded, programs)
  /\ result.status = "committed" => Idle /\ NoCommittedLoss /\ IntermediateUntouched

----------------------------------------------------------------------------
(* What the builder makes of a cycle.                                            *)

IxFields == {"op", "dex", "aToB", "from", "to", "amount", "min", "amountAt", "minAt"}

\* An instruction that swaps the input of a hop for its output, with the amount where the
\* guard rewrites it if the DEX is an aligned one.
SwapOf(ix, hop) ==
  /\ DOMAIN ix = IxFields
  /\ ix.op = "swap" /\ ix.dex = hop.dex /\ ix.aToB = hop.aToB
  /\ ix.from[1] = hop.input /\ ix.to[1] = hop.output
  /\ hop.dex \in Aligned => ix.amountAt = RecordedOffset(hop.dex)

\* Whatever the DEX, the swap of a hop spends its input, pays its output and carries the
\* amounts it was given; and an aligned DEX expects the amount where the guard rewrites it.
LEMMA SwapShape ==
  ASSUME NEW hop \in Hops, NEW amount, NEW min, NEW programs
  PROVE  LET ix == BuildSwap(hop, amount, min, programs)
         IN  SwapOf(ix, hop) /\ ix.amount = amount /\ ix.min = min
<1>1. \E p, a, m : /\ BuildSwap(hop, amount, min, programs) = SwapIx(hop, amount, min, p, a, m)
                   /\ hop.dex \in Aligned => a = RecordedOffset(hop.dex)
  <2> hop.dex \in DexKinds
    BY DEF Hops
  <2>1. CASE hop.dex = "OrcaWhirlpool"
    BY <2>1 DEF BuildSwap, OrcaSwap, RecordedOffset
  <2>2. CASE hop.dex = "RaydiumClmm"
    BY <2>2 DEF BuildSwap, RaydiumClmmSwap, RecordedOffset
  <2>3. CASE hop.dex = "RaydiumCp"
    BY <2>3 DEF BuildSwap, RaydiumCpSwap, RecordedOffset
  <2>4. CASE hop.dex = "RaydiumAmm"
    BY <2>4 DEF BuildSwap, RaydiumAmmSwap, RecordedOffset
  <2>5. CASE hop.dex = "MeteoraDlmm"
    <3> DEFINE p == [m \in Mints |-> OrElse(programs[m], ByPool(hop)[m])]
    <3>1. BuildSwap(hop, amount, min, programs) = DlmmSwap(hop, amount, min, programs)
      BY <2>5 DEF BuildSwap
    <3>2. DlmmSwap(hop, amount, min, programs) = SwapIx(hop, amount, min, p, 8, 16)
      BY DEF DlmmSwap
    <3> HIDE DEF p
    <3> QED BY <2>5, <3>1, <3>2 DEF RecordedOffset
  <2>6. CASE hop.dex = "MeteoraDammV2"
    BY <2>6 DEF BuildSwap, DammV2Swap, RecordedOffset
  <2>7. CASE hop.dex = "SanctumInfinity"
    BY <2>7 DEF BuildSwap, SanctumSwap, Aligned
  <2>8. CASE hop.dex = "Phoenix"
    BY <2>8 DEF BuildSwap, PhoenixSwap, Aligned
  <2>9. CASE hop.dex = "Manifest"
    BY <2>9 DEF BuildSwap, ManifestSwap, Aligned
  <2>10. CASE hop.dex = "PumpSwap"
    BY <2>10 DEF BuildSwap, PumpSwapSwap, Aligned
  <2> QED BY <2>1, <2>2, <2>3, <2>4, <2>5, <2>6, <2>7, <2>8, <2>9, <2>10 DEF DexKinds
<1> QED BY <1>1 DEF SwapIx, SwapOf, IxFields

\* The swaps of a route: the last one, and only that, has the route's input as its floor.
LEMMA SwapsShape ==
  ASSUME NEW route \in Routes, NEW programs, NEW i \in 1..Len(route.hops)
  PROVE  LET swaps == HopIxs(route, route.input, programs)
         IN  /\ SwapOf(swaps[i], route.hops[i])
             /\ i = 1 => swaps[i].amount = route.input
             /\ i = Len(route.hops) => swaps[i].min = route.input
<1> DEFINE amount == IF i = 1 THEN route.input ELSE route.hops[i - 1].est
           min    == IF i = Len(route.hops) THEN route.input ELSE 0
<1>1. HopIxs(route, route.input, programs)[i] = BuildSwap(route.hops[i], amount, min, programs)
  BY RouteShape DEF HopIxs
<1>2. route.hops[i] \in Hops
  BY RouteShape
<1> HIDE DEF amount, min
<1>3. LET ix == BuildSwap(route.hops[i], amount, min, programs)
      IN  SwapOf(ix, route.hops[i]) /\ ix.amount = amount /\ ix.min = min
  BY <1>2, SwapShape
<1> QED BY <1>1, <1>3 DEF amount, min

\* The plan of a route, instruction by instruction.
LEMMA PlanIs ==
  ASSUME NEW route \in Routes, NEW guarded \in BOOLEAN, NEW programs
  PROVE  LET most  == PlanLen(route, guarded)
             P(j)  == PlanIx(route, guarded, programs, j)
             swaps == HopIxs(route, route.input, programs)
         IN  /\ most \in Nat /\ most >= 5
             /\ most = IF guarded THEN 5 ELSE Len(route.hops) + 4
             /\ P(1) = [op |-> "create",
                        accounts |-> {<<m, AtaProgram(m, programs)>> : m \in RouteMints(route)}]
             /\ P(2) = [op |-> "wrap", amount |-> route.input]
             /\ P(most - 1) = [op |-> "unwrap"]
             /\ P(most) = [op |-> "tip", amount |-> Tip]
             /\ \A j \in 3..(most - 2) :
                  P(j) = IF guarded THEN ExecuteArbV2(route, swaps, route.input, programs)
                         ELSE swaps[j - 2]
<1> DEFINE n      == Len(route.hops)
           swaps  == HopIxs(route, route.input, programs)
           create == [op |-> "create",
                      accounts |-> {<<m, AtaProgram(m, programs)>> : m \in RouteMints(route)}]
           wrap   == [op |-> "wrap", amount |-> route.input]
           unwrap == [op |-> "unwrap"]
           tip    == [op |-> "tip", amount |-> Tip]
           most   == PlanLen(route, guarded)
           P(j)   == PlanIx(route, guarded, programs, j)
<1>0. n \in Nat /\ n >= 2 /\ most \in Nat /\ most >= 5
      /\ most = (IF guarded THEN 5 ELSE n + 4)
  BY RouteShape DEF PlanLen
<1>1. P(1) = create /\ P(2) = wrap /\ P(most - 1) = unwrap /\ P(most) = tip
  <2> HIDE DEF create, wrap, unwrap, tip, n, swaps
  <2> QED BY <1>0 DEF PlanIx, create, wrap, unwrap, tip
<1>2. \A j \in 3..(most - 2) :
        P(j) = IF guarded THEN ExecuteArbV2(route, swaps, route.input, programs) ELSE swaps[j - 2]
  <2> HIDE DEF n, swaps
  <2> QED BY <1>0 DEF PlanIx, swaps
<1> HIDE DEF P, most, swaps, create, wrap, unwrap, tip, n
<1> QED BY <1>0, <1>1, <1>2 DEF P, most, swaps, create, wrap, unwrap, tip, n

\* A bundle is its plan: accounts, wrap, hops, unwrap, tip.
LEMMA PlanShape ==
  ASSUME NEW route \in Routes, NEW guarded \in BOOLEAN, NEW programs
  PROVE  LET plan == Plan(route, guarded, programs)
             S    == PlanIxs(route, guarded, programs)
         IN  /\ plan \in Seq(S)
             /\ Len(plan) = PlanLen(route, guarded)
             /\ \A j \in 1..PlanLen(route, guarded) : plan[j] = PlanIx(route, guarded, programs, j)
<1> DEFINE S      == PlanIxs(route, guarded, programs)
           n      == Len(route.hops)
           swaps  == HopIxs(route, route.input, programs)
           arb    == ExecuteArbV2(route, swaps, route.input, programs)
           create == [op |-> "create",
                      accounts |-> {<<m, AtaProgram(m, programs)>> : m \in RouteMints(route)}]
           wrap   == [op |-> "wrap", amount |-> route.input]
           unwrap == [op |-> "unwrap"]
           tip    == [op |-> "tip", amount |-> Tip]
           middle == IF guarded THEN <<arb>> ELSE swaps
           most   == PlanLen(route, guarded)
           P(j)   == PlanIx(route, guarded, programs, j)
<1>0. n \in Nat /\ n >= 2 /\ DOMAIN route.hops = 1..n /\ most \in Nat
      /\ most = (IF guarded THEN 5 ELSE n + 4)
  BY RouteShape DEF PlanLen
<1>1. \A j \in 1..most : P(j) \in S
  BY DEF PlanIxs
<1>2. P(1) = create /\ P(2) = wrap /\ P(most - 1) = unwrap /\ P(most) = tip
  BY PlanIs
<1>3. \A j \in 3..(most - 2) : P(j) = IF guarded THEN arb ELSE swaps[j - 2]
  BY PlanIs
<1> HIDE DEF P, S
<1>4. create \in S /\ wrap \in S /\ unwrap \in S /\ tip \in S
  <2> HIDE DEF create, wrap, unwrap, tip, most
  <2> QED BY <1>0, <1>1, <1>2
<1>5. /\ middle \in Seq(S)
      /\ Len(middle) = most - 4
      /\ \A i \in 1..(most - 4) : middle[i] = P(i + 2)
  <2>1. CASE guarded
    <3>1. middle = <<arb>>
      BY <2>1
    <3> HIDE DEF arb, most, middle, swaps, n
    <3>3. arb = P(3) /\ most = 5
      BY <2>1, <1>0, <1>3
    <3>2. arb \in S
      BY <3>3, <1>1
    <3> QED BY <3>1, <3>2, <3>3
  <2>2. CASE ~guarded
    <3>1. swaps = [i \in 1..n |-> swaps[i]]
      BY <1>0 DEF HopIxs
    <3>2. most = n + 4 /\ middle = swaps
      BY <2>2, <1>0
    <3> HIDE DEF swaps, n, most, middle
    <3>3. \A i \in 1..n : swaps[i] = P(i + 2) /\ i + 2 \in 1..most
      BY <1>0, <1>3, <2>2, <3>2
    <3>4. \A i \in 1..n : swaps[i] \in S
      BY <3>3, <1>1
    <3>5. swaps \in Seq(S) /\ Len(swaps) = n
      BY <1>0, <3>1, <3>4
    <3> QED BY <3>2, <3>3, <3>5
  <2> QED BY <2>1, <2>2
<1>6. Plan(route, guarded, programs)
        = Append(<<create>> \o <<wrap>> \o middle \o <<unwrap>>, tip)
  BY RouteShape DEF Plan, SignedBundle, BuildArbInstructions, CreateAtas, Wrap, Unwrap
<1> HIDE DEF create, wrap, unwrap, tip, middle, most, arb, swaps, n
<1>7. DEFINE s1 == <<create>> \o <<wrap>>
<1>8. s1 \in Seq(S) /\ Len(s1) = 2 /\ s1[1] = create /\ s1[2] = wrap
  BY <1>4
<1> HIDE DEF s1
<1>9. DEFINE s2 == s1 \o middle
<1>10. /\ s2 \in Seq(S) /\ Len(s2) = most - 2
       /\ \A j \in 1..(most - 2) : s2[j] = IF j <= 2 THEN s1[j] ELSE middle[j - 2]
  <2>1. /\ s2 \in Seq(S) /\ Len(s2) = Len(s1) + Len(middle)
        /\ \A j \in 1..(Len(s1) + Len(middle)) :
             s2[j] = IF j <= Len(s1) THEN s1[j] ELSE middle[j - Len(s1)]
    BY <1>5, <1>8, ConcatProperties
  <2>2. Len(s1) = 2 /\ Len(s1) + Len(middle) = most - 2
    BY <1>0, <1>5, <1>8
  <2> HIDE DEF s2
  <2> QED BY <2>1, <2>2
<1> HIDE DEF s2
<1>11. \A j \in 1..(most - 2) : s2[j] = P(j)
  <2> SUFFICES ASSUME NEW j \in 1..(most - 2) PROVE s2[j] = P(j)
    OBVIOUS
  <2>1. CASE j = 1
    BY <2>1, <1>8, <1>10, <1>2
  <2>2. CASE j = 2
    BY <2>2, <1>8, <1>10, <1>2
  <2>3. CASE j > 2
    <3>1. j - 2 \in 1..(most - 4) /\ s2[j] = middle[j - 2]
      BY <2>3, <1>0, <1>10
    <3>2. middle[j - 2] = P((j - 2) + 2) /\ (j - 2) + 2 = j
      BY <3>1, <1>5
    <3> QED BY <3>1, <3>2
  <2> QED BY <2>1, <2>2, <2>3, <1>0
<1>12. DEFINE s3 == s2 \o <<unwrap>>
<1>13. /\ s3 \in Seq(S) /\ Len(s3) = most - 1
       /\ \A j \in 1..(most - 1) : s3[j] = IF j <= most - 2 THEN s2[j] ELSE unwrap
  BY <1>0, <1>4, <1>10
<1> HIDE DEF s3
<1>14. DEFINE s4 == Append(s3, tip)
<1>15. /\ s4 \in Seq(S) /\ Len(s4) = most
       /\ \A j \in 1..most : s4[j] = IF j <= most - 1 THEN s3[j] ELSE tip
  BY <1>0, <1>4, <1>13
<1>16. \A j \in 1..most : s4[j] = P(j)
  <2> HIDE DEF s4
  <2> SUFFICES ASSUME NEW j \in 1..most PROVE s4[j] = P(j)
    OBVIOUS
  <2>1. CASE j \in 1..(most - 2)
    BY <2>1, <1>0, <1>11, <1>13, <1>15
  <2>2. CASE j = most - 1
    BY <2>2, <1>0, <1>2, <1>13, <1>15
  <2>3. CASE j = most
    BY <2>3, <1>0, <1>2, <1>15
  <2> QED BY <2>1, <2>2, <2>3, <1>0
<1>17. Plan(route, guarded, programs) = s4
  BY <1>6 DEF s1, s2, s3
<1> HIDE DEF s4
<1> QED BY <1>15, <1>16, <1>17 DEF P, S, most

----------------------------------------------------------------------------
(* One step of a route's transaction.                                            *)

\* The instruction that runs next, and what is left after it.
LEMMA NextIx ==
  ASSUME NEW route \in Routes, NEW guarded \in BOOLEAN, NEW programs,
         Left(route, guarded, programs), ixs # <<>>
  PROVE  /\ Len(ixs) \in 1..PlanLen(route, guarded)
         /\ Head(ixs) = PlanIx(route, guarded, programs, PlanLen(route, guarded) - Len(ixs) + 1)
         /\ ixs' = Tail(ixs) => Left(route, guarded, programs)' /\ Len(ixs') = Len(ixs) - 1
<1> DEFINE S == PlanIxs(route, guarded, programs)
           most == PlanLen(route, guarded)
           P(j) == PlanIx(route, guarded, programs, j)
<1>1. /\ ixs \in Seq(S) /\ Len(ixs) <= most
      /\ \A j \in 1..Len(ixs) : ixs[j] = P(most - Len(ixs) + j)
  BY DEF Left
<1>2. most \in Nat
  BY RouteShape DEF PlanLen
<1> HIDE DEF S, most, P
<1>3. Len(ixs) \in 1..most /\ Head(ixs) = ixs[1]
  BY <1>1, <1>2
<1>4. /\ Tail(ixs) \in Seq(S) /\ Len(Tail(ixs)) = Len(ixs) - 1
      /\ \A j \in 1..Len(Tail(ixs)) : Tail(ixs)[j] = ixs[j + 1]
  BY <1>1, HeadTailProperties
<1>5. \A j \in 1..Len(Tail(ixs)) : Tail(ixs)[j] = P(most - Len(Tail(ixs)) + j)
  <2> SUFFICES ASSUME NEW j \in 1..Len(Tail(ixs))
               PROVE  Tail(ixs)[j] = P(most - Len(Tail(ixs)) + j)
    OBVIOUS
  <2>1. j + 1 \in 1..Len(ixs) /\ most - Len(Tail(ixs)) + j = most - Len(ixs) + (j + 1)
    BY <1>2, <1>3, <1>4
  <2> QED BY <2>1, <1>1, <1>4
<1>6. ixs' = Tail(ixs) => Left(route, guarded, programs)'
  BY <1>3, <1>4, <1>5, <1>2 DEF Left, S, P, most
<1>7. Head(ixs) = P(most - Len(ixs) + 1)
  BY <1>1, <1>3
<1>8. ixs' = Tail(ixs) => Len(ixs') = Len(ixs) - 1
  BY <1>4
<1> QED BY <1>3, <1>6, <1>7, <1>8 DEF P, most

\* Which instruction that is tells how many are left.
LEMMA NextOp ==
  ASSUME NEW route \in Routes, NEW guarded \in BOOLEAN, NEW programs,
         Left(route, guarded, programs), ixs # <<>>
  PROVE  LET n     == Len(route.hops)
             swaps == HopIxs(route, route.input, programs)
         IN
         \/ Head(ixs).op = "create" /\ Len(ixs) = PlanLen(route, guarded)
         \/ /\ Head(ixs).op = "wrap" /\ Len(ixs) = PlanLen(route, guarded) - 1
            /\ Head(ixs).amount = route.input
         \/ /\ Head(ixs).op = "swap" /\ ~guarded /\ Len(ixs) \in 3..(n + 2)
            /\ Head(ixs) = swaps[n + 3 - Len(ixs)]
         \/ /\ Head(ixs).op = "arb_v2" /\ guarded /\ Len(ixs) = 3
            /\ Head(ixs) = ExecuteArbV2(route, swaps, route.input, programs)
         \/ Head(ixs).op = "unwrap" /\ Len(ixs) = 2
         \/ Head(ixs).op = "tip" /\ Len(ixs) = 1 /\ Head(ixs).amount = Tip
<1> DEFINE n == Len(route.hops)
           most == PlanLen(route, guarded)
           k == most - Len(ixs) + 1
           swaps == HopIxs(route, route.input, programs)
           arb == ExecuteArbV2(route, swaps, route.input, programs)
           P(j) == PlanIx(route, guarded, programs, j)
<1>1. n \in Nat /\ n >= 2 /\ most = (IF guarded THEN 5 ELSE n + 4) /\ most \in Nat /\ most >= 5
  BY RouteShape, PlanIs
<1>2. Len(ixs) \in 1..most /\ Head(ixs) = P(k)
  BY NextIx
<1>3. /\ P(1).op = "create"
      /\ P(2).op = "wrap" /\ P(2).amount = route.input
      /\ P(most - 1).op = "unwrap"
      /\ P(most).op = "tip" /\ P(most).amount = Tip
  <2> HIDE DEF P, most
  <2> QED BY PlanIs DEF P, most
<1>4. \A j \in 3..(most - 2) : P(j) = IF guarded THEN arb ELSE swaps[j - 2]
  BY PlanIs
<1> HIDE DEF n, swaps, P, arb, most
<1>5. k \in 1..most /\ Len(ixs) = most - k + 1
  BY <1>1, <1>2
<1> HIDE DEF k
<1>6. CASE k = 1
  <2>1. Len(ixs) = most
    BY <1>1, <1>5, <1>6
  <2> QED BY <2>1, <1>2, <1>3, <1>6 DEF most
<1>7. CASE k = 2
  <2>1. Len(ixs) = most - 1
    BY <1>1, <1>5, <1>7
  <2> QED BY <2>1, <1>2, <1>3, <1>7 DEF most
<1>8. CASE k = most - 1
  <2>1. Len(ixs) = 2
    BY <1>1, <1>5, <1>8
  <2> QED BY <2>1, <1>2, <1>3, <1>8
<1>9. CASE k = most
  <2>1. Len(ixs) = 1
    BY <1>1, <1>5, <1>9
  <2> QED BY <2>1, <1>2, <1>3, <1>9
<1>10. CASE k \in 3..(most - 2) /\ guarded
  <2>1. Len(ixs) = 3
    BY <1>10, <1>1, <1>5
  <2>2. Head(ixs) = arb /\ arb.op = "arb_v2"
    BY <1>2, <1>4, <1>10 DEF ExecuteArbV2, arb
  <2> QED BY <1>10, <2>1, <2>2 DEF arb, swaps
<1>11. CASE k \in 3..(most - 2) /\ ~guarded
  <2>1. Len(ixs) \in 3..(n + 2) /\ k - 2 = n + 3 - Len(ixs) /\ k - 2 \in 1..n
    BY <1>11, <1>1, <1>5
  <2>2. Head(ixs) = swaps[n + 3 - Len(ixs)]
    BY <2>1, <1>2, <1>4, <1>11
  <2>3. Head(ixs).op = "swap"
    <3>1. \A i \in 1..n : swaps[i].op = "swap"
      <4>1. \A i \in 1..n : SwapOf(swaps[i], route.hops[i])
        BY SwapsShape, Zenon DEF swaps, n
      <4> QED BY <4>1 DEF SwapOf
    <3>2. n + 3 - Len(ixs) \in 1..n
      BY <2>1
    <3> QED BY <3>1, <3>2, <2>2
  <2> QED BY <1>11, <2>1, <2>2, <2>3 DEF swaps, n
<1>12. k \in 3..(most - 2) \/ k = 1 \/ k = 2 \/ k = most - 1 \/ k = most
  BY <1>1, <1>5
<1> QED BY <1>6, <1>7, <1>8, <1>9, <1>10, <1>11, <1>12

\* What a transfer does to the balances.
LEMMA Moved ==
  ASSUME bal \in [Tokens -> Amount], NEW from \in Tokens, NEW to \in Tokens,
         NEW spent, NEW got \in Nat, Move(from, spent, to, got)
  PROVE  /\ spent \in Nat /\ spent <= bal[from]
         /\ bal'[from] = bal[from] - spent /\ bal'[to] = bal[to] + got
         /\ \A t \in Tokens \ {from, to} : bal'[t] = bal[t]
         /\ \A t \in Tokens : bal[t] \in Nat /\ bal'[t] \in Nat
<1>1. \A t \in Tokens : bal[t] \in Nat
  BY GuardAssumption DEF Amount
<1>2. spent \in Nat /\ spent <= bal[from]
  BY <1>1 DEF Move
<1>3. /\ bal'[from] = bal[from] - spent /\ bal'[to] = bal[to] + got
      /\ \A t \in Tokens \ {from, to} : bal'[t] = bal[t]
  BY DEF Move
<1>4. \A t \in Tokens : bal'[t] \in Nat
  <2> SUFFICES ASSUME NEW t \in Tokens PROVE bal'[t] \in Nat
    OBVIOUS
  <2> QED BY <1>1, <1>2, <1>3
<1> QED BY <1>1, <1>2, <1>3, <1>4

\* The mints of a hop are tokens, none of them native SOL; only the ends of a cycle are wSOL.
LEMMA HopMints ==
  ASSUME NEW route \in Routes, NEW i \in 1..Len(route.hops)
  PROVE  LET n == Len(route.hops) IN
         /\ route.hops[i].input \in Mints /\ route.hops[i].output \in Mints
         /\ route.hops[i].input # "sol" /\ route.hops[i].output # "sol"
         /\ "sol" \in Tokens /\ Wsol \in Tokens /\ Mints \subseteq Tokens /\ "sol" # Wsol
         /\ route.hops[i].output = Wsol <=> i = n
         /\ route.hops[i].input = Wsol <=> i = 1
         /\ route.hops[i].input # route.hops[i].output
         /\ i < n => route.hops[i + 1].input = route.hops[i].output
<1> DEFINE n == Len(route.hops)
<1>1. /\ n \in Nat /\ n >= 2 /\ route.hops[i] \in Hops
      /\ route.hops[1].input = Wsol /\ route.hops[n].output = Wsol
      /\ \A j \in 1..(n - 1) : route.hops[j].output = route.hops[j + 1].input
                               /\ route.hops[j].output # Wsol
  BY RouteShape
<1>2. route.hops[i].input \in Mints /\ route.hops[i].output \in Mints
  BY <1>1 DEF Hops
<1>3. "sol" \notin Mints /\ "sol" # Wsol
  BY GuardAssumption DEF Wsol
<1> HIDE DEF n
<1>4. route.hops[i].output = Wsol <=> i = n
  BY <1>1 DEF n
<1>5. i > 1 => route.hops[i].input = route.hops[i - 1].output /\ route.hops[i - 1].output # Wsol
  <2> HAVE i > 1
  <2>1. i - 1 \in 1..(n - 1) /\ (i - 1) + 1 = i
    BY <1>1 DEF n
  <2> QED BY <2>1, <1>1
<1>6. route.hops[i].input = Wsol <=> i = 1
  BY <1>1, <1>5
<1>7. route.hops[i].input # route.hops[i].output
  <2>1. CASE i = 1
    BY <2>1, <1>1, <1>4
  <2>2. CASE i > 1
    <3>1. i - 1 \in 1..n /\ i - 1 # i
      BY <2>2, <1>1 DEF n
    <3>2. route.hops[i - 1].output # route.hops[i].output
      BY <3>1, RouteShape DEF n
    <3> QED BY <3>2, <2>2, <1>5
  <2> QED BY <2>1, <2>2, <1>1 DEF n
<1>8. i < n => route.hops[i + 1].input = route.hops[i].output
  BY <1>1 DEF n
<1> QED BY <1>2, <1>3, <1>4, <1>6, <1>7, <1>8, MintsAssumption DEF Tokens, n

\* Running the next instruction outside execute_arb_v2 keeps the plan.
LEMMA AdvanceRuns ==
  ASSUME NEW route \in Routes, NEW guarded \in BOOLEAN, NEW programs,
         Runs(route, guarded, programs), ixs # <<>>, Advance,
         frame' = NoFrame, Outside(route, guarded)'
  PROVE  Runs(route, guarded, programs)'
BY NextIx DEF Runs, Advance

\* A step that costs no more than it lets the wallet owe keeps what holds between two
\* instructions.
LEMMA OutsideStep ==
  ASSUME NEW route, NEW guarded, Outside(route, guarded), UNCHANGED <<bundle, saved>>,
         bundle.floored => Wealth(bal, atas)' + Owed(route, guarded)' >= Wealth(saved.bal, saved.atas),
         Len(ixs)' > 2 => Wealth(bal, atas)' + Owed(route, guarded)' >= Wealth(saved.bal, saved.atas),
         guarded => \A m \in Mints \ {Wsol} : bal'[m] = bal[m]
  PROVE  Outside(route, guarded)'
<1>1. (bundle.floored \/ Len(ixs) > 2)'
        => Wealth(bal, atas)' + Owed(route, guarded)' >= Wealth(saved.bal, saved.atas)
  <2>1. bundle'.floored = bundle.floored
    OBVIOUS
  <2> QED BY <2>1, Zenon
<1>2. (guarded /\ bundle.dexes \subseteq Aligned)'
        => \A m \in Mints \ {Wsol} : bal'[m] = saved.bal[m]
  BY DEF Outside
<1> QED BY <1>1, <1>2 DEF Outside, Wealth

\* What the wallet has is a number, now and when the transaction began.
LEMMA WealthNat ==
  ASSUME Inv
  PROVE  /\ bal["sol"] \in Nat /\ bal[Wsol] \in Nat /\ Wealth(bal, atas) \in Nat
         /\ saved.bal["sol"] \in Nat /\ saved.bal[Wsol] \in Nat /\ Wealth(saved.bal, saved.atas) \in Nat
         /\ bal \in [Tokens -> Amount] /\ saved.bal \in [Tokens -> Amount]
         /\ atas \in SUBSET Mints /\ saved.atas \in SUBSET Mints
         /\ RentOf(atas) \in Nat /\ RentOf(saved.atas) \in Nat
<1>1. "sol" \in Tokens /\ Wsol \in Tokens
  BY MintsAssumption DEF Tokens
<1>2. /\ atas \in SUBSET Mints /\ saved.atas \in SUBSET Mints
      /\ RentOf(atas) \in Nat /\ RentOf(saved.atas) \in Nat
  BY RentNat DEF Inv
<1> QED BY <1>1, <1>2, GuardAssumption DEF Inv, WindowInv, Amount, Wealth

\* Creating accounts turns SOL into rent.
LEMMA CreateRuns ==
  ASSUME NEW route \in Routes, NEW guarded \in BOOLEAN, NEW programs,
         Runs(route, guarded, programs), Inv, Running("create"), Advance,
         NEW missing \in SUBSET Mints, missing \cap atas = {}, atas' = atas \cup missing,
         bal' = [bal EXCEPT !["sol"] = @ - RentOf(missing)],
         UNCHANGED frame
  PROVE  Runs(route, guarded, programs)'
<1>1. /\ frame = NoFrame /\ ixs # <<>> /\ Head(ixs).op = "create"
      /\ Left(route, guarded, programs) /\ Outside(route, guarded)
  BY DEF Running, Runs
<1>2. Len(ixs) = PlanLen(route, guarded) /\ Len(ixs') = Len(ixs) - 1
  BY <1>1, NextOp, NextIx DEF Advance
<1>3. Owed(route, guarded) = 0 /\ Owed(route, guarded)' = 0 /\ Len(ixs) > 2
  BY <1>2, RouteShape DEF Owed, PlanLen
<1>4. /\ "sol" \in Tokens /\ Wsol \in Tokens /\ "sol" # Wsol /\ "sol" \notin Mints
      /\ RentOf(missing) \in Nat
  BY MintsAssumption, GuardAssumption, RentNat DEF Tokens
<1>5. RentOf(atas)' = RentOf(atas) + RentOf(missing)
  <2>1. RentOf(atas \cup missing) = RentOf(atas) + RentOf(missing)
    BY RentOpened, WealthNat
  <2> QED BY <2>1 DEF RentOf
<1>6. /\ bal'["sol"] = bal["sol"] - RentOf(missing) /\ bal'[Wsol] = bal[Wsol]
      /\ \A m \in Mints \ {Wsol} : bal'[m] = bal[m]
  BY <1>4, WealthNat DEF Tokens
<1>7. Wealth(bal, atas)' = Wealth(bal, atas)
  <2>1. /\ Wealth(bal, atas) = bal["sol"] + bal[Wsol] + RentOf(atas)
        /\ Wealth(bal, atas)' = bal'["sol"] + bal'[Wsol] + RentOf(atas)'
    BY DEF Wealth
  <2> QED BY <2>1, <1>4, <1>5, <1>6, WealthNat
<1>8. UNCHANGED <<bundle, saved>>
  BY DEF Advance
<1>9. Wealth(bal, atas)' + Owed(route, guarded)' >= Wealth(saved.bal, saved.atas)
  <2>1. Wealth(bal, atas) + Owed(route, guarded) >= Wealth(saved.bal, saved.atas)
    BY <1>1, <1>3, Zenon DEF Outside
  <2> QED BY <2>1, <1>3, <1>7
<1>10. Outside(route, guarded)'
  BY <1>1, <1>6, <1>8, <1>9, OutsideStep
<1> QED BY <1>1, <1>10, AdvanceRuns

\* Wrapping and unwrapping move SOL between its two forms.
LEMMA WrapRuns ==
  ASSUME NEW route \in Routes, NEW guarded \in BOOLEAN, NEW programs,
         Runs(route, guarded, programs), Inv, Running("wrap"), Advance,
         Move("sol", Head(ixs).amount, Wsol, Head(ixs).amount), UNCHANGED <<frame, atas>>
  PROVE  Runs(route, guarded, programs)'
<1>1. /\ frame = NoFrame /\ ixs # <<>> /\ Head(ixs).op = "wrap"
      /\ Left(route, guarded, programs) /\ Outside(route, guarded)
  BY DEF Running, Runs
<1>2. /\ Len(ixs) = PlanLen(route, guarded) - 1 /\ Len(ixs') = Len(ixs) - 1
      /\ Head(ixs).amount = route.input
  BY <1>1, NextOp, NextIx DEF Advance
<1>3. Owed(route, guarded) = 0 /\ Owed(route, guarded)' = 0 /\ Len(ixs) > 2
  BY <1>2, RouteShape DEF Owed, PlanLen
<1>4. "sol" \in Tokens /\ Wsol \in Tokens /\ route.input \in Nat
  BY MintsAssumption, RouteShape DEF Tokens
<1>5. /\ Wealth(bal, atas)' = Wealth(bal, atas) /\ Wealth(bal, atas) \in Nat
      /\ \A m \in Mints \ {Wsol} : bal'[m] = bal[m]
  <2>1. /\ bal'["sol"] = bal["sol"] - route.input /\ bal'[Wsol] = bal[Wsol] + route.input
        /\ \A t \in Tokens \ {"sol", Wsol} : bal'[t] = bal[t]
        /\ bal["sol"] \in Nat /\ bal[Wsol] \in Nat
    BY <1>2, <1>4, Moved, WealthNat
  <2>2. "sol" \notin Mints /\ RentOf(atas)' = RentOf(atas) /\ RentOf(atas) \in Nat
    BY GuardAssumption, WealthNat DEF RentOf
  <2>3. /\ Wealth(bal, atas) = bal["sol"] + bal[Wsol] + RentOf(atas)
        /\ Wealth(bal, atas)' = bal'["sol"] + bal'[Wsol] + RentOf(atas)'
    BY DEF Wealth
  <2> QED BY <2>1, <2>2, <2>3, <1>4 DEF Tokens
<1>6. Outside(route, guarded)'
  BY <1>1, <1>3, <1>5 DEF Outside, Advance, Wealth
<1> QED BY <1>1, <1>6, AdvanceRuns

\* Closing the wSOL account moves all of it back, the rent too.
LEMMA UnwrapRuns ==
  ASSUME NEW route \in Routes, NEW guarded \in BOOLEAN, NEW programs,
         Runs(route, guarded, programs), Inv, Running("unwrap"), Advance,
         Move(Wsol, bal[Wsol], "sol", bal[Wsol] + Rent), Wsol \in atas, atas' = atas \ {Wsol},
         UNCHANGED frame
  PROVE  Runs(route, guarded, programs)'
<1>1. /\ frame = NoFrame /\ ixs # <<>> /\ Head(ixs).op = "unwrap"
      /\ Left(route, guarded, programs) /\ Outside(route, guarded)
  BY DEF Running, Runs
<1>2. Len(ixs) = 2 /\ Len(ixs') = 1
  BY <1>1, NextOp, NextIx DEF Advance
<1>3. Owed(route, guarded) = 0 /\ Owed(route, guarded)' = 0
  BY <1>2 DEF Owed
<1>4. "sol" \in Tokens /\ Wsol \in Tokens /\ bal[Wsol] \in Nat
  BY MintsAssumption, WealthNat DEF Tokens
<1>5. /\ Wealth(bal, atas)' = Wealth(bal, atas) /\ Wealth(bal, atas) \in Nat
      /\ \A m \in Mints \ {Wsol} : bal'[m] = bal[m]
  <2>1. /\ bal'["sol"] = bal["sol"] + (bal[Wsol] + Rent) /\ bal'[Wsol] = bal[Wsol] - bal[Wsol]
        /\ \A t \in Tokens \ {"sol", Wsol} : bal'[t] = bal[t]
    BY <1>4, Moved, WealthNat, GuardAssumption
  <2>2. RentOf(atas) = RentOf(atas)' + Rent
    <3>1. RentOf(atas) = RentOf(atas \ {Wsol}) + Rent
      BY RentClosed, WealthNat
    <3> QED BY <3>1 DEF RentOf
  <2>3. /\ Wealth(bal, atas) = bal["sol"] + bal[Wsol] + RentOf(atas)
        /\ Wealth(bal, atas)' = bal'["sol"] + bal'[Wsol] + RentOf(atas)'
    BY DEF Wealth
  <2>4. RentOf(atas)' \in Nat
    <3>1. RentOf(atas \ {Wsol}) \in Nat
      BY RentNat, WealthNat
    <3> QED BY <3>1 DEF RentOf
  <2>5. "sol" \notin Mints /\ Rent \in Nat
    BY GuardAssumption
  <2>6. Wealth(bal, atas)' = Wealth(bal, atas)
    BY <2>1, <2>2, <2>3, <2>4, <2>5, <1>4, WealthNat
  <2> QED BY <2>1, <2>5, <2>6, WealthNat DEF Tokens
<1>6. bundle.floored => Wealth(bal, atas) >= Wealth(saved.bal, saved.atas)
  BY <1>1, <1>3, WealthNat DEF Outside
<1>7. UNCHANGED <<bundle, saved>> /\ ~(Len(ixs)' > 2)
  <2>1. UNCHANGED <<bundle, saved>>
    BY DEF Advance
  <2>2. Len(ixs)' = 1
    BY <1>2
  <2> QED BY <2>1, <2>2
<1>8. bundle.floored => Wealth(bal, atas)' + Owed(route, guarded)' >= Wealth(saved.bal, saved.atas)
  BY <1>3, <1>5, <1>6
<1>9. Outside(route, guarded)'
  BY <1>1, <1>5, <1>7, <1>8, OutsideStep
<1> QED BY <1>1, <1>9, AdvanceRuns

\* The tip is what a bundle may cost.
LEMMA TipRuns ==
  ASSUME NEW route \in Routes, NEW guarded \in BOOLEAN, NEW programs,
         Runs(route, guarded, programs), Inv, Running("tip"), Advance,
         bal' = [bal EXCEPT !["sol"] = @ - Head(ixs).amount], UNCHANGED <<frame, atas>>
  PROVE  Runs(route, guarded, programs)'
<1>1. /\ frame = NoFrame /\ ixs # <<>> /\ Head(ixs).op = "tip"
      /\ Left(route, guarded, programs) /\ Outside(route, guarded)
  BY DEF Running, Runs
<1>2. Len(ixs) = 1 /\ Len(ixs') = 0 /\ Head(ixs).amount = Tip
  BY <1>1, NextOp, NextIx DEF Advance
<1>3. Owed(route, guarded) = 0 /\ Owed(route, guarded)' = Tip
  BY <1>2 DEF Owed
<1>4. /\ "sol" \in Tokens /\ Wsol \in Tokens /\ "sol" # Wsol /\ "sol" \notin Mints /\ Tip \in Nat
      /\ MaxU64 \in Nat
  BY MintsAssumption, GuardAssumption DEF Tokens
<1>5. /\ bal["sol"] \in Nat /\ bal[Wsol] \in Nat
      /\ saved.bal["sol"] \in Nat /\ saved.bal[Wsol] \in Nat
  BY <1>4 DEF Inv, WindowInv, Amount
<1>6. /\ bal'["sol"] = bal["sol"] - Tip /\ bal'[Wsol] = bal[Wsol]
      /\ \A m \in Mints \ {Wsol} : bal'[m] = bal[m]
  BY <1>2, <1>4 DEF Inv, WindowInv, Tokens
<1>7. Wealth(bal, atas)' + Tip = Wealth(bal, atas)
  <2>1. RentOf(atas)' = RentOf(atas) /\ RentOf(atas) \in Nat
    BY WealthNat DEF RentOf
  <2>2. /\ Wealth(bal, atas) = bal["sol"] + bal[Wsol] + RentOf(atas)
        /\ Wealth(bal, atas)' = bal'["sol"] + bal'[Wsol] + RentOf(atas)'
    BY DEF Wealth
  <2> QED BY <2>1, <2>2, <1>4, <1>5, <1>6
<1>8. bundle.floored => Wealth(bal, atas) >= Wealth(saved.bal, saved.atas)
  BY <1>1, <1>3, WealthNat DEF Outside
<1>9. UNCHANGED <<bundle, saved>> /\ ~(Len(ixs)' > 2)
  <2>1. UNCHANGED <<bundle, saved>>
    BY DEF Advance
  <2>2. Len(ixs)' = 0
    BY <1>2
  <2> QED BY <2>1, <2>2
<1>10. bundle.floored => Wealth(bal, atas)' + Owed(route, guarded)' >= Wealth(saved.bal, saved.atas)
  BY <1>3, <1>7, <1>8
<1>11. Outside(route, guarded)'
  BY <1>1, <1>6, <1>9, <1>10, OutsideStep
<1> QED BY <1>1, <1>11, AdvanceRuns

\* Of the raw swaps the first spends the input at most, and the last one returns it.
LEMMA SwapRuns ==
  ASSUME NEW route \in Routes, NEW guarded \in BOOLEAN, NEW programs,
         Runs(route, guarded, programs), Inv, Running("swap"), Advance, UNCHANGED <<frame, atas>>,
         NEW spent, NEW got \in Amount, Fills(Head(ixs), spent, got),
         Move(Head(ixs).from[1], spent, Head(ixs).to[1], got)
  PROVE  Runs(route, guarded, programs)'
<1> DEFINE n == Len(route.hops)
           i == n + 3 - Len(ixs)
           ix == Head(ixs)
           hop == route.hops[i]
           from == ix.from[1]
           to == ix.to[1]
<1>1. /\ frame = NoFrame /\ ixs # <<>> /\ ix.op = "swap"
      /\ Left(route, guarded, programs) /\ Outside(route, guarded)
      /\ bundle = Description(route, guarded)
  BY DEF Running, Runs
<1>2. /\ ~guarded /\ Len(ixs) \in 3..(n + 2) /\ Len(ixs)' = Len(ixs) - 1
      /\ ix = HopIxs(route, route.input, programs)[i]
  BY <1>1, NextOp, NextIx DEF Advance
<1>3. n \in Nat /\ n >= 2 /\ i \in 1..n /\ route.input \in Nat
  BY <1>2, RouteShape
<1>4. /\ from = hop.input /\ to = hop.output /\ ix.dex = hop.dex /\ ix.aToB = hop.aToB
      /\ i = 1 => ix.amount = route.input
      /\ i = n => ix.min = route.input
  <2>1. \A j \in 1..n :
          LET swaps == HopIxs(route, route.input, programs) IN
          /\ SwapOf(swaps[j], route.hops[j])
          /\ j = 1 => swaps[j].amount = route.input
          /\ j = n => swaps[j].min = route.input
    BY SwapsShape
  <2> HIDE DEF i, ix
  <2> QED BY <2>1, <1>2, <1>3 DEF SwapOf
<1>5. /\ from \in Mints /\ to \in Mints /\ from # "sol" /\ to # "sol" /\ "sol" # Wsol
      /\ "sol" \in Tokens /\ Wsol \in Tokens /\ Mints \subseteq Tokens
      /\ to = Wsol <=> i = n
      /\ from = Wsol <=> i = 1
  <2>1. /\ hop.input \in Mints /\ hop.output \in Mints
        /\ hop.input # "sol" /\ hop.output # "sol" /\ "sol" # Wsol
        /\ "sol" \in Tokens /\ Wsol \in Tokens /\ Mints \subseteq Tokens
        /\ hop.output = Wsol <=> i = n
        /\ hop.input = Wsol <=> i = 1
    BY <1>3, HopMints
  <2>2. from = hop.input /\ to = hop.output
    BY <1>4
  <2> HIDE DEF from, to, hop, i, n
  <2> QED BY <2>1, <2>2, Zenon
<1>6. /\ spent \in Nat /\ got \in Nat /\ spent <= ix.amount
      /\ i = n /\ bundle.floored => got >= route.input
  <2>1. got \in Nat
    BY GuardAssumption DEF Amount
  <2>2. spent \in Nat /\ spent <= ix.amount
    BY GuardAssumption DEF Fills, Amount
  <2>3. ASSUME i = n, bundle.floored PROVE got >= route.input
    <3>1. ~SellsOnPhoenix(hop)
      <4>1. bundle.floored = (guarded \/ ~SellsOnPhoenix(route.hops[n]))
        BY <1>1 DEF Description
      <4> QED BY <4>1, <1>2, <2>3, Zenon
    <3>2. ~SellsOnPhoenix(ix)
      BY <3>1, <1>4 DEF SellsOnPhoenix
    <3>3. got = ix.min \/ got >= ix.min
      BY <3>2 DEF Fills
    <3> QED BY <3>3, <2>1, <2>3, <1>3, <1>4
  <2> QED BY <2>1, <2>2, <2>3
<1> HIDE DEF i, hop, ix, from, to, n
<1>7. /\ bal'[from] = bal[from] - spent /\ bal'[to] = bal[to] + got
      /\ \A t \in Tokens \ {from, to} : bal'[t] = bal[t]
      /\ \A t \in Tokens : bal[t] \in Nat /\ bal'[t] \in Nat
  <2>1. Move(from, spent, to, got)
    BY DEF from, to, ix
  <2> QED BY <2>1, <1>5, <1>6, Moved, WealthNat
<1>8. /\ Owed(route, guarded) = IF i = 1 THEN 0 ELSE route.input
      /\ Owed(route, guarded)' = IF i = n THEN 0 ELSE route.input
      /\ Len(ixs) > 2
      /\ Len(ixs)' > 2 => i # n
  <2> DEFINE L == Len(ixs)
             M == Len(ixs)'
  <2>1. L \in Nat /\ L >= 3 /\ L <= n + 2 /\ M = L - 1 /\ i = n + 3 - L
    BY <1>2, <1>3 DEF i, n
  <2> HIDE DEF L, M
  <2>2. L # 0 /\ L > 2 /\ M # 0 /\ (M > 2 => i # n)
    BY <2>1, <1>3
  <2>3. L \in 3..(n + 1) <=> i # 1
    BY <2>1, <1>3
  <2>4. M \in 3..(n + 1) <=> i # n
    BY <2>1, <1>3
  <2>5. Owed(route, guarded) = IF i = 1 THEN 0 ELSE route.input
    BY <2>2, <2>3, <1>2, Zenon DEF Owed, L, n
  <2>6. Owed(route, guarded)' = IF i = n THEN 0 ELSE route.input
    BY <2>2, <2>4, <1>2, Zenon DEF Owed, M, n
  <2> QED BY <2>2, <2>5, <2>6, Zenon DEF L, M
<1>9. /\ Wealth(bal, atas) + Owed(route, guarded) >= Wealth(saved.bal, saved.atas)
      /\ Wealth(bal, atas) \in Nat /\ Wealth(saved.bal, saved.atas) \in Nat
      /\ bal["sol"] \in Nat /\ bal[Wsol] \in Nat
      /\ Wealth(bal, atas) = bal["sol"] + bal[Wsol] + RentOf(atas)
      /\ Wealth(bal, atas)' = bal'["sol"] + bal'[Wsol] + RentOf(atas) /\ RentOf(atas) \in Nat
  <2>1. Wealth(bal, atas) + Owed(route, guarded) >= Wealth(saved.bal, saved.atas)
    BY <1>1, <1>8, Zenon DEF Outside
  <2>2. Wealth(bal, atas)' = bal'["sol"] + bal'[Wsol] + RentOf(atas)
    BY DEF Wealth, RentOf
  <2>3. Wealth(bal, atas) = bal["sol"] + bal[Wsol] + RentOf(atas)
    BY DEF Wealth
  <2> QED BY <2>1, <2>2, <2>3, WealthNat
<1>10. bundle.floored \/ i # n => Wealth(bal, atas)' + Owed(route, guarded)' >= Wealth(saved.bal, saved.atas)
  <2>1. CASE i = 1
    <3>1. bal'["sol"] = bal["sol"] /\ bal'[Wsol] = bal[Wsol] - spent
      BY <2>1, <1>3, <1>5, <1>7
    <3>2. Wealth(bal, atas)' = Wealth(bal, atas) - spent
      BY <3>1, <1>6, <1>9
    <3>3. spent <= route.input /\ Owed(route, guarded) = 0 /\ Owed(route, guarded)' = route.input
      BY <2>1, <1>3, <1>4, <1>6, <1>8
    <3> QED BY <3>2, <3>3, <1>3, <1>6, <1>9
  <2>2. CASE i = n
    <3>1. bal'["sol"] = bal["sol"] /\ bal'[Wsol] = bal[Wsol] + got
      BY <2>2, <1>3, <1>5, <1>7
    <3>2. Wealth(bal, atas)' = Wealth(bal, atas) + got
      BY <3>1, <1>6, <1>9
    <3>3. Owed(route, guarded) = route.input /\ Owed(route, guarded)' = 0
      BY <2>2, <1>3, <1>8
    <3>4. ASSUME got >= route.input
          PROVE  Wealth(bal, atas)' + Owed(route, guarded)' >= Wealth(saved.bal, saved.atas)
      BY <3>2, <3>3, <3>4, <1>3, <1>6, <1>9
    <3> QED BY <2>2, <3>4, <1>6, Zenon
  <2>3. CASE i # 1 /\ i # n
    <3>1. bal'["sol"] = bal["sol"] /\ bal'[Wsol] = bal[Wsol]
      BY <2>3, <1>3, <1>5, <1>7
    <3>2. Wealth(bal, atas)' = Wealth(bal, atas)
      BY <3>1, <1>9
    <3>3. Owed(route, guarded)' = Owed(route, guarded)
      BY <2>3, <1>8
    <3> QED BY <3>2, <3>3, <1>9
  <2> QED BY <2>1, <2>2, <2>3
<1>11. bundle.floored => Wealth(bal, atas)' + Owed(route, guarded)' >= Wealth(saved.bal, saved.atas)
  BY <1>10, Zenon
<1>12. Len(ixs)' > 2 => Wealth(bal, atas)' + Owed(route, guarded)' >= Wealth(saved.bal, saved.atas)
  BY <1>8, <1>10, Zenon
<1>13. Outside(route, guarded)'
  BY <1>1, <1>2, <1>11, <1>12, OutsideStep DEF Advance
<1> QED BY <1>1, <1>13, AdvanceRuns

\* The hops of execute_arb_v2: the swap, where its amount stands, and where it pays.
LEMMA ArbShape ==
  ASSUME NEW route \in Routes, NEW programs
  PROVE  LET hops == ArbHops(route, programs)
             n    == Len(route.hops) IN
         /\ hops \in Seq(ArbHopSet(route, programs)) /\ Len(hops) = n
         /\ \A i \in 1..n :
              /\ hops[i].ix = HopIxs(route, route.input, programs)[i]
              /\ SwapOf(hops[i].ix, route.hops[i])
              /\ hops[i].offset = RecordedOffset(route.hops[i].dex)
              /\ hops[i].out = OutputAccount(route.hops[i], programs)
<1> DEFINE swaps == HopIxs(route, route.input, programs)
           n == Len(route.hops)
           hops == ArbHops(route, programs)
<1>1. n \in Nat /\ DOMAIN swaps = 1..n
  BY RouteShape DEF HopIxs
<1>2. \A i \in 1..n : SwapOf(swaps[i], route.hops[i])
  BY SwapsShape
<1> HIDE DEF swaps, n
<1>3. hops = [i \in 1..n |-> [ix |-> swaps[i], offset |-> RecordedOffset(swaps[i].dex),
                               out |-> OutputAccount(route.hops[i], programs)]]
  BY <1>1 DEF ArbHops, ExecuteArbV2, swaps
<1> HIDE DEF hops
<1>4. hops \in Seq(ArbHopSet(route, programs)) /\ Len(hops) = n
  <2>1. hops = [i \in 1..n |-> hops[i]]
    BY <1>3
  <2>2. \A i \in 1..n : hops[i] \in ArbHopSet(route, programs)
    BY DEF ArbHopSet, hops, n
  <2> QED BY <1>1, <2>1, <2>2
<1>5. \A i \in 1..n : swaps[i].dex = route.hops[i].dex
  BY <1>2 DEF SwapOf
<1> QED BY <1>2, <1>3, <1>4, <1>5 DEF hops, swaps, n

\* execute_arb_v2 starts from the balance of wSOL.
LEMMA EnterRuns ==
  ASSUME NEW route \in Routes, NEW guarded \in BOOLEAN, NEW programs,
         Runs(route, guarded, programs), Inv, EnterArbV2
  PROVE  Runs(route, guarded, programs)'
<1> DEFINE n == Len(route.hops)
           hops == ArbHops(route, programs)
<1>1. /\ frame = NoFrame /\ ixs # <<>> /\ Head(ixs).op = "arb_v2" /\ Advance /\ bal' = bal /\ atas' = atas
      /\ Left(route, guarded, programs) /\ Outside(route, guarded)
      /\ bundle = Description(route, guarded)
  BY DEF EnterArbV2, Running, Runs
<1>2. /\ guarded /\ Len(ixs) = 3 /\ Len(ixs)' = 2
      /\ Head(ixs) = ExecuteArbV2(route, HopIxs(route, route.input, programs), route.input, programs)
  BY <1>1, NextOp, NextIx DEF Advance
<1>3. Head(ixs).hops = hops /\ Head(ixs).min = route.input
  BY <1>2 DEF ArbHops, ExecuteArbV2
<1>4. /\ n \in Nat /\ n >= 2 /\ Len(hops) = n /\ hops[n].out[1] = Wsol
      /\ hops \in Seq(ArbHopSet(route, programs))
  <2>1. n \in Nat /\ n >= 2 /\ route.hops[n].output = Wsol
    BY RouteShape
  <2>2. /\ hops \in Seq(ArbHopSet(route, programs)) /\ Len(hops) = n
        /\ \A i \in 1..n : hops[i].out = OutputAccount(route.hops[i], programs)
    BY ArbShape
  <2> HIDE DEF n, hops
  <2> QED BY <2>1, <2>2 DEF OutputAccount
<1> HIDE DEF hops, n
<1>5. frame' = [kind |-> "v2", hops |-> hops, min |-> route.input, profit |-> Wsol,
                start |-> bal[Wsol], interim |-> 0, first |-> TRUE]
  BY <1>3, <1>4 DEF EnterArbV2
<1>6. Wealth(bal, atas) >= Wealth(saved.bal, saved.atas)
  <2>1. Owed(route, guarded) = 0
    BY <1>2 DEF Owed
  <2>2. Len(ixs) > 2
    BY <1>2
  <2>3. Wealth(bal, atas) + Owed(route, guarded) >= Wealth(saved.bal, saved.atas)
    BY <1>1, <2>2, Zenon DEF Outside
  <2> QED BY <2>1, <2>3, WealthNat
<1>7. bal[Wsol] \in Amount /\ 0 \in Amount
  BY WealthNat, MintsAssumption, GuardAssumption DEF Tokens, Amount
<1>8. ASSUME bundle.dexes \subseteq Aligned, NEW m \in Mints \ {Wsol}
      PROVE  bal[m] = saved.bal[m] + 0
  <2>1. saved.bal[m] \in Nat
    BY WealthNat, GuardAssumption DEF Tokens, Amount
  <2>2. bal[m] = saved.bal[m]
    BY <1>1, <1>2, <1>8, Zenon DEF Outside
  <2> QED BY <2>1, <2>2
<1>9. Inside(route, programs)'
  <2>1. /\ frame'.kind = "v2" /\ frame'.profit = Wsol /\ frame'.min = route.input
        /\ frame'.start = bal[Wsol] /\ frame'.interim = 0 /\ frame'.first = TRUE
        /\ frame'.hops = hops
    BY <1>5
  <2>2. bal'["sol"] + frame'.start + RentOf(atas)' >= Wealth(saved.bal, saved.atas)'
    <3>1. RentOf(atas)' = RentOf(atas) /\ Wealth(saved.bal, saved.atas)' = Wealth(saved.bal, saved.atas)
      BY <1>1 DEF RentOf, Wealth, Advance
    <3> QED BY <1>1, <1>6, <2>1, <3>1 DEF Wealth
  <2>3. /\ frame'.hops \in Seq(ArbHopSet(route, programs)) /\ Len(frame'.hops) = n
        /\ \A j \in 1..Len(frame'.hops) : frame'.hops[j] = hops[n - Len(frame'.hops) + j]
    BY <1>4, <2>1
  <2>4. frame' \in [kind : {"v2"}, hops : Seq(ArbHopSet(route, programs)), min : {route.input},
                    profit : {Wsol}, start : Amount, interim : Amount, first : BOOLEAN]
    BY <1>4, <1>5, <1>7
  <2>5. ASSUME bundle'.dexes \subseteq Aligned, NEW m \in Mints \ {Wsol}
        PROVE  bal'[m] = saved'.bal[m] + Received(route, m)'
    <3>1. Received(route, m)' = 0
      BY <1>4, <2>3 DEF Received, n
    <3>2. bal'[m] = bal[m] /\ saved' = saved /\ bundle' = bundle
      BY <1>1 DEF Advance
    <3> QED BY <1>8, <2>5, <3>1, <3>2
  <2>6. frame'.first = (Len(frame'.hops) = n)
    BY <2>1, <2>3
  <2> QED BY <1>4, <2>1, <2>2, <2>3, <2>4, <2>5, <2>6 DEF Inside, hops, n
<1>10. Left(route, guarded, programs)'
  BY <1>1, NextIx DEF Advance
<1>11. frame' # NoFrame
  BY <1>5 DEF NoFrame
<1> QED BY <1>1, <1>2, <1>9, <1>10, <1>11 DEF Runs, Advance

\* It ends with what it was asked for, and has then lost nothing.
LEMMA LeaveRuns ==
  ASSUME NEW route \in Routes, NEW guarded \in BOOLEAN, NEW programs,
         Runs(route, guarded, programs), Inv, InArb, frame.hops = <<>>, ArbHolds,
         frame' = NoFrame, UNCHANGED <<bal, atas, ixs, saved, bundle>>
  PROVE  Runs(route, guarded, programs)'
<1>1. /\ guarded /\ Len(ixs) = 2 /\ Inside(route, programs) /\ Left(route, guarded, programs)
  BY DEF InArb, Runs
<1>2. bal["sol"] + frame.start + RentOf(atas) >= Wealth(saved.bal, saved.atas) /\ bal[Wsol] >= frame.start + route.input
  BY <1>1 DEF Inside, ArbHolds
<1>3. Wealth(bal, atas) >= Wealth(saved.bal, saved.atas)
  <2>1. frame.start \in Nat /\ route.input \in Nat
    BY <1>1, RouteShape, GuardAssumption DEF Inside, Amount
  <2>2. bal["sol"] \in Nat /\ bal[Wsol] \in Nat /\ Wealth(saved.bal, saved.atas) \in Nat
        /\ RentOf(atas) \in Nat
    BY WealthNat
  <2>3. bal["sol"] + bal[Wsol] + RentOf(atas) >= Wealth(saved.bal, saved.atas)
    BY <1>2, <2>1, <2>2
  <2> QED BY <2>3 DEF Wealth
<1>4. ASSUME bundle.dexes \subseteq Aligned, NEW m \in Mints \ {Wsol}
      PROVE  bal[m] = saved.bal[m]
  <2>1. Len(frame.hops) = 0 /\ Len(route.hops) \in Nat
    BY RouteShape
  <2>2. Received(route, m) = 0
    BY <2>1 DEF Received
  <2>3. saved.bal[m] \in Nat
    BY WealthNat, GuardAssumption DEF Tokens, Amount
  <2>4. bal[m] = saved.bal[m] + Received(route, m)
    BY <1>1, <1>4, Zenon DEF Inside
  <2> QED BY <2>2, <2>3, <2>4
<1>5. Owed(route, guarded)' = 0
  BY <1>1 DEF Owed
<1>6. Outside(route, guarded)'
  <2>1. Wealth(bal, atas)' = Wealth(bal, atas) /\ Wealth(saved.bal, saved.atas)' = Wealth(saved.bal, saved.atas)
    BY DEF Wealth, RentOf
  <2> QED BY <2>1, <1>3, <1>4, <1>5, WealthNat DEF Outside
<1> QED BY <1>1, <1>6 DEF Runs, Left

\* The data a hop is called with differs from what was built in the two amounts only, and
\* has the amount that the hop before received if the offset is the right one.
LEMMA DataShape ==
  ASSUME NEW hop, NEW ix, ix \in HopData(hop), DOMAIN hop.ix = IxFields,
         frame.kind = "v2", frame.first \in BOOLEAN
  PROVE  /\ ix.from = hop.ix.from /\ ix.to = hop.ix.to /\ ix.dex = hop.ix.dex
         /\ frame.first => ix = hop.ix
         /\ ~frame.first /\ hop.ix.amountAt = hop.offset => ix.amount = frame.interim
<1>1. CASE frame.first
  BY <1>1 DEF HopData
<1>2. CASE ~frame.first
  <2>1. ix \in Rewritten(hop.ix, hop.offset, frame.interim)
    BY <1>2 DEF HopData
  <2> DEFINE A == Field(hop.ix.amountAt, hop.offset, hop.ix.amount, frame.interim)
             M == Field(hop.ix.minAt, hop.offset, hop.ix.min, frame.interim)
  <2>2. ix \in {WithAmounts(hop.ix, a, m) : a \in A, m \in M}
    BY <2>1 DEF Rewritten
  <2> HIDE DEF A, M
  <2>3. PICK a \in A, m \in M : ix = WithAmounts(hop.ix, a, m)
    BY <2>2
  <2>4. /\ ix.from = hop.ix.from /\ ix.to = hop.ix.to /\ ix.dex = hop.ix.dex
        /\ ix.amount = a
    BY <2>3 DEF IxFields, WithAmounts
  <2>5. hop.ix.amountAt = hop.offset => a = frame.interim
    BY <2>3 DEF Field, A
  <2> QED BY <1>2, <2>4, <2>5
<1> QED BY <1>1, <1>2

\* A hop moves what it spends and receives; native SOL and the start stay as they are.
LEMMA HopMoves ==
  ASSUME NEW route \in Routes, NEW programs, Inside(route, programs), Inv, Hop
  PROVE  LET n == Len(route.hops)
             i == n + 1 - Len(frame.hops)
             h == route.hops[i]
         IN  /\ i \in 1..n /\ Len(frame.hops) \in 1..n
             /\ \E spent \in Nat, got \in Amount :
                  /\ bal'[h.input] = bal[h.input] - spent
                  /\ bal'[h.output] = bal[h.output] + got
                  /\ \A t \in Tokens \ {h.input, h.output} : bal'[t] = bal[t]
                  /\ h.dex \in Aligned /\ i > 1 => spent = frame.interim
                  /\ frame' = [frame EXCEPT !.hops = Tail(@), !.first = FALSE, !.interim = got]
<1> DEFINE n == Len(route.hops)
           i == n + 1 - Len(frame.hops)
           h == route.hops[i]
           hop == Head(frame.hops)
<1>1. /\ n \in Nat /\ n >= 2
      /\ frame.hops \in Seq(ArbHopSet(route, programs)) /\ frame.hops # <<>>
      /\ Len(frame.hops) <= n
      /\ \A j \in 1..Len(frame.hops) :
           frame.hops[j] = ArbHops(route, programs)[n - Len(frame.hops) + j]
      /\ frame.kind = "v2" /\ frame.first \in BOOLEAN
      /\ frame.first = (Len(frame.hops) = n)
  BY RouteShape DEF Hop, Inside
<1> HIDE DEF n
<1>2. Len(frame.hops) \in 1..n /\ hop = frame.hops[1]
  BY <1>1
<1>3. i \in 1..n /\ n - Len(frame.hops) + 1 = i /\ (frame.first <=> i = 1)
  <2>1. i \in 1..n /\ n - Len(frame.hops) + 1 = i
    BY <1>1, <1>2
  <2>2. Len(frame.hops) = n <=> i = 1
    BY <1>1, <1>2
  <2> QED BY <2>1, <2>2, <1>1, Zenon
<1>4. hop = ArbHops(route, programs)[i]
  <2>1. frame.hops[1] = ArbHops(route, programs)[n - Len(frame.hops) + 1]
    <3>1. 1 \in 1..Len(frame.hops)
      BY <1>1, <1>2
    <3> QED BY <3>1, <1>1, Zenon
  <2> QED BY <2>1, <1>2, <1>3, Zenon
<1> HIDE DEF i
<1>5. /\ DOMAIN hop.ix = IxFields /\ hop.ix.from[1] = h.input /\ hop.ix.to[1] = h.output
      /\ hop.out[1] = h.output /\ hop.ix.dex = h.dex
      /\ h.dex \in Aligned => hop.ix.amountAt = hop.offset
  <2>1. LET hops == ArbHops(route, programs) IN
        /\ SwapOf(hops[i].ix, h)
        /\ hops[i].offset = RecordedOffset(h.dex)
        /\ hops[i].out = OutputAccount(h, programs)
    BY <1>3, ArbShape DEF n
  <2> HIDE DEF hop, h
  <2> QED BY <2>1, <1>4 DEF SwapOf, OutputAccount
<1>6. PICK ix \in HopData(hop), spent \in Amount, got \in Amount :
        /\ Fills(ix, spent, got)
        /\ Move(ix.from[1], spent, ix.to[1], got)
        /\ frame' = [frame EXCEPT !.hops = Tail(@), !.first = FALSE,
                                  !.interim = bal'[hop.out[1]] - bal[hop.out[1]]]
  BY <1>1 DEF Hop
<1>7. /\ ix.from[1] = h.input /\ ix.to[1] = h.output /\ ix.dex = h.dex
      /\ h.dex \in Aligned /\ i > 1 => ix.amount = frame.interim
  <2>1. /\ ix.from = hop.ix.from /\ ix.to = hop.ix.to /\ ix.dex = hop.ix.dex
        /\ ~frame.first /\ hop.ix.amountAt = hop.offset => ix.amount = frame.interim
    BY <1>1, <1>5, DataShape
  <2> HIDE DEF hop, h
  <2> QED BY <2>1, <1>3, <1>5
<1>8. h.input \in Tokens /\ h.output \in Tokens
  BY <1>3, HopMints DEF n
<1> HIDE DEF h, hop
<1>9. got \in Nat
  BY GuardAssumption DEF Amount
<1>10. /\ spent \in Nat
       /\ bal'[h.input] = bal[h.input] - spent /\ bal'[h.output] = bal[h.output] + got
       /\ \A t \in Tokens \ {h.input, h.output} : bal'[t] = bal[t]
       /\ bal[h.output] \in Nat
  BY <1>6, <1>7, <1>8, <1>9, Moved, WealthNat
<1>11. h.dex \in Aligned /\ i > 1 => spent = frame.interim
  BY <1>6, <1>7 DEF Fills, Aligned
<1>12. bal'[hop.out[1]] - bal[hop.out[1]] = got
  BY <1>5, <1>9, <1>10
<1>13. frame' = [frame EXCEPT !.hops = Tail(@), !.first = FALSE, !.interim = got]
  BY <1>6, <1>12
<1> QED BY <1>2, <1>3, <1>10, <1>11, <1>13 DEF n, i, h

\* A hop of execute_arb_v2 leaves only what it received of the token the next one spends.
LEMMA HopRuns ==
  ASSUME NEW route \in Routes, NEW guarded \in BOOLEAN, NEW programs,
         Runs(route, guarded, programs), Inv, Hop
  PROVE  Runs(route, guarded, programs)'
<1> DEFINE n == Len(route.hops)
           L == Len(frame.hops)
           i == n + 1 - L
           h == route.hops[i]
           hops == ArbHops(route, programs)
           Frames == [kind : {"v2"}, hops : Seq(ArbHopSet(route, programs)), min : {route.input},
                      profit : {Wsol}, start : Amount, interim : Amount, first : BOOLEAN]
<1>1. /\ guarded /\ Len(ixs) = 2 /\ Inside(route, programs) /\ Left(route, guarded, programs)
      /\ bundle = Description(route, guarded)
      /\ UNCHANGED <<atas, ixs, saved, bundle>>
  BY DEF Hop, InArb, Runs
<1>2. i \in 1..n /\ L \in 1..n /\ n \in Nat /\ n >= 2
  BY <1>1, HopMoves, RouteShape
<1>3. PICK spent \in Nat, got \in Amount :
        /\ bal'[h.input] = bal[h.input] - spent
        /\ bal'[h.output] = bal[h.output] + got
        /\ \A t \in Tokens \ {h.input, h.output} : bal'[t] = bal[t]
        /\ h.dex \in Aligned /\ i > 1 => spent = frame.interim
        /\ frame' = [frame EXCEPT !.hops = Tail(@), !.first = FALSE, !.interim = got]
  BY <1>1, HopMoves
<1>4. /\ h.input \in Mints /\ h.output \in Mints /\ h.input # "sol" /\ h.output # "sol"
      /\ "sol" \in Tokens /\ Mints \subseteq Tokens
      /\ h.output = Wsol <=> i = n
      /\ h.input = Wsol <=> i = 1
  BY <1>2, HopMints
<1>5. h.input # h.output /\ (i < n => route.hops[i + 1].input = h.output)
  BY <1>2, HopMints
<1> HIDE DEF i, h, n
<1>6. /\ frame \in Frames /\ L <= n
      /\ \A j \in 1..L : frame.hops[j] = hops[n - L + j]
  BY <1>1 DEF Inside, n
<1>7. \A j \in 1..n : hops[j].ix.from[1] = route.hops[j].input
  <2>1. \A j \in 1..n : SwapOf(hops[j].ix, route.hops[j])
    BY ArbShape DEF n
  <2> QED BY <2>1 DEF SwapOf
<1>8. h.dex \in bundle.dexes
  <2>1. DOMAIN route.hops = 1..n
    BY RouteShape DEF n
  <2>2. bundle.dexes = {route.hops[j].dex : j \in DOMAIN route.hops}
    BY <1>1 DEF Description
  <2> QED BY <2>1, <2>2, <1>2 DEF h
<1> HIDE DEF hops, Frames
<1>9. /\ frame.hops \in Seq(ArbHopSet(route, programs)) /\ frame.hops # <<>>
      /\ frame.hops[1] = hops[i]
  <2>1. frame.hops \in Seq(ArbHopSet(route, programs))
    BY <1>6 DEF Frames
  <2>2. 1 \in 1..L /\ n - L + 1 = i
    BY <1>2 DEF i
  <2>3. frame.hops[1] = hops[n - L + 1]
    BY <2>2, <1>6
  <2> QED BY <2>1, <2>2, <2>3
<1>10. /\ frame' \in Frames /\ frame'.hops = Tail(frame.hops) /\ frame'.first = FALSE
       /\ frame'.interim = got /\ frame'.start = frame.start /\ frame'.kind = "v2"
  <2>1. Tail(frame.hops) \in Seq(ArbHopSet(route, programs))
    BY <1>9
  <2> QED BY <2>1, <1>3, <1>6 DEF Frames
<1>11. /\ Len(frame'.hops) = L - 1
       /\ \A j \in 1..(L - 1) : frame'.hops[j] = hops[n - (L - 1) + j]
  <2>1. /\ Len(Tail(frame.hops)) = L - 1
        /\ \A j \in 1..(L - 1) : Tail(frame.hops)[j] = frame.hops[j + 1]
    BY <1>9, HeadTailProperties
  <2>2. ASSUME NEW j \in 1..(L - 1) PROVE frame'.hops[j] = hops[n - (L - 1) + j]
    <3>1. j + 1 \in 1..L /\ n - (L - 1) + j = n - L + (j + 1)
      BY <1>2
    <3> QED BY <3>1, <2>1, <1>6, <1>10
  <2> QED BY <2>1, <2>2, <1>10
<1>12. \A m : Received(route, m) = IF i > 1 /\ m = h.input THEN frame.interim ELSE 0
  <2>1. frame.hops[1].ix.from[1] = h.input
    BY <1>2, <1>7, <1>9 DEF h
  <2>2. L \in 1..(n - 1) <=> i > 1
    <3> HIDE DEF L
    <3>1. L \in Nat /\ L >= 1 /\ L <= n /\ i = n + 1 - L
      BY <1>2 DEF i
    <3>2. L \in 1..(n - 1) <=> L <= n - 1
      BY <3>1, <1>2
    <3>3. L <= n - 1 <=> i > 1
      BY <3>1, <1>2
    <3> QED BY <3>2, <3>3, Zenon
  <2> QED BY <2>1, <2>2 DEF Received, n
<1>13. \A m : Received(route, m)' = IF i < n /\ m = h.output THEN got ELSE 0
  <2>1. L - 1 \in 1..(n - 1) <=> i < n
    <3> HIDE DEF L
    <3>1. L \in Nat /\ L >= 1 /\ L <= n /\ i = n + 1 - L
      BY <1>2 DEF i
    <3>2. L - 1 \in 1..(n - 1) <=> L > 1
      BY <3>1, <1>2
    <3>3. L > 1 <=> i < n
      BY <3>1, <1>2
    <3> QED BY <3>2, <3>3, Zenon
  <2>2. i < n => frame'.hops[1].ix.from[1] = h.output
    <3> HAVE i < n
    <3>1. 1 \in 1..(L - 1) /\ n - (L - 1) + 1 = i + 1 /\ i + 1 \in 1..n
      <4> HIDE DEF L
      <4>1. L \in Nat /\ L >= 1 /\ L <= n /\ i = n + 1 - L
        BY <1>2 DEF i
      <4> QED BY <4>1, <1>2
    <3>2. frame'.hops[1] = hops[n - (L - 1) + 1]
      BY <3>1, <1>11
    <3>3. frame'.hops[1] = hops[i + 1]
      BY <3>1, <3>2
    <3> QED BY <3>1, <3>3, <1>5, <1>7
  <2> QED BY <2>1, <2>2, <1>10, <1>11 DEF Received, n
<1>14. ASSUME bundle.dexes \subseteq Aligned, NEW m \in Mints \ {Wsol}
       PROVE  bal'[m] = saved.bal[m] + Received(route, m)'
  <2>1. bal[m] = saved.bal[m] + Received(route, m)
    BY <1>1, <1>14, Zenon DEF Inside
  <2>2. saved.bal[m] \in Nat /\ frame.interim \in Nat /\ got \in Nat /\ m \in Tokens
    BY <1>4, <1>6, WealthNat, GuardAssumption DEF Amount, Frames
  <2>3. CASE m = h.output
    <3>1. i # n /\ i < n
      BY <2>3, <1>2, <1>4
    <3>2. bal'[m] = saved.bal[m] + got
      BY <2>1, <2>2, <2>3, <1>3, <1>5, <1>12
    <3> QED BY <2>3, <3>1, <3>2, <1>13
  <2>4. CASE m = h.input
    <3>1. i > 1
      BY <2>4, <1>2, <1>4
    <3>2. spent = frame.interim
      BY <3>1, <1>3, <1>8, <1>14
    <3>3. bal'[m] = saved.bal[m]
      BY <2>1, <2>2, <2>4, <3>1, <3>2, <1>3, <1>12
    <3>4. Received(route, m)' = 0
      BY <2>4, <1>5, <1>13
    <3> QED BY <3>3, <3>4, <2>2
  <2>5. CASE m # h.input /\ m # h.output
    BY <2>1, <2>2, <2>5, <1>3, <1>12, <1>13
  <2> QED BY <2>3, <2>4, <2>5
<1>15. bal'["sol"] + frame'.start + RentOf(atas)' >= Wealth(saved.bal, saved.atas)'
  <2>1. bal'["sol"] = bal["sol"]
    BY <1>3, <1>4
  <2>2. bal["sol"] + frame.start + RentOf(atas) >= Wealth(saved.bal, saved.atas)
    BY <1>1 DEF Inside
  <2>3. RentOf(atas)' = RentOf(atas) /\ Wealth(saved.bal, saved.atas)' = Wealth(saved.bal, saved.atas)
    BY <1>1 DEF RentOf, Wealth
  <2> QED BY <2>1, <2>2, <2>3, <1>10
<1>16. frame'.first = (Len(frame'.hops) = n)
  <2>1. Len(frame'.hops) # n
    BY <1>2, <1>11
  <2> QED BY <2>1, <1>10
<1>17. Len(frame'.hops) <= n
  BY <1>2, <1>11
<1>18. Inside(route, programs)'
  BY <1>1, <1>10, <1>11, <1>14, <1>15, <1>16, <1>17 DEF Inside, Frames, hops, n
<1>19. frame' # NoFrame
  BY <1>10 DEF NoFrame
<1> QED BY <1>1, <1>18, <1>19 DEF Runs, Left

----------------------------------------------------------------------------
(* All steps.                                                                    *)

\* What a build learns is not about wSOL.
LEMMA KnownKeeps ==
  ASSUME known[Wsol] \in {NoProgram, "spl"}, PlanOK, [Next]_vars
  PROVE  known'[Wsol] \in {NoProgram, "spl"}
<1>1. ASSUME NEW m \in Mints, LearnProgram(m) PROVE known'[Wsol] \in {NoProgram, "spl"}
  BY <1>1, GuardAssumption DEF LearnProgram, PlanOK
<1>2. ASSUME NEW route \in Routes, NEW guarded \in BOOLEAN, Submit(route, guarded)
      PROVE  known'[Wsol] \in {NoProgram, "spl"}
  BY <1>2, MintsAssumption DEF Submit, Learned
<1>3. CASE UNCHANGED known
  BY <1>3
<1> QED BY <1>1, <1>2, <1>3
     DEF Next, vars, Call, Commit, Create, WrapSol, UnwrapSol, PayTip, Swap, SwapFails, StartCheck,
         ProfitCheck, EnterArbV2, EnterArb, Hop, HopFails, LeaveArb, Advance, Revert

\* A submitted route starts with its whole plan ahead.
LEMMA SubmitRuns ==
  ASSUME NEW route \in Routes, NEW guarded \in BOOLEAN, TxInv, PlanOK, Inv,
         Submit(route, guarded), bundle'.kind = "engine"
  PROVE  \E programs \in ProgramTables : Runs(route, guarded, programs)'
<1>0. PICK programs : programs = IF guarded THEN Learned(route, known) ELSE known
  OBVIOUS
<1>1. Idle /\ frame = NoFrame
  BY DEF Submit, PlanOK
<1>2. /\ BuildOk(route, route.input, guarded, programs)
      /\ Begin(Plan(route, guarded, programs), Description(route, guarded))
  BY <1>0, <1>1 DEF Submit, Idle, Plan, Description
<1>3. programs \in ProgramTables /\ programs[Wsol] \in {NoProgram, "spl"}
  BY <1>0, LearnedTyped, MintsAssumption DEF PlanOK, ProgramTables, TxInv, Learned
<1>4. /\ ixs' = Plan(route, guarded, programs) /\ bundle' = Description(route, guarded)
      /\ saved'.bal = bal' /\ saved'.atas = atas' /\ frame' = NoFrame
  BY <1>1, <1>2 DEF Begin, chain
<1>5. Left(route, guarded, programs)' /\ Len(ixs') = PlanLen(route, guarded)
  <2>1. PlanLen(route, guarded) \in Nat
    BY PlanIs
  <2>2. /\ ixs' \in Seq(PlanIxs(route, guarded, programs))
        /\ Len(ixs') = PlanLen(route, guarded)
        /\ \A j \in 1..PlanLen(route, guarded) : ixs'[j] = PlanIx(route, guarded, programs, j)
    BY <1>4, PlanShape
  <2> DEFINE most == PlanLen(route, guarded)
  <2>3. \A j \in 1..Len(ixs') : ixs'[j] = PlanIx(route, guarded, programs, most - Len(ixs') + j)
    <3> HIDE DEF most
    <3>1. most \in Nat /\ Len(ixs') = most
      BY <2>1, <2>2 DEF most
    <3>2. \A j \in 1..most : most - most + j = j
      BY <3>1
    <3>3. \A j \in 1..most : ixs'[j] = PlanIx(route, guarded, programs, j)
      BY <2>2 DEF most
    <3> QED BY <3>1, <3>2, <3>3, Zenon
  <2>4. Len(ixs') <= most
    BY <2>1, <2>2
  <2> QED BY <2>2, <2>3, <2>4 DEF Left
<1>6. Owed(route, guarded)' = 0
  <2>1. /\ PlanLen(route, guarded) \in Nat /\ PlanLen(route, guarded) >= 5
        /\ PlanLen(route, guarded) = IF guarded THEN 5 ELSE Len(route.hops) + 4
        /\ Len(route.hops) \in Nat
    BY PlanIs, RouteShape
  <2> QED BY <2>1, <1>5 DEF Owed
<1>7. Outside(route, guarded)'
  <2>1. Wealth(bal, atas)' = Wealth(saved.bal, saved.atas)'
    BY <1>4 DEF Wealth, RentOf
  <2>2. /\ Fee <= bal["sol"] /\ bal'["sol"] = bal["sol"] - Fee /\ bal'[Wsol] = bal[Wsol]
        /\ RentOf(atas)' = RentOf(atas)
    BY <1>2, WealthNat, MintsAssumption, GuardAssumption DEF Begin, RentOf, Tokens
  <2>3. Wealth(bal, atas)' \in Nat
    BY <2>2, WealthNat, GuardAssumption DEF Wealth
  <2> QED BY <2>1, <2>3, <1>4, <1>6 DEF Outside
<1>8. Runs(route, guarded, programs)'
  BY <1>2, <1>3, <1>4, <1>5, <1>7 DEF Runs
<1> QED BY <1>3, <1>8

\* Each step of a route's transaction keeps it on its plan, or ends it.
LEMMA RunsStep ==
  ASSUME NEW route \in Routes, NEW guarded \in BOOLEAN, NEW programs \in ProgramTables,
         Runs(route, guarded, programs), Inv, Next, ~Idle, ~Commit
  PROVE  Runs(route, guarded, programs)' \/ \E why : Revert(why)
<1> DEFINE Goal == Runs(route, guarded, programs)' \/ \E why : Revert(why)
<1>1. CASE Create
  <2>1. CASE Revert("create")
    BY <2>1
  <2>2. CASE ~Revert("create")
    <3> DEFINE missing == {a[1] : a \in Head(ixs).accounts} \ atas
    <3>1. /\ Head(ixs).accounts \subseteq TrueAccounts(Mints)
          /\ bal' = [bal EXCEPT !["sol"] = @ - RentOf(missing)]
          /\ atas' = atas \cup missing
          /\ Running("create") /\ Advance /\ UNCHANGED frame
      BY <1>1, <2>2 DEF Create
    <3>2. missing \in SUBSET Mints /\ missing \cap atas = {}
      BY <3>1 DEF TrueAccounts
    <3> HIDE DEF missing
    <3> QED BY <3>1, <3>2, CreateRuns
  <2> QED BY <2>1, <2>2
<1>2. CASE WrapSol
  BY <1>2, WrapRuns, WealthNat DEF WrapSol
<1>3. CASE UnwrapSol
  BY <1>3, UnwrapRuns DEF UnwrapSol
<1>4. CASE PayTip
  BY <1>4, TipRuns DEF PayTip
<1>5. CASE Swap
  BY <1>5, SwapRuns DEF Swap
<1>6. CASE SwapFails \/ HopFails
  BY <1>6 DEF SwapFails, HopFails
<1>7. ASSUME Running("start_check") \/ Running("profit_check") \/ Running("arb") PROVE FALSE
  <2>1. ixs # <<>> /\ Left(route, guarded, programs)
        /\ Head(ixs).op \in {"start_check", "profit_check", "arb"}
    BY <1>7 DEF Running, Runs
  <2>2. Head(ixs).op \in {"create", "wrap", "swap", "arb_v2", "unwrap", "tip"}
    BY <2>1, NextOp
  <2> QED BY <2>1, <2>2
<1>8. CASE StartCheck \/ ProfitCheck \/ EnterArb
  BY <1>7, <1>8 DEF StartCheck, ProfitCheck, EnterArb
<1>9. CASE EnterArbV2
  BY <1>9, EnterRuns
<1>10. CASE Hop
  BY <1>10, HopRuns
<1>11. CASE LeaveArb
  BY <1>11, LeaveRuns DEF LeaveArb
<1> QED BY <1>1, <1>2, <1>3, <1>4, <1>5, <1>6, <1>8, <1>9, <1>10, <1>11
     DEF Next, LearnProgram, Submit, Call

\* When all its instructions have run, a floored or guarded bundle has cost its tip, the fee
\* and the rent of what it left open at most.
LEMMA CommitKeeps ==
  ASSUME NEW route \in Routes, NEW guarded \in BOOLEAN, NEW programs,
         Runs(route, guarded, programs), Inv, Commit
  PROVE  NoCommittedLoss' /\ IntermediateUntouched'
<1>0. "sol" \in Tokens /\ Wsol \in Tokens /\ "sol" # Wsol /\ "sol" \notin Mints
  BY MintsAssumption, GuardAssumption DEF Tokens
<1>1. /\ frame = NoFrame /\ Len(ixs) = 0 /\ Outside(route, guarded)
      /\ bundle = Description(route, guarded) /\ Owed(route, guarded) = Tip
      /\ result' = [status |-> "committed", bundle |-> bundle, atas |-> saved.atas,
                    before |-> [saved.bal EXCEPT !["sol"] = @ + Fee]]
      /\ bal' = bal /\ atas' = atas
  BY DEF Commit, Runs, Owed
<1>2. NoCommittedLoss'
  <2>1. bundle.floored => Wealth(bal, atas) + Tip >= Wealth(saved.bal, saved.atas)
    BY <1>1, Zenon DEF Outside
  <2>2. result'.bundle.floored => bundle.floored
    BY <1>1
  <2>3. /\ result'.before["sol"] = saved.bal["sol"] + Fee /\ result'.before[Wsol] = saved.bal[Wsol]
        /\ result'.atas = saved.atas
    BY <1>1, <1>0, WealthNat
  <2>4. RentOf(atas) <= RentOf(saved.atas) + RentOf(atas \ saved.atas)
    BY RentAdded, WealthNat
  <2>5. RentOf(atas \ saved.atas) \in Nat /\ Tip \in Nat /\ Fee \in Nat
    BY RentNat, WealthNat, GuardAssumption
  <2>6. bundle.floored =>
          bal["sol"] + bal[Wsol] + Tip + Fee + RentOf(atas \ saved.atas)
            >= (saved.bal["sol"] + Fee) + saved.bal[Wsol]
    <3>1. /\ Wealth(bal, atas) = bal["sol"] + bal[Wsol] + RentOf(atas)
          /\ Wealth(saved.bal, saved.atas) = saved.bal["sol"] + saved.bal[Wsol] + RentOf(saved.atas)
      BY DEF Wealth
    <3> QED BY <2>1, <2>4, <2>5, <3>1, WealthNat
  <2> QED BY <1>1, <2>2, <2>3, <2>6 DEF NoCommittedLoss, RentOf
<1>3. IntermediateUntouched'
  <2>1. ASSUME result'.bundle.guarded, result'.bundle.dexes \subseteq Aligned,
               NEW m \in Mints \ {Wsol}
        PROVE  bal'[m] = result'.before[m]
    <3>1. guarded /\ bundle.dexes \subseteq Aligned
      BY <1>1, <2>1 DEF Description
    <3>2. result'.before[m] = saved.bal[m]
      BY <1>1, <1>0, WealthNat DEF Tokens
    <3> QED BY <1>1, <2>1, <3>1, <3>2 DEF Outside
  <2> QED BY <2>1 DEF IntermediateUntouched
<1> QED BY <1>2, <1>3

\* The invariant of the engine's transactions is inductive.
LEMMA TxStep == ASSUME TxInv, PlanOK, Inv, [Next]_vars PROVE TxInv'
<1> DEFINE Underway == \E route \in Routes, guarded \in BOOLEAN, programs \in ProgramTables :
                         Runs(route, guarded, programs)
<1>1. known'[Wsol] \in {NoProgram, "spl"}
  BY KnownKeeps DEF TxInv
<1>2. CASE UNCHANGED vars
  <2>1. Underway' <=> Underway
    BY <1>2 DEF vars, Runs, Left, Outside, Owed, Inside, Received
  <2>2. NoCommittedLoss' = NoCommittedLoss /\ IntermediateUntouched' = IntermediateUntouched
    BY <1>2 DEF vars, NoCommittedLoss, IntermediateUntouched
  <2> QED BY <1>1, <1>2, <2>1, <2>2 DEF TxInv, vars, Idle
<1>3. ASSUME NEW why, Revert(why) PROVE TxInv'
  BY <1>1, <1>3 DEF Revert, TxInv, NoBundle
<1>4. CASE Idle /\ Next
  <2>1. ASSUME NEW m \in Mints, LearnProgram(m) PROVE TxInv'
    BY <1>1, <2>1 DEF LearnProgram, TxInv, Idle, NoCommittedLoss, IntermediateUntouched
  <2>2. ASSUME NEW sequence \in Programmed, Call(sequence) PROVE TxInv'
    BY <1>1, <2>2 DEF Call, Begin, TxInv, NoResult
  <2>3. ASSUME NEW route \in Routes, NEW guarded \in BOOLEAN, Submit(route, guarded) PROVE TxInv'
    <3>1. bundle'.kind = "engine" => Underway'
      BY <2>3, SubmitRuns
    <3>2. \/ result' = NoResult
          \/ UNCHANGED <<bal, atas, guard, window, closed, ixs, frame, saved, bundle, result, txs>>
      BY <2>3 DEF Submit, Begin
    <3>3. result'.status = "committed" => Idle' /\ NoCommittedLoss' /\ IntermediateUntouched'
      BY <3>2 DEF TxInv, NoResult, Idle, NoCommittedLoss, IntermediateUntouched
    <3> QED BY <1>1, <3>1, <3>3 DEF TxInv
  <2>4. Next => (\E m \in Mints : LearnProgram(m)) \/ (\E sequence \in Programmed : Call(sequence))
                \/ (\E route \in Routes, guarded \in BOOLEAN : Submit(route, guarded))
    BY <1>4 DEF Next, Idle, Commit, Create, WrapSol, UnwrapSol, PayTip, Swap, SwapFails, StartCheck,
         ProfitCheck, EnterArbV2, EnterArb, Hop, HopFails, LeaveArb, Running, InArb, PlanOK
  <2> QED BY <1>4, <2>1, <2>2, <2>3, <2>4
<1>5. CASE ~Idle /\ Next /\ bundle.kind = "engine"
  <2>1. PICK route \in Routes, guarded \in BOOLEAN, programs \in ProgramTables :
          Runs(route, guarded, programs)
    BY <1>5 DEF TxInv
  <2>2. CASE Commit
    <3>1. bundle' = NoBundle
      BY <2>2 DEF Commit
    <3>2. NoCommittedLoss' /\ IntermediateUntouched'
      BY <2>1, <2>2, CommitKeeps
    <3> QED BY <1>1, <3>1, <3>2 DEF TxInv, NoBundle, Idle
  <2>3. CASE ~Commit
    <3>1. Runs(route, guarded, programs)' \/ \E why : Revert(why)
      BY <1>5, <2>1, <2>3, RunsStep
    <3>2. ASSUME Runs(route, guarded, programs)', ~\E why : Revert(why) PROVE TxInv'
      <4>1. UNCHANGED result
        BY <1>5, <2>3, <3>2
           DEF Next, LearnProgram, Submit, Call, Create, WrapSol, UnwrapSol, PayTip, Swap, SwapFails,
               StartCheck, ProfitCheck, EnterArbV2, EnterArb, Hop, HopFails, LeaveArb, Advance
      <4>2. result.status # "committed"
        BY <1>5 DEF TxInv
      <4> QED BY <1>1, <3>2, <4>1, <4>2 DEF TxInv
    <3> QED BY <3>1, <3>2, <1>3
  <2> QED BY <2>2, <2>3
<1>6. CASE ~Idle /\ Next /\ bundle.kind # "engine"
  <2>1. CASE Commit
    <3>1. result'.bundle = bundle /\ bundle' = NoBundle
      BY <2>1 DEF Commit
    <3> QED BY <1>1, <1>6, <3>1 DEF TxInv, NoBundle, Idle, NoCommittedLoss, IntermediateUntouched
  <2>2. CASE ~Commit /\ ~\E why : Revert(why)
    <3>1. UNCHANGED <<bundle, result>>
      BY <1>6, <2>2
         DEF Next, LearnProgram, Submit, Call, Create, WrapSol, UnwrapSol, PayTip, Swap, SwapFails,
             StartCheck, ProfitCheck, EnterArbV2, EnterArb, Hop, HopFails, LeaveArb, Advance
    <3>2. result.status # "committed"
      BY <1>6 DEF TxInv
    <3> QED BY <1>1, <1>6, <3>1, <3>2 DEF TxInv
  <2> QED BY <2>1, <2>2, <1>3
<1> QED BY <1>2, <1>4, <1>5, <1>6

\* It holds throughout, with the types of the balances and of the cache.
LEMMA TxHolds == Spec => [](TxInv /\ PlanOK /\ Inv)
<1>1. Init => TxInv /\ PlanOK
  BY MintsAssumption DEF Init, TxInv, PlanOK, NoBundle, NoResult, Idle
<1>2. TxInv /\ PlanOK /\ Inv /\ [Next]_vars => TxInv' /\ PlanOK' /\ Inv'
  BY TxStep, PlanStep, StepKeeps
<1> QED BY <1>1, <1>2, InitInv, PTL DEF Spec

\* Whatever the prices are when it runs, a bundle of the engine that commits has cost the
\* wallet its tip, the fee and the rent of accounts it opened and left open at most, unless it
\* ends in a raw sale on Phoenix.
THEOREM NoLoss == Spec => []NoCommittedLoss
<1>1. TxInv => NoCommittedLoss
  BY DEF TxInv, NoCommittedLoss
<1> QED BY <1>1, TxHolds, PTL

\* On the guarded path, with the DEXes whose amount the guard finds, a committed bundle
\* leaves the wallet's other tokens exactly as they were.
THEOREM Untouched == Spec => []IntermediateUntouched
<1>1. TxInv => IntermediateUntouched
  BY DEF TxInv, IntermediateUntouched
<1> QED BY <1>1, TxHolds, PTL

----------------------------------------------------------------------------
(* Where execute_arb_v2 looks for what a hop paid.                                *)

\* A hop that pays wSOL pays it into the account derived with the SPL token program.
LEMMA WsolAccount ==
  ASSUME NEW hop \in Hops, NEW amount, NEW min, NEW programs \in ProgramTables,
         hop.output = Wsol, Buildable(hop), hop.extra[Wsol] \in {NoProgram, "spl"},
         programs[Wsol] \in {NoProgram, "spl"}
  PROVE  BuildSwap(hop, amount, min, programs).to = <<Wsol, "spl">>
<1> DEFINE ix == BuildSwap(hop, amount, min, programs)
<1>1. hop.dex \in DexKinds /\ Wsol \in Mints
  BY MintsAssumption DEF Hops
<1>2. ByPool(hop)[Wsol] = "spl" /\ AllSpl[Wsol] = "spl" /\ DOMAIN ByPool(hop) = Mints
  BY <1>1 DEF ByPool, AllSpl, OrElse
<1>3. SUFFICES \E p, a, m : ix = SwapIx(hop, amount, min, p, a, m) /\ p[Wsol] = "spl"
  BY DEF SwapIx
<1>4. CASE hop.dex = "OrcaWhirlpool"
  BY <1>2, <1>4 DEF BuildSwap, OrcaSwap
<1>5. CASE hop.dex = "RaydiumClmm"
  BY <1>2, <1>5 DEF BuildSwap, RaydiumClmmSwap
<1>6. CASE hop.dex = "RaydiumCp"
  <2>1. hop.extra[Wsol] = "spl"
    BY <1>6 DEF Buildable
  <2> QED BY <2>1, <1>6 DEF BuildSwap, RaydiumCpSwap
<1>7. CASE hop.dex = "RaydiumAmm"
  BY <1>2, <1>7 DEF BuildSwap, RaydiumAmmSwap
<1>8. CASE hop.dex = "MeteoraDlmm"
  <2> DEFINE p == [m \in Mints |-> OrElse(programs[m], ByPool(hop)[m])]
  <2>1. p[Wsol] = "spl"
    BY <1>1, <1>2 DEF OrElse
  <2>2. ix = DlmmSwap(hop, amount, min, programs)
    BY <1>8 DEF BuildSwap
  <2>3. DlmmSwap(hop, amount, min, programs) = SwapIx(hop, amount, min, p, 8, 16)
    BY DEF DlmmSwap
  <2> HIDE DEF p
  <2> QED BY <2>1, <2>2, <2>3
<1>9. CASE hop.dex = "MeteoraDammV2"
  BY <1>2, <1>9 DEF BuildSwap, DammV2Swap
<1>10. CASE hop.dex = "SanctumInfinity"
  BY <1>2, <1>10 DEF BuildSwap, SanctumSwap
<1>11. CASE hop.dex = "Phoenix"
  BY <1>2, <1>11 DEF BuildSwap, PhoenixSwap
<1>12. CASE hop.dex = "Manifest"
  BY <1>2, <1>12 DEF BuildSwap, ManifestSwap
<1>13. CASE hop.dex = "PumpSwap"
  <2> DEFINE quote == IF hop.aToB THEN hop.output ELSE hop.input
             p == [ByPool(hop) EXCEPT ![quote] = "spl"]
  <2>1. p[Wsol] = "spl"
    BY <1>1, <1>2
  <2>2. \E a, m : ix = SwapIx(hop, amount, min, p, a, m)
    BY <1>13 DEF BuildSwap, PumpSwapSwap
  <2> HIDE DEF p
  <2> QED BY <2>1, <2>2
<1> HIDE DEF ix
<1> QED BY <1>1, <1>4, <1>5, <1>6, <1>7, <1>8, <1>9, <1>10, <1>11, <1>12, <1>13 DEF DexKinds

\* The only account of a hop's output mint among those listed so far is the one it pays into.
LEMMA OutputPaid ==
  ASSUME NEW route \in Routes, NEW programs \in ProgramTables, NEW i \in 1..Len(route.hops),
         BuildOk(route, route.input, TRUE, programs), programs[Wsol] \in {NoProgram, "spl"}
  PROVE  ArbHops(route, programs)[i].out = ArbHops(route, programs)[i].ix.to
<1> DEFINE n == Len(route.hops)
           swaps == HopIxs(route, route.input, programs)
           h == route.hops[i]
           out == OutputAccount(h, programs)
<1>1. n \in Nat /\ n >= 2 /\ DOMAIN swaps = 1..n /\ DOMAIN route.hops = 1..n /\ h \in Hops
  BY RouteShape DEF HopIxs
<1>2. \A j \in 1..n : swaps[j].from[1] = route.hops[j].input /\ swaps[j].to[1] = route.hops[j].output
  <2>1. \A j \in 1..n : SwapOf(swaps[j], route.hops[j])
    BY SwapsShape
  <2> QED BY <2>1 DEF SwapOf
<1>3. ArbHops(route, programs)[i].out = out /\ ArbHops(route, programs)[i].ix = swaps[i]
  BY ArbShape
<1>4. out \in AccountsUpTo(swaps, i) /\ Buildable(h)
  BY <1>1 DEF BuildOk, OutputsListed
<1>5. out[1] = h.output
  BY DEF OutputAccount
<1> HIDE DEF out, swaps
<1>6. PICK j \in 1..i : out = swaps[j].from \/ out = swaps[j].to
  BY <1>4 DEF AccountsUpTo
<1>7. j \in 1..n
  BY <1>1, <1>6
<1>8. CASE out = swaps[j].to
  <2>1. route.hops[j].output = route.hops[i].output
    BY <1>2, <1>5, <1>7, <1>8
  <2>2. j = i
    BY <2>1, <1>7, RouteShape
  <2> QED BY <2>2, <1>3, <1>8
<1>9. CASE out = swaps[j].from
  <2>1. route.hops[j].input = route.hops[i].output
    BY <1>2, <1>5, <1>7, <1>9
  <2>2. j = 1
    <3> SUFFICES ASSUME j > 1 PROVE FALSE
      BY <1>6
    <3>1. route.hops[j].input = route.hops[j - 1].output
      BY <1>7, HopMints
    <3>2. j - 1 \in 1..n /\ j - 1 # i
      BY <1>1, <1>6, <1>7
    <3> QED BY <2>1, <3>1, <3>2, RouteShape
  <2>3. h.output = Wsol
    BY <2>1, <2>2, RouteShape
  <2>4. swaps[i].to = <<Wsol, "spl">>
    <3>1. h.extra[Wsol] \in {NoProgram, "spl"}
      BY RouteAssumption
    <3>2. \E amount, min : swaps[i] = BuildSwap(h, amount, min, programs)
      BY <1>1 DEF HopIxs, swaps
    <3> HIDE DEF h
    <3> QED BY <3>1, <3>2, <2>3, <1>1, <1>4, WsolAccount
  <2>5. out = <<Wsol, "spl">>
    BY <2>3 DEF out, OutputAccount, AtaProgram
  <2> QED BY <2>4, <2>5, <1>3
<1> QED BY <1>6, <1>8, <1>9

\* For every route the builder accepts, the account whose growth the guard demands of a hop
\* is the one the hop pays into.
THEOREM MeasuredPaid == Spec => []MeasuredWherePaid
<1>1. TxInv => MeasuredWherePaid
  <2> SUFFICES ASSUME TxInv, bundle.kind = "engine", frame.kind = "v2", NEW j \in DOMAIN frame.hops
               PROVE  frame.hops[j].out = frame.hops[j].ix.to
    BY DEF MeasuredWherePaid
  <2>1. PICK route \in Routes, guarded \in BOOLEAN, programs \in ProgramTables :
          Runs(route, guarded, programs)
    BY DEF TxInv
  <2> DEFINE n == Len(route.hops)
             L == Len(frame.hops)
             hops == ArbHops(route, programs)
  <2>2. frame # NoFrame
    BY DEF NoFrame
  <2>3. /\ BuildOk(route, route.input, TRUE, programs) /\ programs[Wsol] \in {NoProgram, "spl"}
        /\ Inside(route, programs)
    BY <2>1, <2>2 DEF Runs
  <2>4. /\ frame.hops \in Seq(ArbHopSet(route, programs)) /\ L <= n
        /\ \A k \in 1..L : frame.hops[k] = hops[n - L + k]
    BY <2>3 DEF Inside
  <2>5. n \in Nat /\ L \in Nat /\ DOMAIN frame.hops = 1..L
    BY <2>4, RouteShape
  <2> HIDE DEF n, L, hops
  <2>6. frame.hops[j] = hops[n - L + j] /\ n - L + j \in 1..n
    BY <2>4, <2>5
  <2>7. \A i \in 1..n : hops[i].out = hops[i].ix.to
    BY <2>3, OutputPaid DEF n, hops
  <2> QED BY <2>6, <2>7
<1> QED BY <1>1, TxHolds, PTL
====
