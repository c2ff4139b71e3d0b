---- MODULE GuardedBundle ----
(***************************************************************************)
(* programs/arb-guard/src/lib.rs executing transactions on chain: those    *)
(* BundleBuilder makes of the engine's routes, and arbitrary ones that     *)
(* call start_check, profit_check and execute_arb.  A transaction runs its *)
(* instructions, and execute_arb(_v2) its hops, one step each; the first   *)
(* failure takes everything back but the fee.  The DEX programs, and the   *)
(* runtime that charges fee and rent, are external.                        *)
(***************************************************************************)
EXTENDS BundleBuilder, FiniteSets

CONSTANTS
  Routes,         \* routes the engine may submit
  Programmed,     \* instruction sequences the operator may submit himself
  TrueProgram,    \* the token program that owns each mint
  Funds,          \* the wallet's native balance at the start
  Holdings,       \* the mints it may have token accounts of then
  Tip,
  Fee,            \* of a transaction with one signature
  Rent,           \* what a token account costs until it is closed
  MaxU64,         \* largest u64, scaled
  MaxTxs          \* bound: transactions in a behaviour

Tokens == Mints \cup {"sol"}

ASSUME GuardAssumption ==
  /\ "sol" \notin Mints
  /\ IsFiniteSet(Mints) /\ Holdings \subseteq SUBSET Mints
  /\ MaxU64 \in Nat /\ MaxTxs \in Nat /\ Tip \in Nat \ {0} /\ Fee \in Nat /\ Rent \in Nat
  /\ Funds \in 0..MaxU64
  /\ TrueProgram \in [Mints -> Programs] /\ TrueProgram[Wsol] = "spl"

\* What the calculator finds are cycles out of wSOL and back through other mints, each of
\* which is visited once; no pool trades a mint against itself.
Cycle(hops) ==
  /\ hops \in Seq(Hops) /\ Len(hops) >= 2
  /\ hops[1].input = Wsol /\ hops[Len(hops)].output = Wsol
  /\ \A i \in 1..(Len(hops) - 1) : hops[i].output = hops[i + 1].input
  /\ \A i, j \in 1..Len(hops) : hops[i].output = hops[j].output => i = j

\* The token program a pool names for wSOL is the one that owns it.
ASSUME RouteAssumption ==
  \A route \in Routes :
    /\ route.input \in Nat
    /\ Cycle(route.hops)
    /\ \A i \in 1..Len(route.hops) : route.hops[i].extra[Wsol] \in {NoProgram, "spl"}

VARIABLES
  known,    \* StateCache's mint programs
  bal,      \* balances of the wallet's token accounts, and of native SOL
  atas,     \* mints of which the wallet has a token account
  guard,    \* GuardState
  window,   \* history: all balances when the guard was locked, and the account given
  closed,   \* history: the windows profit_check has closed
  ixs,      \* instructions still to run
  frame,    \* the execute_arb(_v2) call under way
  saved,    \* what a failure restores
  bundle,   \* what the running transaction is
  result,   \* how the last one ended
  txs       \* number of transactions so far

chain == [bal |-> bal, atas |-> atas, guard |-> guard, window |-> window, closed |-> closed]
vars == <<known, bal, atas, guard, window, closed, ixs, frame, saved, bundle, result, txs>>

Amount == 0..MaxU64
NoFrame == [kind |-> "none"]
NoBundle == [kind |-> "none"]
NoResult == [status |-> "none"]
NoWindow == [account |-> "none"]
Unlocked == [locked |-> FALSE, start |-> 0, account |-> "none"]

Init ==
  /\ known = [m \in Mints |-> NoProgram]
  /\ bal = [t \in Tokens |-> IF t = "sol" THEN Funds ELSE 0]
  /\ atas \in Holdings
  /\ guard = Unlocked
  /\ window = NoWindow
  /\ closed = {}
  /\ ixs = <<>>
  /\ frame = NoFrame
  /\ saved = chain
  /\ bundle = NoBundle
  /\ result = NoResult
  /\ txs = 0

----------------------------------------------------------------------------
(* Transactions begin, commit and revert.                                  *)

Idle == bundle.kind = "none"

\* The runtime takes the fee first, and keeps it whatever comes.
Begin(sequence, description) ==
  /\ txs < MaxTxs
  /\ Fee <= bal["sol"]
  /\ bal' = [bal EXCEPT !["sol"] = @ - Fee]
  /\ ixs' = sequence
  /\ bundle' = description
  /\ saved' = [chain EXCEPT !.bal = bal']
  /\ result' = NoResult
  /\ txs' = txs + 1
  /\ UNCHANGED <<atas, guard, window, closed, frame>>

\* The mint program cache is filled from RPC by the Geyser stream.
LearnProgram(m) ==
  /\ Idle /\ known[m] = NoProgram
  /\ known' = [known EXCEPT ![m] = TrueProgram[m]]
  /\ UNCHANGED <<bal, atas, guard, window, closed, ixs, frame, saved, bundle, result, txs>>

\* Phoenix holds the minimum of an order against the base token, which a sale pays.
SellsOnPhoenix(hop) == hop.dex = "Phoenix" /\ hop.aToB

\* A profitable route is built with its input as the floor, signed with a tip, and lands or
\* is dropped.
Submit(route, guarded) ==
  LET learned == IF guarded THEN Learned(route, known) ELSE known
  IN  /\ Idle
      /\ known' = learned
      /\ \/ /\ BuildOk(route, route.input, guarded, learned)
            /\ Begin(SignedBundle(BuildArbInstructions(route, route.input, guarded, learned), Tip),
                     [kind |-> "engine", guarded |-> guarded, input |-> route.input,
                      dexes |-> {route.hops[i].dex : i \in DOMAIN route.hops},
                      floored |-> guarded \/ ~SellsOnPhoenix(route.hops[Len(route.hops)])])
         \/ UNCHANGED <<bal, atas, guard, window, closed, ixs, frame, saved, bundle, result, txs>>

\* start_check, profit_check and execute_arb are called by hand only.
Call(sequence) ==
  /\ Idle
  /\ Begin(sequence, [kind |-> "program"])
  /\ UNCHANGED known

Running(op) == bundle.kind # "none" /\ frame = NoFrame /\ ixs # <<>> /\ Head(ixs).op = op

Commit ==
  /\ bundle.kind # "none" /\ frame = NoFrame /\ ixs = <<>>
  /\ result' = [status |-> "committed", bundle |-> bundle, atas |-> saved.atas,
                before |-> [saved.bal EXCEPT !["sol"] = @ + Fee]]
  /\ bundle' = NoBundle
  /\ UNCHANGED <<known, bal, atas, guard, window, closed, ixs, frame, saved, txs>>

Revert(why) ==
  /\ bal' = saved.bal /\ atas' = saved.atas /\ guard' = saved.guard
  /\ window' = saved.window /\ closed' = saved.closed
  /\ result' = [status |-> "reverted", bundle |-> bundle, why |-> why, frame |-> frame]
  /\ bundle' = NoBundle
  /\ ixs' = <<>>
  /\ frame' = NoFrame
  /\ UNCHANGED <<known, saved, txs>>

Advance == ixs' = Tail(ixs) /\ UNCHANGED <<known, saved, bundle, result, txs>>

----------------------------------------------------------------------------
(* Instructions of other programs.                                         *)

Move(from, spent, to, got) ==
  /\ spent \in 0..bal[from]
  /\ bal[to] + got \in Amount
  /\ from # to
  /\ bal' = [bal EXCEPT ![from] = @ - spent, ![to] = @ + got]

\* Accounts are pairs of a mint and the program that owns it; any other pair is none.
TrueAccounts(mints) == {<<m, TrueProgram[m]>> : m \in mints}

RentOf(mints) == Rent * Cardinality(mints)

\* The signer pays the rent of each account that does not exist yet.
Create ==
  /\ Running("create")
  /\ LET missing == {a[1] : a \in Head(ixs).accounts} \ atas
     IN  IF Head(ixs).accounts \subseteq TrueAccounts(Mints) /\ RentOf(missing) <= bal["sol"]
         THEN /\ bal' = [bal EXCEPT !["sol"] = @ - RentOf(missing)]
              /\ atas' = atas \cup missing
              /\ Advance /\ UNCHANGED <<guard, window, closed, frame>>
         ELSE Revert("create")

WrapSol ==
  /\ Running("wrap")
  /\ IF Head(ixs).amount \in 0..bal["sol"] /\ Wsol \in atas
     THEN /\ Move("sol", Head(ixs).amount, Wsol, Head(ixs).amount)
          /\ Advance /\ UNCHANGED <<atas, guard, window, closed, frame>>
     ELSE Revert("wrap")

\* CloseAccount pays out the whole account and its rent; other accounts are never closed.
UnwrapSol ==
  /\ Running("unwrap")
  /\ IF Wsol \in atas
     THEN /\ Move(Wsol, bal[Wsol], "sol", bal[Wsol] + Rent)
          /\ atas' = atas \ {Wsol}
          /\ Advance /\ UNCHANGED <<guard, window, closed, frame>>
     ELSE Revert("unwrap")

PayTip ==
  /\ Running("tip")
  /\ IF Head(ixs).amount \in 0..bal["sol"]
     THEN /\ bal' = [bal EXCEPT !["sol"] = @ - Head(ixs).amount]
          /\ Advance /\ UNCHANGED <<atas, guard, window, closed, frame>>
     ELSE Revert("tip")

\* A DEX fills an order at its own price, not below the minimum.  A PumpSwap buy asks for
\* exactly its "minimum", and an order book may spend less than the amount.
Fills(ix, spent, got) ==
  /\ {ix.from, ix.to} \subseteq TrueAccounts(atas)
  /\ ix.amount \in Amount
  /\ spent \in 0..ix.amount
  /\ IF ix.dex = "PumpSwap" /\ ~ix.aToB
     THEN got = ix.min
     ELSE /\ got >= ix.min \/ SellsOnPhoenix(ix)
          /\ ix.dex \in {"Phoenix", "Manifest"} \/ spent = ix.amount

Swap ==
  /\ Running("swap")
  /\ \E spent, got \in Amount :
       /\ Fills(Head(ixs), spent, got)
       /\ Move(Head(ixs).from[1], spent, Head(ixs).to[1], got)
  /\ Advance /\ UNCHANGED <<atas, guard, window, closed, frame>>

\* A DEX may always refuse: the price has moved, the account is wrong, the funds are short.
SwapFails == Running("swap") /\ Revert("swap")

----------------------------------------------------------------------------
(* arb-guard.                                                              *)

\* Mutated form: a second start_check is accepted.
StartCheckAgain ==
  /\ Running("start_check")
  /\ guard' = [locked |-> TRUE, start |-> bal[Head(ixs).account], account |-> Head(ixs).account]
  /\ window' = [account |-> Head(ixs).account, bal |-> bal]
  /\ Advance /\ UNCHANGED <<bal, atas, closed, frame>>

StartCheck ==
  /\ Running("start_check")
  /\ IF ~guard.locked /\ Head(ixs).account \in atas    \* the authority owns the account
     THEN /\ guard' = [locked |-> TRUE, start |-> bal[Head(ixs).account],
                       account |-> Head(ixs).account]
          /\ window' = [account |-> Head(ixs).account, bal |-> bal]
          /\ Advance /\ UNCHANGED <<bal, atas, closed, frame>>
     ELSE Revert("GuardAlreadyActive")

\* Mutated form: the account is not pinned.
ProfitHoldsAnywhere(account, min) ==
  guard.locked /\ guard.start + min \in Amount /\ bal[account] >= guard.start + min

ProfitHolds(account, min) ==
  /\ guard.locked
  /\ account = guard.account
  /\ guard.start + min \in Amount
  /\ bal[account] >= guard.start + min

ProfitCheck ==
  /\ Running("profit_check")
  /\ IF Head(ixs).account \in atas /\ ProfitHolds(Head(ixs).account, Head(ixs).min)
     THEN /\ guard' = [guard EXCEPT !.locked = FALSE]
          /\ closed' = closed \cup {[account |-> window.account, from |-> window.bal, to |-> bal,
                                     min |-> Head(ixs).min]}
          /\ window' = NoWindow
          /\ Advance /\ UNCHANGED <<bal, atas, frame>>
     ELSE Revert("profit_check")

\* execute_arb_v2: the profit token is the output of the last hop, read before the first.
EnterArbV2 ==
  /\ Running("arb_v2")
  /\ LET hops == Head(ixs).hops
         profit == hops[Len(hops)].out[1]
     IN  frame' = [kind |-> "v2", hops |-> hops, min |-> Head(ixs).min, profit |-> profit,
                   start |-> bal[profit], interim |-> 0, first |-> TRUE]
  /\ Advance /\ UNCHANGED <<bal, atas, guard, window, closed>>

\* execute_arb: Orca only, the data of every hop is made on chain.
EnterArb ==
  /\ Running("arb")
  /\ frame' = [kind |-> "v1", hops |-> Head(ixs).hops, min |-> Head(ixs).min,
               interim |-> Head(ixs).amount]
  /\ Advance /\ UNCHANGED <<bal, atas, guard, window, closed>>

\* Eight bytes written at offset off over a field at offset at: replaced, mangled or spared.
Field(at, off, old, value) ==
  IF off = at THEN {value} ELSE IF off < at + 8 /\ at < off + 8 THEN Amount ELSE {old}

WithAmounts(ix, a, m) == [ix EXCEPT !.amount = a, !.min = m]

Rewritten(ix, off, value) ==
  {WithAmounts(ix, a, m) :
     a \in Field(ix.amountAt, off, ix.amount, value),
     m \in Field(ix.minAt, off, ix.min, value)}

\* The data a hop is called with: from the second hop on, v2 writes what the hop before received.
HopData(hop) ==
  CASE frame.kind = "v1" -> {WithAmounts(hop.ix, frame.interim, 0)}
    [] frame.first -> {hop.ix}
    [] OTHER -> Rewritten(hop.ix, hop.offset, frame.interim)

InArb == frame # NoFrame

\* Mutated form: a failed hop ends the call instead of the transaction.
HopFailsSilently ==
  /\ InArb /\ frame.hops # <<>>
  /\ frame' = NoFrame /\ bundle' = NoBundle
  /\ UNCHANGED <<known, bal, atas, guard, window, closed, ixs, saved, result, txs>>

\* One hop: the CPI, and the balance of its output account must have grown.
Hop ==
  /\ InArb /\ frame.hops # <<>>
  /\ LET hop == Head(frame.hops) IN
       \E ix \in HopData(hop), spent, got \in Amount :
         /\ Fills(ix, spent, got)
         /\ Move(ix.from[1], spent, ix.to[1], got)
         /\ bal'[hop.out[1]] > bal[hop.out[1]]
         /\ frame' = IF frame.kind = "v1"
                     THEN [frame EXCEPT !.hops = Tail(@), !.interim = bal'[hop.out[1]] - bal[hop.out[1]]]
                     ELSE [frame EXCEPT !.hops = Tail(@), !.first = FALSE,
                                        !.interim = bal'[hop.out[1]] - bal[hop.out[1]]]
  /\ UNCHANGED <<known, atas, guard, window, closed, ixs, saved, bundle, result, txs>>

HopFails == InArb /\ frame.hops # <<>> /\ Revert("hop")

\* v1 compares what the last hop returned, v2 the profit token with its balance at the start.
ArbHolds ==
  IF frame.kind = "v1" THEN frame.interim >= frame.min
  ELSE frame.start + frame.min \in Amount /\ bal[frame.profit] >= frame.start + frame.min

LeaveArb ==
  /\ InArb /\ frame.hops = <<>>
  /\ IF ArbHolds
     THEN /\ frame' = NoFrame
          /\ UNCHANGED <<known, bal, atas, guard, window, closed, ixs, saved, bundle, result, txs>>
     ELSE Revert("arb")

Next ==
  \/ \E m \in Mints : LearnProgram(m)
  \/ \E route \in Routes, guarded \in BOOLEAN : Submit(route, guarded)
  \/ \E sequence \in Programmed : Call(sequence)
  \/ Commit
  \/ Create \/ WrapSol \/ UnwrapSol \/ PayTip \/ Swap \/ SwapFails
  \/ StartCheck \/ ProfitCheck
  \/ EnterArbV2 \/ EnterArb \/ Hop \/ HopFails \/ LeaveArb

Spec == Init /\ [][Next]_vars

----------------------------------------------------------------------------
(* Properties.                                                             *)

ChainTypeOK ==
  /\ bal \in [Tokens -> Amount] /\ atas \subseteq Mints
  /\ guard \in [locked : BOOLEAN, start : Amount, account : Mints \cup {"none"}]

\* Balances are amounts, cached programs are programs, and instructions and an execute_arb
\* call are left over within a transaction only.
TypeOK ==
  /\ ChainTypeOK
  /\ known \in [Mints -> Programs \cup {NoProgram}]
  /\ Idle => frame = NoFrame /\ ixs = <<>>

\* profit_check never passes on a loss: whatever ran between a start_check and the
\* profit_check that accepts, in one transaction or across several, the account named to
\* start_check holds at least its balance of then and the profit asked for.
WindowsGain ==
  \A w \in closed : w.to[w.account] >= w.from[w.account] + w.min

\* "Prevent re-entry": an open window keeps the balance it started from until it is closed
\* or the transaction that opened it is taken back (start_check, lib.rs:63).
KeepsWindow ==
  guard.locked /\ guard'.locked /\ result'.status # "reverted" => guard' = guard
WindowNotRebased == [][KeepsWindow]_vars

\* A committed bundle of the engine costs at most its tip, the fee and the rent of accounts
\* it opened and left open, whatever the prices were when it ran: the guard sees to it
\* (lib.rs:325) or the floor of the last hop (bundle.rs:277), which only a raw sale on Phoenix
\* does not have.
NoCommittedLoss ==
  result.status = "committed" /\ result.bundle.kind = "engine" /\ result.bundle.floored
    => bal["sol"] + bal[Wsol] + Tip + Fee + RentOf(atas \ result.atas)
         >= result.before["sol"] + result.before[Wsol]

\* DEXes whose amount stands where build_execute_arb_v2_ix says, and that spend all of it.
Aligned == {"RaydiumAmm", "RaydiumCp", "RaydiumClmm", "OrcaWhirlpool", "MeteoraDlmm", "MeteoraDammV2"}

\* On the guarded path a later hop spends exactly what the hop before it received: nothing
\* of an intermediate token is left behind, and nothing the wallet held before is spent.
IntermediateUntouched ==
  /\ result.status = "committed" /\ result.bundle.kind = "engine"
  /\ result.bundle.guarded /\ result.bundle.dexes \subseteq Aligned
  => \A m \in Mints \ {Wsol} : bal[m] = result.before[m]

\* The account whose balance arb-guard compares is the one the swap pays into, although the
\* builder of the swap and build_execute_arb_v2_ix derive it from different sources.
MeasuredWherePaid ==
  bundle.kind = "engine" /\ frame.kind = "v2"
    => \A i \in DOMAIN frame.hops : frame.hops[i].out = frame.hops[i].ix.to


====
