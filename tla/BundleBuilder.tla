---- MODULE BundleBuilder ----
(***************************************************************************)
(* executor/bundle.rs, executor/swaps/*.rs and build_signed_bundle_tx of   *)
(* executor/relays/common.rs: how a route becomes the instructions of a    *)
(* transaction.  An instruction is a record with an "op"; of its data the  *)
(* amount and the minimum are kept, with the byte offsets at which each    *)
(* DEX expects them, and of its accounts the token accounts of the wallet, *)
(* which are pairs of a mint and the token program they are derived with.  *)
(***************************************************************************)
EXTENDS Naturals, Sequences

CONSTANT Mints

Wsol == "wsol"
Programs == {"spl", "t22"}
NoProgram == "none"
OrElse(p, q) == IF p = NoProgram THEN q ELSE p

ASSUME MintsAssumption == Wsol \in Mints

----------------------------------------------------------------------------
(* Swap builders, one per module of executor/swaps.  A hop is              *)
(*   [dex, aToB, input, output, est, complete, extra]                      *)
(* complete: the parser found every field the builder takes with "?", and  *)
(* for DLMM the bitmap extension if the bins ahead need it; extra[m]: the  *)
(* token program of mint m according to the pool; aToB: the input is token *)
(* a of the pool, the base token of an order book.                         *)

DexKinds == {"OrcaWhirlpool", "RaydiumClmm", "RaydiumCp", "RaydiumAmm", "MeteoraDlmm",
             "MeteoraDammV2", "SanctumInfinity", "Phoenix", "Manifest", "PumpSwap"}

Hops == [dex : DexKinds, aToB : BOOLEAN, input : Mints, output : Mints, est : Nat,
         complete : BOOLEAN, extra : [Mints -> Programs \cup {NoProgram}]]

\* programs[m]: the token program the wallet's account of m is derived with; amountAt and
\* minAt: where the data of the instruction holds the two amounts.
SwapIx(hop, amount, min, programs, amountAt, minAt) ==
  [op |-> "swap", dex |-> hop.dex, aToB |-> hop.aToB,
   from |-> <<hop.input, programs[hop.input]>>, to |-> <<hop.output, programs[hop.output]>>,
   amount |-> amount, min |-> min, amountAt |-> amountAt, minAt |-> minAt]

AllSpl == [m \in Mints |-> "spl"]
ByPool(hop) == [m \in Mints |-> OrElse(hop.extra[m], "spl")]

OrcaSwap(hop, amount, min) == SwapIx(hop, amount, min, ByPool(hop), 8, 16)
RaydiumClmmSwap(hop, amount, min) == SwapIx(hop, amount, min, ByPool(hop), 8, 16)
RaydiumCpSwap(hop, amount, min) == SwapIx(hop, amount, min, hop.extra, 8, 16)
RaydiumAmmSwap(hop, amount, min) == SwapIx(hop, amount, min, AllSpl, 1, 9)
DammV2Swap(hop, amount, min) == SwapIx(hop, amount, min, ByPool(hop), 8, 16)
ManifestSwap(hop, amount, min) == SwapIx(hop, amount, min, AllSpl, 1, 9)
SanctumSwap(hop, amount, min) == SwapIx(hop, amount, min, AllSpl, 19, 11)

\* The minimum is in base lots whichever token is bought.
PhoenixSwap(hop, amount, min) == SwapIx(hop, amount, min, AllSpl, 11, 27)

\* The cache of mint programs comes before what the pool says.
DlmmSwap(hop, amount, min, known) ==
  SwapIx(hop, amount, min, [m \in Mints |-> OrElse(known[m], ByPool(hop)[m])], 8, 16)

\* A sale names what is paid first, a purchase what is bought; the quote token is wSOL.
PumpSwapSwap(hop, amount, min) ==
  LET quote == IF hop.aToB THEN hop.output ELSE hop.input
      programs == [ByPool(hop) EXCEPT ![quote] = "spl"]
  IN  IF hop.aToB THEN SwapIx(hop, amount, min, programs, 8, 16)
      ELSE SwapIx(hop, amount, min, programs, 16, 8)

BuildSwap(hop, amount, min, known) ==
  CASE hop.dex = "OrcaWhirlpool" -> OrcaSwap(hop, amount, min)
    [] hop.dex = "RaydiumClmm" -> RaydiumClmmSwap(hop, amount, min)
    [] hop.dex = "RaydiumCp" -> RaydiumCpSwap(hop, amount, min)
    [] hop.dex = "RaydiumAmm" -> RaydiumAmmSwap(hop, amount, min)
    [] hop.dex = "MeteoraDlmm" -> DlmmSwap(hop, amount, min, known)
    [] hop.dex = "MeteoraDammV2" -> DammV2Swap(hop, amount, min)
    [] hop.dex = "SanctumInfinity" -> SanctumSwap(hop, amount, min)
    [] hop.dex = "Phoenix" -> PhoenixSwap(hop, amount, min)
    [] hop.dex = "Manifest" -> ManifestSwap(hop, amount, min)
    [] hop.dex = "PumpSwap" -> PumpSwapSwap(hop, amount, min)

\* A builder returns None when a field of the pool is missing.
Buildable(hop) ==
  /\ hop.complete
  /\ hop.dex = "RaydiumCp" => NoProgram \notin {hop.extra[hop.input], hop.extra[hop.output]}

----------------------------------------------------------------------------
(* BundleBuilder.  A route is [input, hops]; known[m] is the token program *)
(* of m in the cache of mint programs.                                     *)

\* Mutated form: the floor is put on the first hop.
HopIxsFloorFirst(route, minFinal, known) ==
  [i \in DOMAIN route.hops |->
     BuildSwap(route.hops[i],
            IF i = 1 THEN route.input ELSE route.hops[i - 1].est,
            IF i = 1 THEN minFinal ELSE 0,
            known)]

\* Only the last hop has a floor; later hops spend the estimate of the one before.
HopIxs(route, minFinal, known) ==
  [i \in DOMAIN route.hops |->
     BuildSwap(route.hops[i],
            IF i = 1 THEN route.input ELSE route.hops[i - 1].est,
            IF i = Len(route.hops) THEN minFinal ELSE 0,
            known)]

RouteMints(route) == UNION {{h.input, h.output} : h \in {route.hops[i] : i \in DOMAIN route.hops}}

\* The pool of hop i names the token program of m.
Names(route, i, m) ==
  m \in {route.hops[i].input, route.hops[i].output} /\ route.hops[i].extra[m] # NoProgram

\* The first such hop decides, when the cache does not know the program.
FirstHints(route, m) ==
  {i \in DOMAIN route.hops : Names(route, i, m) /\ \A j \in 1..(i - 1) : ~Names(route, j, m)}

Hint(route, m) ==
  IF FirstHints(route, m) = {} THEN NoProgram
  ELSE route.hops[CHOOSE i \in FirstHints(route, m) : TRUE].extra[m]

\* Guarded path: an unknown program is an error; one taken from a pool is cached.
Learned(route, known) ==
  [m \in Mints |->
     IF m \in RouteMints(route) \ {Wsol} THEN OrElse(known[m], Hint(route, m)) ELSE known[m]]

AtaProgram(m, known) == IF m = Wsol THEN "spl" ELSE OrElse(known[m], "spl")

CreateAtas(route, known) ==
  <<[op |-> "create", accounts |-> {<<m, AtaProgram(m, known)>> : m \in RouteMints(route)}]>>

Wrap(route) ==
  IF route.hops[1].input = Wsol THEN <<[op |-> "wrap", amount |-> route.input]>> ELSE <<>>

Unwrap(route) ==
  IF route.hops[Len(route.hops)].output = Wsol THEN <<[op |-> "unwrap"]>> ELSE <<>>

\* Mutated form: one offset for all DEXes.
RecordedOffsetUniform(dex) == 8

\* The offset build_execute_arb_v2_ix records for the rewriting of the amount.
RecordedOffset(dex) == IF dex = "RaydiumAmm" THEN 1 ELSE 8

\* The accounts listed before and with hop i, among which its output account is looked up.
AccountsUpTo(ixs, i) == UNION {{ixs[j].from, ixs[j].to} : j \in 1..i}

OutputAccount(hop, known) == <<hop.output, AtaProgram(hop.output, known)>>

\* Mutated form: the output account is not looked up.
OutputsUnchecked(route, ixs, known) == TRUE

OutputsListed(route, ixs, known) ==
  \A i \in DOMAIN ixs : OutputAccount(route.hops[i], known) \in AccountsUpTo(ixs, i)

ExecuteArbV2(route, ixs, minFinal, known) ==
  [op |-> "arb_v2", min |-> minFinal,
   hops |-> [i \in DOMAIN ixs |->
               [ix |-> ixs[i], offset |-> RecordedOffset(ixs[i].dex),
                out |-> OutputAccount(route.hops[i], known)]]]

\* build_arb_instructions: with the guard program one CPI, without it the swaps themselves.
BuildOk(route, minFinal, guarded, known) ==
  /\ \A i \in DOMAIN route.hops : Buildable(route.hops[i])
  /\ guarded =>
       /\ \A m \in RouteMints(route) \ {Wsol} : known[m] # NoProgram
       /\ OutputsListed(route, HopIxs(route, minFinal, known), known)

BuildArbInstructions(route, minFinal, guarded, known) ==
  LET swaps == HopIxs(route, minFinal, known)
  IN  CreateAtas(route, known) \o Wrap(route)
        \o (IF guarded THEN <<ExecuteArbV2(route, swaps, minFinal, known)>> ELSE swaps)
        \o Unwrap(route)

\* build_signed_bundle_tx refuses a tip of zero and appends the transfer of the tip.
SignedBundle(ixs, tip) == Append(ixs, [op |-> "tip", amount |-> tip])

====
