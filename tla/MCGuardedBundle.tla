---- MODULE MCGuardedBundle ----
EXTENDS GuardedBundle

CONSTANTS Dexes, Input, MaxCalls

MCTrueProgram == [m \in Mints |-> IF m = "pyusd" THEN "t22" ELSE "spl"]

Extras == {[m \in Mints |-> NoProgram], MCTrueProgram}

MCHop(dex, aToB, input, output, extra) ==
  [dex |-> dex, aToB |-> aToB, input |-> input, output |-> output, est |-> 1,
   complete |-> TRUE, extra |-> extra]

\* A route whose first pool lacks a field.
IncompleteHops ==
  <<[MCHop("OrcaWhirlpool", TRUE, Wsol, "usdc", MCTrueProgram) EXCEPT !.complete = FALSE],
    MCHop("OrcaWhirlpool", FALSE, "usdc", Wsol, MCTrueProgram)>>

\* Two hops, out of SOL into another mint and back.
MCRoutes ==
  {[input |-> Input, hops |-> <<MCHop(d1, FALSE, Wsol, m, e), MCHop(d2, TRUE, m, Wsol, e)>>] :
     d1 \in Dexes, d2 \in Dexes, m \in Mints \ {Wsol}, e \in Extras}
    \cup {[input |-> Input, hops |-> IncompleteHops]}

HandSwap(from, to) ==
  OrcaSwap(MCHop("OrcaWhirlpool", TRUE, from, to, MCTrueProgram), 1, 0)

HandArb ==
  [op |-> "arb", amount |-> 1, min |-> 1,
   hops |-> <<[ix |-> HandSwap(Wsol, "usdc"), out |-> <<"usdc", "spl">>],
              [ix |-> HandSwap("usdc", Wsol), out |-> <<Wsol, "spl">>]>>]

\* What the owner of the guard may put into a transaction of his own.
Calls ==
  {[op |-> "start_check", account |-> a] : a \in {Wsol, "usdc"}}
    \cup {[op |-> "profit_check", account |-> a, min |-> m] : a \in {Wsol, "usdc"}, m \in 0..1}
    \cup {HandSwap(Wsol, "usdc"), HandSwap("usdc", Wsol), HandArb}
    \cup {[op |-> "wrap", amount |-> 1]}

MCProgrammed == UNION {[1..n -> Calls] : n \in 1..MaxCalls}
====
