--------------------------- MODULE MCCexDexInventory ---------------------------
(***************************************************************************)
(* One pool that is cheap or dear, a book that is sound, moved or inverted, *)
(* and two dispatches by two relays of different tips.                      *)
(***************************************************************************)
EXTENDS CexDexInventory

MCReserves == [pool |-> {[sol |-> 1000, usdc |-> 2800], [sol |-> 500, usdc |-> 3500]}]

MCBooks == {[bid |-> 4, ask |-> 4], [bid |-> 4, ask |-> 2]}

MCTipFractions == [jito |-> 6, astralane |-> 2]

Cap == <<4, 5>>
Low == <<2, 5>>
High == <<3, 5>>
Half == <<1, 2>>
Tenth == <<1, 10>>
=============================================================================
