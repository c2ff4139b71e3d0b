---------------------------- MODULE MCEngineRouter ----------------------------
(***************************************************************************)
(* Two pools, two slots and a channel of one notice; a window of two ticks  *)
(* and two submissions in it.  Three modes: a dry run, the simulator with a  *)
(* public transaction, and no simulator.                                    *)
(***************************************************************************)
EXTENDS EngineRouter

MCModes == {[dry |-> TRUE,  skip |-> FALSE, public |-> FALSE],
            [dry |-> FALSE, skip |-> FALSE, public |-> TRUE],
            [dry |-> FALSE, skip |-> TRUE,  public |-> FALSE]}
MCSlippage == <<1, 4>>
MCTip == <<1, 2>>
===============================================================================
