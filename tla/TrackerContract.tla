---------------------------- MODULE TrackerContract ----------------------------
(***************************************************************************)
(* What spawn_confirmation_tracker promises its caller, with clocks, polls  *)
(* and retries hidden (src/src/executor/confirmation.rs, the comments of    *)
(* OnLandedCallback and of spawn_confirmation_tracker): on_landed is called *)
(* at most once and only for a bundle that is on chain, on_settle exactly   *)
(* once and last.  CexDexFanout composes its trackers out of these steps.   *)
(***************************************************************************)
EXTENDS Naturals

VARIABLES stage,        \* "collecting", "polling", "settling" or "done"
          onChain,      \* a bundle the tracker follows has landed
          landedCalls,  \* calls of on_landed
          settleCalls   \* calls of on_settle

contractVars == <<stage, onChain, landedCalls, settleCalls>>

ContractInit ==
  /\ stage = "collecting"
  /\ onChain = FALSE
  /\ landedCalls = 0
  /\ settleCalls = 0

Environment ==
  /\ onChain' = TRUE
  /\ UNCHANGED <<stage, landedCalls, settleCalls>>

Collected ==
  /\ stage = "collecting"
  /\ stage' \in {"polling", "settling"}
  /\ UNCHANGED <<onChain, landedCalls, settleCalls>>

ReportLanded ==
  /\ stage = "polling" /\ onChain
  /\ stage' = "settling"
  /\ landedCalls' = landedCalls + 1
  /\ UNCHANGED <<onChain, settleCalls>>

GiveUp ==
  /\ stage = "polling"
  /\ stage' = "settling"
  /\ UNCHANGED <<onChain, landedCalls, settleCalls>>

ReportSettled ==
  /\ stage = "settling"
  /\ stage' = "done"
  /\ settleCalls' = settleCalls + 1
  /\ UNCHANGED <<onChain, landedCalls>>

ContractNext == Environment \/ Collected \/ ReportLanded \/ GiveUp \/ ReportSettled

ContractSpec == ContractInit /\ [][ContractNext]_contractVars

(* The same with the promise that the end is reached.                       *)
FairContractSpec == ContractSpec /\ <>(stage = "done")
=============================================================================
