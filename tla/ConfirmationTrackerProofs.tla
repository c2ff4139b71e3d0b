----------------------- MODULE ConfirmationTrackerProofs -----------------------
(***************************************************************************)
(* Theorems about one confirmation tracker, for any number of relays and    *)
(* any duration of an RPC call: how long it may live, and the safety half   *)
(* of its contract.                                                         *)
(***************************************************************************)
EXTENDS ConfirmationTracker, TLAPS

USE TrackerAssumption DEF CollectWindow, ConfirmationTimeout, PollInterval, MaxRpcErrors, Stagger

Running == {"collect", "sleep", "call", "analyse"}

(* Before the next wake-up time cannot pass it, and each wait is bounded by *)
(* the deadline plus what may follow the last poll before it.               *)
TimeInv ==
  /\ TypeOK
  /\ now <= wake
  /\ phase = "collect" => wake = CollectWindow /\ rpcErrors = 0
  /\ phase \in {"sleep", "call"} => rpcErrors < MaxRpcErrors
  /\ deadline <= CollectWindow + ConfirmationTimeout
  /\ phase = "sleep" => wake <= deadline + MaxCall + 2 * PollInterval
  /\ phase = "call" => wake <= deadline + MaxCall
  /\ phase \in {"analyse", "settle", "done"} => wake <= LongestLife

(* The tracker starts inside its collection window.                         *)
LEMMA InitTimeInv == Init => TimeInv
  BY DEF Init, TimeInv, TypeOK

(* Each wait starts early enough to end in time.                            *)
LEMMA NextTimeInv == TimeInv /\ [Next]_vars => TimeInv'
<1> SUFFICES ASSUME TimeInv, [Next]_vars PROVE TimeInv'
  OBVIOUS
<1> USE DEF TimeInv, TypeOK, callbacks, world
<1>1. CASE Tick
  BY <1>1 DEF Tick, LongestLife
<1>2. CASE EndCollect
  <2>1. CASE ids = {}
    BY <1>2, <2>1 DEF EndCollect, LongestLife
  <2>2. CASE ids # {}
    <3>1. PICK s \in Stagger : wake' = now + s
      BY <1>2, <2>2 DEF EndCollect
    <3>2. /\ phase = "collect" /\ phase' = "sleep"
          /\ deadline' = now + ConfirmationTimeout
          /\ UNCHANGED <<now, prompt, ids, rpcErrors, inbox, fate, early, landedCalls, settleCalls>>
      BY <1>2, <2>2 DEF EndCollect
    <3>3. /\ wake' \in Nat
          /\ now <= wake'
          /\ wake' <= deadline' + MaxCall + 2 * PollInterval
          /\ deadline' \in Nat
          /\ deadline' <= CollectWindow + ConfirmationTimeout
      BY <3>1, <3>2
    <3> QED
      BY <3>2, <3>3
  <2> QED
    BY <2>1, <2>2
<1>3. ASSUME NEW r \in Relays, Receive(r) PROVE TimeInv'
  BY <1>3 DEF Receive, LongestLife
<1>4. CASE Poll
  BY <1>4 DEF Poll, Analyse, Await, LongestLife
<1>5. CASE StatusLanded
  BY <1>5 DEF StatusLanded, CallDone, LongestLife
<1>6. CASE StatusFailed
  BY <1>6 DEF StatusFailed, CallDone, Analyse, Await, LongestLife
<1>7. CASE StatusPending
  BY <1>7 DEF StatusPending, CallDone, SleepFor, LongestLife
<1>8. CASE StatusRpcError
  BY <1>8 DEF StatusRpcError, CallDone, SleepFor, LongestLife
<1>9. CASE Analysed
  BY <1>9 DEF Analysed, LongestLife
<1>10. CASE Settle
  BY <1>10 DEF Settle, LongestLife
<1>11. ASSUME NEW r \in Relays, Respond(r) PROVE TimeInv'
  BY <1>11 DEF Respond, LongestLife
<1>12. ASSUME NEW r \in Relays, Land(r) PROVE TimeInv'
  BY <1>12 DEF Land, InTimeForAPoll, LongestLife
<1>13. CASE UNCHANGED vars
  BY <1>13 DEF vars, LongestLife
<1> QED
  BY <1>1, <1>2, <1>3, <1>4, <1>5, <1>6, <1>7, <1>8, <1>9, <1>10, <1>11, <1>12, <1>13
     DEF Next, Task

(* The variables keep their types in every behaviour.                       *)
THEOREM TrackerTypeCorrect == Spec => []TypeOK
<1>1. TimeInv => TypeOK
  BY DEF TimeInv
<1> QED
  BY InitTimeInv, NextTimeInv, <1>1, PTL DEF Spec

(* A tracker is done within LongestLife of its start, whatever relays,      *)
(* chain and RPC do, however long (up to MaxCall) a call takes and however  *)
(* finely the clock runs: every moment at which a poll may start is covered. *)
THEOREM BoundedLife == Spec => []SettlesInTime
<1>1. TimeInv => SettlesInTime
  BY DEF TimeInv, SettlesInTime, TypeOK, LongestLife
<1> QED
  BY InitTimeInv, NextTimeInv, <1>1, PTL DEF Spec

-----------------------------------------------------------------------------
(* Early landings.                                                          *)

(* The deadline has passed, and nothing landed in time for the last poll.   *)
LateOnly ==
  /\ now >= deadline
  /\ ids \cap early = {}

(* Under a healthy RPC a sleep is no longer than an interval, and one that  *)
(* reaches the deadline follows a poll that found nothing on chain; so what *)
(* is not reported landed after that poll.  The stagger ends before the     *)
(* deadline, so what landed while ids were collected is always polled for.  *)
EarlyInv ==
  /\ phase \in Running => landedCalls = 0
  /\ \A r \in early : fate[r] = "landed"
  /\ prompt /\ phase = "sleep" =>
       /\ wake <= now + PollInterval
       /\ wake < deadline \/ ids \cap early = {}
  /\ prompt /\ phase \notin Running =>
       \/ ids = {}
       \/ landedCalls = 1
       \/ \E r \in ids : fate[r] = "failed"
       \/ LateOnly
  /\ prompt /\ phase = "analyse" => LateOnly \/ \E r \in ids : fate[r] = "failed"

(* The tracker has neither polled nor reported.                             *)
LEMMA InitEarly == Init => EarlyInv
  BY DEF Init, EarlyInv, Running

(* Every step keeps the invariant.                                          *)
LEMMA NextEarly == TimeInv /\ EarlyInv /\ [Next]_vars => EarlyInv'
<1> SUFFICES ASSUME TimeInv, EarlyInv, [Next]_vars PROVE EarlyInv'
  OBVIOUS
<1> USE DEF EarlyInv, LateOnly, Running, callbacks, world
<1>t. /\ now \in Nat /\ wake \in Nat /\ deadline \in Nat /\ now <= wake
      /\ early \subseteq Relays /\ fate \in [Relays -> {"open", "landed", "failed"}]
      /\ ids \subseteq Relays /\ MaxCall \in Nat
      /\ landedCalls \in Nat
  BY DEF TimeInv, TypeOK
<1>1. CASE Tick
  BY <1>1, <1>t DEF Tick
<1>2. CASE EndCollect
  BY <1>2, <1>t DEF EndCollect
<1>3. ASSUME NEW r \in Relays, Receive(r) PROVE EarlyInv'
  BY <1>3, <1>t DEF Receive
<1>4. CASE Poll
  <2>1. phase = "sleep" /\ now = wake /\ UNCHANGED <<now, deadline, ids, prompt, fate, early, landedCalls>>
    BY <1>4, <1>t DEF Poll
  <2>2. CASE now >= deadline
    <3>1. phase' = "analyse"
      BY <1>4, <2>2 DEF Poll, Analyse, Await
    <3>2. prompt => LateOnly
      BY <2>1, <2>2, <1>t
    <3> QED
      BY <2>1, <3>1, <3>2
  <2>3. CASE ~(now >= deadline)
    <3>1. phase' = "call"
      BY <1>4, <2>3 DEF Poll, Await
    <3> QED
      BY <2>1, <3>1
  <2> QED
    BY <2>2, <2>3
<1>5. CASE StatusLanded
  BY <1>5, <1>t DEF StatusLanded, CallDone
<1>6. CASE StatusFailed
  <2>1. \E r \in ids : fate[r] = "failed"
    BY <1>6 DEF StatusFailed, Answers, OnChainIds
  <2>2. phase' = "analyse" /\ phase = "call" /\ UNCHANGED <<now, deadline, ids, prompt, fate, early, landedCalls>>
    BY <1>6 DEF StatusFailed, CallDone, Analyse, Await
  <2> QED
    BY <2>1, <2>2
<1>7. CASE StatusPending
  <2>1. prompt => \A r \in ids : fate[r] = "open"
    BY <1>7 DEF StatusPending, Answers, OnChainIds
  <2>2. /\ phase' = "sleep" /\ phase = "call" /\ wake' = now + PollInterval
        /\ UNCHANGED <<now, deadline, ids, prompt, fate, early, landedCalls>>
    BY <1>7 DEF StatusPending, CallDone, SleepFor
  <2> QED
    BY <2>1, <2>2, <1>t
<1>8. CASE StatusRpcError
  BY <1>8 DEF StatusRpcError, CallDone, SleepFor
<1>9. CASE Analysed \/ Settle
  BY <1>9 DEF Analysed, Settle
<1>10. ASSUME NEW r \in Relays, Respond(r) PROVE EarlyInv'
  BY <1>10 DEF Respond
<1>11. ASSUME NEW r \in Relays, Land(r) PROVE EarlyInv'
  <2>1. UNCHANGED <<now, prompt, phase, wake, deadline, ids, landedCalls>>
    BY <1>11 DEF Land
  <2>2. /\ \A q \in ids : fate[q] = "failed" => fate'[q] = "failed"
        /\ \A q \in early' : fate'[q] = "landed"
    BY <1>11, <1>t DEF Land
  <2>3. CASE early' = early
    BY <2>1, <2>2, <2>3
  <2>4. CASE early' # early
    <3>1. phase = "collect" \/ now + PollInterval + MaxCall < deadline
      BY <1>11, <2>4 DEF Land, InTimeForAPoll
    <3>2. prompt /\ phase = "sleep" => wake < deadline
      BY <3>1, <1>t
    <3>3. phase # "collect" => ~LateOnly
      BY <3>1, <1>t
    <3> QED
      BY <2>1, <2>2, <3>2, <3>3
  <2> QED
    BY <2>3, <2>4
<1>12. CASE UNCHANGED vars
  BY <1>12 DEF vars
<1> QED
  BY <1>1, <1>2, <1>3, <1>4, <1>5, <1>6, <1>7, <1>8, <1>9, <1>10, <1>11, <1>12 DEF Next, Task

(* Under a healthy RPC, a bundle that was on chain an interval and a call   *)
(* before the deadline is reported, if no other one has failed: for any     *)
(* number of relays, any length of a call and any granularity of the clock. *)
THEOREM NoLandingMissed == Spec => []EarlyLandingReported
<1>1. TimeInv /\ EarlyInv => EarlyLandingReported
  <2> SUFFICES ASSUME TimeInv, EarlyInv, prompt, phase = "done", ids \cap early # {},
                      \A r \in ids : fate[r] # "failed"
               PROVE  landedCalls = 1
    BY DEF EarlyLandingReported
  <2> QED
    BY DEF EarlyInv, LateOnly, Running
<1> QED
  BY InitTimeInv, NextTimeInv, InitEarly, NextEarly, <1>1, PTL DEF Spec

-----------------------------------------------------------------------------
(* The contract                                                             *)

OnChain == \E r \in Relays : fate[r] = "landed"

(* Every step of a tracker is one the contract allows, or invisible to it.  *)
LEMMA ContractNextMaps ==
  TypeOK /\ [Next]_vars => [Contract!ContractNext]_(Contract!contractVars)
<1> SUFFICES ASSUME TypeOK, [Next]_vars
             PROVE  [Contract!ContractNext]_(Contract!contractVars)
  OBVIOUS
<1> USE DEF callbacks, world, Contract!ContractNext
<1>1. CASE UNCHANGED <<Stage, fate, landedCalls, settleCalls>>
  BY <1>1 DEF Contract!contractVars
<1>2. CASE Tick
  BY <1>1, <1>2 DEF Tick, Stage
<1>3. CASE EndCollect
  <2>1. phase = "collect" /\ phase' \in {"settle", "sleep"} /\ UNCHANGED <<fate, landedCalls, settleCalls>>
    BY <1>3 DEF EndCollect
  <2>2. Stage = "collecting" /\ Stage' \in {"polling", "settling"}
    BY <2>1 DEF Stage
  <2> QED
    BY <2>1, <2>2 DEF Contract!Collected
<1>4. ASSUME NEW r \in Relays, Receive(r) \/ Respond(r) PROVE UNCHANGED <<Stage, fate, landedCalls, settleCalls>>
  BY <1>4 DEF Receive, Respond, Stage
<1>5. CASE Poll
  <2>1. phase = "sleep" /\ phase' \in {"analyse", "call"} /\ UNCHANGED <<fate, landedCalls, settleCalls>>
    BY <1>5 DEF Poll, Analyse, Await
  <2>2. Stage = "polling" /\ Stage' \in {"polling", "settling"}
    BY <2>1 DEF Stage
  <2> QED
    BY <1>1, <2>1, <2>2 DEF Contract!GiveUp
<1>6. CASE StatusLanded
  <2>1. /\ phase = "call" /\ phase' = "settle"
        /\ landedCalls' = landedCalls + 1
        /\ UNCHANGED <<fate, settleCalls>>
    BY <1>6 DEF StatusLanded, CallDone
  <2>2. \E r \in Relays : fate[r] = "landed"
    BY <1>6 DEF StatusLanded, Answers, OnChainIds, TypeOK
  <2>3. Stage = "polling" /\ Stage' = "settling"
    BY <2>1 DEF Stage
  <2> QED
    BY <2>1, <2>2, <2>3 DEF Contract!ReportLanded
<1>7. CASE StatusFailed \/ StatusPending \/ StatusRpcError
  <2>1. phase = "call" /\ phase' \in {"analyse", "sleep", "settle"} /\ UNCHANGED <<fate, landedCalls, settleCalls>>
    BY <1>7 DEF StatusFailed, StatusPending, StatusRpcError, CallDone, Analyse, Await, SleepFor
  <2>2. Stage = "polling" /\ Stage' \in {"polling", "settling"}
    BY <2>1 DEF Stage
  <2> QED
    BY <1>1, <2>1, <2>2 DEF Contract!GiveUp
<1>8. CASE Analysed
  BY <1>1, <1>8 DEF Analysed, Stage
<1>9. CASE Settle
  <2>1. /\ phase = "settle" /\ phase' = "done"
        /\ settleCalls' = settleCalls + 1
        /\ UNCHANGED <<fate, landedCalls>>
    BY <1>9 DEF Settle
  <2>2. Stage = "settling" /\ Stage' = "done"
    BY <2>1 DEF Stage
  <2> QED
    BY <2>1, <2>2 DEF Contract!ReportSettled
<1>10. ASSUME NEW r \in Relays, Land(r) PROVE [Contract!ContractNext]_(Contract!contractVars)
  <2>1. UNCHANGED <<Stage, landedCalls, settleCalls>>
    BY <1>10 DEF Land, Stage
  <2>2. CASE OnChain' = OnChain
    BY <2>1, <2>2 DEF OnChain, Contract!contractVars
  <2>3. CASE OnChain' # OnChain
    <3>1. \A q \in Relays : fate[q] = "landed" => fate'[q] = "landed"
      BY <1>10 DEF Land, TypeOK
    <3>2. OnChain'
      BY <2>3, <3>1 DEF OnChain
    <3> QED
      BY <2>1, <3>2 DEF OnChain, Contract!Environment
  <2> QED
    BY <2>2, <2>3
<1>11. CASE UNCHANGED vars
  BY <1>1, <1>11 DEF vars, Stage
<1> QED
  BY <1>1, <1>2, <1>3, <1>4, <1>5, <1>6, <1>7, <1>8, <1>9, <1>10, <1>11 DEF Next, Task

(* on_landed at most once, only for a bundle on chain and before on_settle; *)
(* on_settle at most once and last (that it comes is left to the runs).     *)
THEOREM TrackerHonoursContract == Spec => Contract!ContractSpec
<1>1. Init => Contract!ContractInit
  BY DEF Init, Stage, Contract!ContractInit
<1> QED
  BY InitTimeInv, NextTimeInv, <1>1, ContractNextMaps, TrackerTypeCorrect, PTL DEF Spec, Contract!ContractSpec
=============================================================================
