-------------------------- MODULE ConfirmationTracker --------------------------
(***************************************************************************)
(* One confirmation tracker with its clock: the task that                   *)
(* spawn_confirmation_tracker (src/src/executor/confirmation.rs) starts     *)
(* after a dispatch.  It collects bundle ids from the relay tasks, then     *)
(* polls getBundleStatuses until a bundle is confirmed, one has failed, the *)
(* deadline has passed or the RPC failed twice in a row.                    *)
(*                                                                          *)
(* The main engine follows the bundles of all its relays in one tracker,    *)
(* cexdex one bundle per tracker: Relays is the set of relays dispatched to.*)
(* Time is in ticks, Second of them to a second: the code sleeps in         *)
(* milliseconds.  Timers fire on time; a call of the RPC takes up to        *)
(* MaxCall ticks.                                                           *)
(***************************************************************************)
EXTENDS Naturals, FiniteSets

CONSTANTS Relays,
          Second,       \* ticks of the clock in a second
          MaxCall       \* longest RPC call

ASSUME TrackerAssumption ==
  /\ Relays # {}
  /\ Second \in Nat \ {0}
  /\ MaxCall \in Nat

CollectWindow       == 6 * Second                \* phase 1
ConfirmationTimeout == 12 * Second               \* CONFIRMATION_TIMEOUT
PollInterval        == 3 * Second                \* POLL_INTERVAL
MaxRpcErrors        == 2                         \* MAX_RPC_ERRORS
Stagger             == Second..(3 * Second - 1)  \* a second plus a jitter below two

VARIABLES now,
          prompt,       \* the RPC is healthy: no call fails and no answer lags
          phase,        \* where the task is suspended, or what it does next
          wake,         \* end of the running sleep or call
          deadline,     \* phase 2 ends here
          inbox,        \* inbox[r] : the RelayResult of r, still to come, sent or received
          ids,          \* relays whose bundle id was collected
          rpcErrors,
          fate,         \* fate[r] : what the chain did with the bundle of r
          early,        \* history: relays whose bundle landed early enough to be polled for
          landedCalls,  \* calls of on_landed
          settleCalls   \* calls of on_settle

vars == <<now, prompt, phase, wake, deadline, inbox, ids, rpcErrors, fate, early, landedCalls,
          settleCalls>>

callbacks == <<landedCalls, settleCalls>>
world     == <<prompt, inbox, fate, early>>

Init ==
  /\ now = 0
  /\ prompt \in BOOLEAN
  /\ phase = "collect"
  /\ wake = CollectWindow
  /\ deadline = 0
  /\ inbox = [r \in Relays |-> "pending"]
  /\ ids = {}
  /\ rpcErrors = 0
  /\ fate = [r \in Relays |-> "open"]
  /\ early = {}
  /\ landedCalls = 0
  /\ settleCalls = 0

-----------------------------------------------------------------------------
(* The world outside                                                        *)

(* A relay task sends its RelayResult: an accepted bundle with its id, or   *)
(* anything else.  What it sends once the window is over is read by nobody. *)
Respond(r) ==
  /\ phase = "collect" /\ now < wake
  /\ inbox[r] = "pending"
  /\ \E result \in {"id", "noid"} : inbox' = [inbox EXCEPT ![r] = result]
  /\ UNCHANGED <<now, phase, wake, deadline, ids, rpcErrors, prompt, fate, early, callbacks>>

(* What is on chain now was there before the last poll began: polls before  *)
(* the deadline start no more than an interval and a call apart.            *)
InTimeForAPoll == phase = "collect" \/ now + PollInterval + MaxCall < deadline

(* The bundle of r enters the chain.                                        *)
Land(r) ==
  /\ fate[r] = "open" /\ phase # "done"
  /\ \/ /\ fate' = [fate EXCEPT ![r] = "landed"]
        /\ early' = IF InTimeForAPoll THEN early \cup {r} ELSE early
     \/ fate' = [fate EXCEPT ![r] = "failed"] /\ UNCHANGED early
  /\ UNCHANGED <<now, phase, wake, deadline, inbox, ids, rpcErrors, prompt, callbacks>>

(* Time passes, but not past a timer that is due nor past work to do.       *)
Tick ==
  /\ phase \in {"collect", "sleep", "call", "analyse"}
  /\ now < wake
  /\ phase = "collect" => \A r \in Relays : inbox[r] \notin {"id", "noid"}
  /\ now' = now + 1
  /\ UNCHANGED <<phase, wake, deadline, ids, rpcErrors, world, callbacks>>

-----------------------------------------------------------------------------
(* Phase 1                                                                  *)

(* Mutated form: every result opens a new window.                           *)
ReceiveRestarting(r) ==
  /\ phase = "collect" /\ now < wake
  /\ inbox[r] \in {"id", "noid"}
  /\ ids' = IF inbox[r] = "id" THEN ids \cup {r} ELSE ids
  /\ inbox' = [inbox EXCEPT ![r] = "received"]
  /\ wake' = now + CollectWindow
  /\ UNCHANGED <<now, phase, deadline, rpcErrors, prompt, fate, early, callbacks>>

Receive(r) ==
  /\ phase = "collect" /\ now < wake
  /\ inbox[r] \in {"id", "noid"}
  /\ ids' = IF inbox[r] = "id" THEN ids \cup {r} ELSE ids
  /\ inbox' = [inbox EXCEPT ![r] = "received"]
  /\ UNCHANGED <<now, phase, wake, deadline, rpcErrors, prompt, fate, early, callbacks>>

(* The channel is closed once every relay task is done; or the window ends. *)
EndCollect ==
  /\ phase = "collect"
  /\ now >= wake \/ \A r \in Relays : inbox[r] = "received"
  /\ IF ids = {}
     THEN /\ phase' = "settle"
          /\ UNCHANGED <<wake, deadline>>
     ELSE /\ phase' = "sleep"
          /\ deadline' = now + ConfirmationTimeout
          /\ \E s \in Stagger : wake' = now + s
  /\ UNCHANGED <<now, ids, rpcErrors, world, callbacks>>

-----------------------------------------------------------------------------
(* Phase 2                                                                  *)

(* The task awaits n calls of the RPC, one after the other.                 *)
Await(next, n) ==
  /\ phase' = next
  /\ \E d \in 0..(n * MaxCall) : wake' = now + d

(* check_competitor: the signatures on the pool, then one transaction.      *)
Analyse == Await("analyse", 2)

(* Head of the poll loop.                                                   *)
Poll ==
  /\ phase = "sleep" /\ now >= wake
  /\ IF now >= deadline THEN Analyse ELSE Await("call", 1)
  /\ UNCHANGED <<now, deadline, ids, rpcErrors, world, callbacks>>

CallDone == phase = "call" /\ now >= wake

SleepFor(d) == phase' = "sleep" /\ wake' = now + d

OnChainIds == {r \in ids : fate[r] # "open"}

(* The ids getBundleStatuses knows of: without lag, all that are on chain.  *)
Answers == IF prompt THEN {OnChainIds} ELSE SUBSET OnChainIds

(* The first status that is confirmed decides, landed ...                   *)
StatusLanded ==
  /\ CallDone
  /\ \E seen \in Answers : \E r \in seen : fate[r] = "landed"
  /\ landedCalls' = landedCalls + 1
  /\ phase' = "settle"
  /\ UNCHANGED <<now, wake, deadline, ids, rpcErrors, world, settleCalls>>

(* ... or failed.                                                           *)
StatusFailed ==
  /\ CallDone
  /\ \E seen \in Answers : \E r \in seen : fate[r] = "failed"
  /\ Analyse
  /\ UNCHANGED <<now, deadline, ids, rpcErrors, world, callbacks>>

(* Mutated form: the wait is doubled after every poll.                      *)
StatusPendingSlow ==
  /\ CallDone
  /\ {} \in Answers
  /\ rpcErrors' = 0
  /\ SleepFor(2 * PollInterval)
  /\ UNCHANGED <<now, deadline, ids, world, callbacks>>

StatusPending ==
  /\ CallDone
  /\ {} \in Answers
  /\ rpcErrors' = 0
  /\ SleepFor(PollInterval)
  /\ UNCHANGED <<now, deadline, ids, world, callbacks>>

(* Mutated form: an error is taken for a bundle not found yet.              *)
StatusRpcErrorPending ==
  /\ CallDone
  /\ ~prompt
  /\ rpcErrors' = rpcErrors + 1
  /\ SleepFor(PollInterval)
  /\ UNCHANGED <<now, deadline, ids, world, callbacks>>

(* One error doubles the wait, MaxRpcErrors in a row end the tracking.      *)
StatusRpcError ==
  /\ CallDone
  /\ ~prompt
  /\ rpcErrors' = rpcErrors + 1
  /\ IF rpcErrors' >= MaxRpcErrors
     THEN phase' = "settle" /\ UNCHANGED wake
     ELSE SleepFor(2 * PollInterval)
  /\ UNCHANGED <<now, deadline, ids, world, callbacks>>

(* Mutated form: the failed and timed-out branches forget on_settle.        *)
AnalysedUnsettled ==
  /\ phase = "analyse" /\ now >= wake
  /\ phase' = "done"
  /\ UNCHANGED <<now, wake, deadline, ids, rpcErrors, world, callbacks>>

(* check_competitor returns.                                                *)
Analysed ==
  /\ phase = "analyse" /\ now >= wake
  /\ phase' = "settle"
  /\ UNCHANGED <<now, wake, deadline, ids, rpcErrors, world, callbacks>>

Settle ==
  /\ phase = "settle"
  /\ settleCalls' = settleCalls + 1
  /\ phase' = "done"
  /\ UNCHANGED <<now, wake, deadline, ids, rpcErrors, world, landedCalls>>

Task ==
  \/ EndCollect \/ (\E r \in Relays : Receive(r))
  \/ Poll \/ StatusLanded \/ StatusFailed \/ StatusPending \/ StatusRpcError
  \/ Analysed \/ Settle

Next == Task \/ Tick \/ (\E r \in Relays : Respond(r) \/ Land(r))

Spec == Init /\ [][Next]_vars

(* The runtime polls a task that can run, and time goes on.                 *)
FairSpec == Spec /\ WF_vars(Task) /\ WF_vars(Tick)

(***************************************************************************)
(* Properties                                                               *)
(***************************************************************************)

TypeOK ==
  /\ now \in Nat /\ wake \in Nat /\ deadline \in Nat
  /\ prompt \in BOOLEAN
  /\ phase \in {"collect", "sleep", "call", "analyse", "settle", "done"}
  /\ inbox \in [Relays -> {"pending", "id", "noid", "received"}]
  /\ ids \subseteq Relays
  /\ rpcErrors \in 0..MaxRpcErrors
  /\ fate \in [Relays -> {"open", "landed", "failed"}]
  /\ early \subseteq Relays
  /\ landedCalls \in Nat /\ settleCalls \in Nat

(* The tracker honours its contract: on_landed at most once, only for a     *)
(* bundle on chain and before on_settle; on_settle once, last, and always.  *)
Stage ==
  CASE phase = "collect"                     -> "collecting"
    [] phase \in {"sleep", "call"}           -> "polling"
    [] phase \in {"analyse", "settle"}       -> "settling"
    [] phase = "done"                        -> "done"

Contract == INSTANCE TrackerContract
              WITH stage <- Stage, onChain <- \E r \in Relays : fate[r] = "landed"

ImplementsContract == Contract!FairContractSpec

(* A caller waits at most this long for on_settle, whatever the relays, the *)
(* chain and the RPC do: the last poll starts before the deadline, as close *)
(* to it as the stagger brings it, fails and doubles the wait, and the      *)
(* analysis makes two calls.  A nonce is never out for longer.              *)
LongestLife ==
  CollectWindow + ConfirmationTimeout + MaxCall + 2 * PollInterval + 2 * MaxCall

SettlesInTime == now <= LongestLife

(* With a healthy RPC a followed bundle that was on chain before the last   *)
(* poll began is reported, if no other one failed: stagger, interval and    *)
(* deadline leave no gap.                                                   *)
EarlyLandingReported ==
  /\ prompt /\ phase = "done"
  /\ ids \cap early # {}
  /\ \A r \in ids : fate[r] # "failed"
  => landedCalls = 1

=============================================================================
