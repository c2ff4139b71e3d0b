----------------------------- MODULE CexDexFanout -----------------------------
(***************************************************************************)
(* The cexdex binary from a detected opportunity to its settlement: the     *)
(* detector loop checks out a nonce, sends one bundle per configured relay, *)
(* all with the same nonce advance, and gives each bundle a confirmation    *)
(* tracker; relays, chain, Geyser stream and trackers then run              *)
(* concurrently with each other and with the next opportunities.            *)
(*                                                                          *)
(*   detector loop    src/src/bin/cexdex.rs, run_detector_loop              *)
(*   nonce pool       src/src/cexdex/nonce.rs (module NoncePool)            *)
(*   relay tasks      src/src/executor/relay_dispatcher.rs, relays/jito.rs  *)
(*   trackers         src/src/executor/confirmation.rs                      *)
(*   Geyser           src/src/mempool/stream.rs, the nonce short-circuit    *)
(*   chain            external: what the code relies on Solana to do        *)
(*                                                                          *)
(* Time is abstracted: a timeout may fire whenever its wait is still on.    *)
(* Module ConfirmationTracker models one tracker with its clock.            *)
(***************************************************************************)
EXTENDS NoncePool

CONSTANTS Relays,       \* relays with a tip fraction that has_relay() finds
          MaxOpps,      \* bound: opportunities dispatched
          MaxAdvances,  \* bound: nonce advances made by somebody else
          MaxReplays    \* bound: reconnections of the Geyser stream

ASSUME FanoutAssumption ==
  /\ Relays # {}        \* JitoRelay is always constructed and always configured
  /\ MaxOpps \in Nat
  /\ MaxAdvances \in Nat
  /\ MaxReplays \in Nat

Opps == 1..MaxOpps

MaxVersion == MaxAdvances + MaxOpps     \* no nonce advances more often

VARIABLES booted,       \* nonces whose hash the bootstrap has fetched
          pc,           \* where run_detector_loop stands
          cur,          \* opportunities dispatched so far; the latest is number cur
          unsent,       \* relays the loop of the current opportunity has still to serve
          hand,         \* hand[o] : the nonce and the hash the bundles of o carry
          overlap,      \* history: o took a nonce that an earlier opportunity still held
          settledOnce,  \* settledOnce[o] : the AtomicBool shared by the trackers of o
          bundle,       \* bundle[o][r] : the bundle for r: with its relay task or relay
                        \* ("live"), on chain, or of no further effect ("gone")
          reply,        \* reply[o][r] : the RelayResult in the tracker's channel
          tracker,      \* tracker[o][r] : where the confirmation tracker stands
          realized,     \* realized[o] : times the profit of o was added to realized P&L
          reserved,     \* inventory reservations, in trades
          chain,        \* chain[n] : version of the nonce on chain
          subscribed,   \* the Geyser stream delivers
          delivered,    \* delivered[n] : last version Geyser delivered or will never deliver
          replays,      \* reconnections so far
          advances      \* nonce advances made by somebody else

detVars   == <<booted, pc, cur, unsent, hand, overlap, reserved>>
trackVars == <<settledOnce, tracker, realized>>
relayVars == <<bundle, reply>>
chainVars == <<chain, advances>>
feedVars  == <<subscribed, delivered, replays>>
vars      == <<poolVars, detVars, trackVars, relayVars, chainVars, feedVars>>

Phases       == {"idle", "checkout", "reserve", "send"}
BundleStates == {"none", "live", "landed", "failed", "gone"}
Replies      == {"none", "id", "noid"}
TrackStates  == {"none", "collecting", "polling", "settling", "releasing", "done"}

TypeOK ==
  /\ PoolTypeOK
  /\ booted \in 0..NumNonces
  /\ pc \in Phases
  /\ cur \in 0..MaxOpps
  /\ unsent \subseteq Relays
  /\ hand \in [Opps -> [nonce : Nonces \cup {NoNonce}, hash : Nat \cup {NoHash}]]
  /\ overlap \in [Opps -> BOOLEAN]
  /\ settledOnce \in [Opps -> BOOLEAN]
  /\ bundle \in [Opps -> [Relays -> BundleStates]]
  /\ reply \in [Opps -> [Relays -> Replies]]
  /\ tracker \in [Opps -> [Relays -> TrackStates]]
  /\ realized \in [Opps -> Nat]
  /\ reserved \in Nat
  /\ chain \in [Nonces -> Nat]
  /\ subscribed \in BOOLEAN
  /\ delivered \in [Nonces -> Nat]
  /\ replays \in 0..MaxReplays
  /\ advances \in 0..MaxAdvances

Init ==
  /\ PoolInit
  /\ booted = 0
  /\ pc = "idle"
  /\ cur = 0
  /\ unsent = {}
  /\ hand = [o \in Opps |-> [nonce |-> NoNonce, hash |-> NoHash]]
  /\ overlap = [o \in Opps |-> FALSE]
  /\ settledOnce = [o \in Opps |-> FALSE]
  /\ bundle = [o \in Opps |-> [r \in Relays |-> "none"]]
  /\ reply = [o \in Opps |-> [r \in Relays |-> "none"]]
  /\ tracker = [o \in Opps |-> [r \in Relays |-> "none"]]
  /\ realized = [o \in Opps |-> 0]
  /\ reserved = 0
  /\ chain = [n \in Nonces |-> 0]
  /\ subscribed = FALSE
  /\ delivered = [n \in Nonces |-> 0]
  /\ replays = 0
  /\ advances = 0

-----------------------------------------------------------------------------
(* Start-up and the Geyser stream                                           *)

(* bootstrap_nonce_pool: one getAccountInfo per nonce, in order.  The RPC   *)
(* node answers at its default commitment, so it may lag behind the chain.  *)
(* A failure ends the program before anything else is started.              *)
Bootstrap ==
  /\ booted < NumNonces
  /\ \E v \in 0..chain[booted + 1] : UpdateCachedHash(booted + 1, v)
  /\ booted' = booted + 1
  /\ UNCHANGED <<scan, pc, cur, unsent, hand, overlap, reserved, trackVars, relayVars,
                 chainVars, feedVars>>

Booted == booted = NumNonces

(* Mutated form of the next action: Geyser starts before the bootstrap.     *)
SubscribeEarly ==
  /\ ~subscribed
  /\ subscribed' = TRUE
  /\ delivered' = chain
  /\ UNCHANGED <<poolVars, detVars, trackVars, relayVars, chainVars, replays>>

(* start_geyser runs after the bootstrap.  The subscription delivers the    *)
(* changes that follow it and nothing older.                                *)
Subscribe ==
  /\ Booted
  /\ ~subscribed
  /\ subscribed' = TRUE
  /\ delivered' = chain
  /\ UNCHANGED <<poolVars, detVars, trackVars, relayVars, chainVars, replays>>

(* Mutated form: updates of a nonce in flight are ignored.                  *)
DeliverWhenFree(n) ==
  /\ subscribed
  /\ delivered[n] < chain[n]
  /\ delivered' = [delivered EXCEPT ![n] = @ + 1]
  /\ IF pool[n].in_flight THEN UNCHANGED pool ELSE UpdateCachedHash(n, delivered[n] + 1)
  /\ UNCHANGED <<scan, detVars, trackVars, relayVars, chainVars, subscribed, replays>>

(* process_update, the nonce short-circuit: what arrives is stored, with no *)
(* look at its slot.                                                        *)
Deliver(n) ==
  /\ subscribed
  /\ delivered[n] < chain[n]
  /\ delivered' = [delivered EXCEPT ![n] = @ + 1]
  /\ UpdateCachedHash(n, delivered[n] + 1)
  /\ UNCHANGED <<scan, detVars, trackVars, relayVars, chainVars, subscribed, replays>>

(* LaserStream reconnects by itself and replays from an earlier slot, so    *)
(* versions already delivered arrive again, in order.                       *)
Reconnect ==
  /\ subscribed
  /\ replays < MaxReplays
  /\ replays' = replays + 1
  /\ delivered' \in {d \in [Nonces -> 0..MaxVersion] : \A n \in Nonces : d[n] <= delivered[n]}
  /\ UNCHANGED <<poolVars, detVars, trackVars, relayVars, chainVars, subscribed>>

(* Somebody else advances n: a bundle of an earlier run of the program, or  *)
(* the operator.                                                            *)
ExternalAdvance(n) ==
  /\ advances < MaxAdvances
  /\ advances' = advances + 1
  /\ chain' = [chain EXCEPT ![n] = @ + 1]
  /\ UNCHANGED <<poolVars, detVars, trackVars, relayVars, feedVars>>

-----------------------------------------------------------------------------
(* The detector loop                                                        *)

(* check_all finds a route, simulate calls it profitable, dry_run is off,   *)
(* the instructions are built and, in nonce-less mode, a blockhash is       *)
(* cached.  An opportunity that fails any of this leaves nothing behind.    *)
(* The checkout that follows finds a nonce, as the bootstrap has seen to it *)
(* that each has a hash.                                                    *)
Detect ==
  /\ Booted
  /\ pc = "idle"
  /\ cur < MaxOpps
  /\ pc' = "checkout"
  /\ UNCHANGED <<poolVars, booted, cur, unsent, hand, overlap, reserved, trackVars, relayVars,
                 chainVars, feedVars>>

CheckoutScan ==
  /\ pc = "checkout"
  /\ ScanEntry
  /\ UNCHANGED <<detVars, trackVars, relayVars, chainVars, feedVars>>

(* Some tracker of o has yet to settle, or has won the flag and not yet     *)
(* cleared the nonce.                                                       *)
Holds(o) == ~settledOnce[o] \/ \E r \in Relays : tracker[o][r] = "releasing"

CheckoutTake ==
  /\ pc = "checkout"
  /\ TakeWinner(cur + 1)
  /\ cur' = cur + 1
  /\ hand' = [hand EXCEPT ![cur + 1] = [nonce |-> scan.best.nonce, hash |-> scan.best.hash]]
  /\ overlap' = [overlap EXCEPT ![cur + 1] =
                   \E o \in 1..cur : hand[o].nonce = scan.best.nonce /\ Holds(o)]
  /\ pc' = "reserve"
  /\ UNCHANGED <<booted, unsent, reserved, trackVars, relayVars, chainVars, feedVars>>

(* Nonce-less mode: the recent blockhash stands in for the nonce.           *)
TakeBlockhash ==
  /\ pc = "checkout" /\ NumNonces = 0
  /\ cur' = cur + 1
  /\ pc' = "reserve"
  /\ UNCHANGED <<poolVars, booted, unsent, hand, overlap, reserved, trackVars, relayVars,
                 chainVars, feedVars>>

TakeHash == IF NumNonces = 0 THEN TakeBlockhash ELSE CheckoutTake

(* Mutated form of the next action: has_relay() is not asked.               *)
ReserveUnasked ==
  /\ pc = "reserve"
  /\ reserved' = reserved + 1
  /\ unsent' = Relays \cup {"unconfigured"}
  /\ pc' = "send"
  /\ UNCHANGED <<poolVars, booted, cur, hand, overlap, trackVars, relayVars, chainVars, feedVars>>

(* inventory.reserve, the fresh settled_once flag, and the head of the loop *)
(* over the relays.  The check of net_profit_usd on the way never aborts:   *)
(* simulate approves positive profits only.                                 *)
Reserve ==
  /\ pc = "reserve"
  /\ reserved' = reserved + 1
  /\ unsent' = Relays
  /\ pc' = "send"
  /\ UNCHANGED <<poolVars, booted, cur, hand, overlap, trackVars, relayVars, chainVars, feedVars>>

(* dispatch_single spawns the relay task, spawn_confirmation_tracker the    *)
(* tracker; the relays come in the arbitrary order of a HashMap.            *)
Send(r) ==
  /\ pc = "send" /\ r \in unsent
  /\ bundle' = [bundle EXCEPT ![cur][r] = "live"]
  /\ tracker' = [tracker EXCEPT ![cur][r] = "collecting"]
  /\ unsent' = unsent \ {r}
  /\ UNCHANGED <<poolVars, booted, pc, cur, hand, overlap, reserved, settledOnce, realized, reply,
                 chainVars, feedVars>>

(* mark_dispatched: the cooldowns start and the loop goes round.            *)
MarkDispatched ==
  /\ pc = "send" /\ unsent = {}
  /\ pc' = "idle"
  /\ UNCHANGED <<poolVars, booted, cur, unsent, hand, overlap, reserved, trackVars, relayVars,
                 chainVars, feedVars>>

-----------------------------------------------------------------------------
(* Relay tasks and the chain                                                *)

(* The RelayResult goes to the tracker if it still listens; `let _ =' drops *)
(* it otherwise.                                                            *)
Answer(o, r, a) ==
  reply' = IF tracker[o][r] = "collecting" THEN [reply EXCEPT ![o][r] = a] ELSE reply

(* Relay::submit ends without the relay having the bundle: rate limited,    *)
(* tip of zero, oversized transaction, rejected, request failed.            *)
RelayRefuses(o, r) ==
  /\ bundle[o][r] = "live" /\ reply[o][r] = "none"
  /\ bundle' = [bundle EXCEPT ![o][r] = "gone"]
  /\ Answer(o, r, "noid")
  /\ UNCHANGED <<poolVars, detVars, trackVars, chainVars, feedVars>>

(* The relay has the bundle, or had it; its answer may carry an id, carry   *)
(* none, time out or not parse.                                             *)
RelayAnswers(o, r) ==
  /\ tracker[o][r] = "collecting" /\ reply[o][r] = "none"
  /\ \E a \in {"id", "noid"} : Answer(o, r, a)
  /\ UNCHANGED <<poolVars, detVars, trackVars, bundle, chainVars, feedVars>>

(* advance_nonce_account is instruction 0 of every bundle: it goes through  *)
(* only against the hash the nonce has on chain.                            *)
NonceValid(o) == hand[o].nonce # NoNonce => chain[hand[o].nonce] = hand[o].hash

(* Mutated form: the transactions are built without advance_nonce_account.  *)
EnterWithoutAdvance(o, r, outcome) ==
  /\ bundle[o][r] = "live"
  /\ NonceValid(o)
  /\ bundle' = [bundle EXCEPT ![o][r] = outcome]
  /\ UNCHANGED <<poolVars, detVars, trackVars, reply, chainVars, feedVars>>

(* A transaction that enters the chain advances its nonce, whether its      *)
(* other instructions succeed or fail.                                      *)
Enter(o, r, outcome) ==
  /\ bundle[o][r] = "live"
  /\ NonceValid(o)
  /\ bundle' = [bundle EXCEPT ![o][r] = outcome]
  /\ chain' = [n \in Nonces |-> IF n = hand[o].nonce THEN chain[n] + 1 ELSE chain[n]]
  /\ UNCHANGED <<poolVars, detVars, trackVars, reply, advances, feedVars>>

Land(o, r)     == Enter(o, r, "landed")
LandFail(o, r) == Enter(o, r, "failed")

Expire(o, r) ==
  /\ bundle[o][r] = "live"
  /\ bundle' = [bundle EXCEPT ![o][r] = "gone"]
  /\ UNCHANGED <<poolVars, detVars, trackVars, reply, chainVars, feedVars>>

-----------------------------------------------------------------------------
(* Confirmation trackers                                                    *)

GoTo(o, r, state) == tracker' = [tracker EXCEPT ![o][r] = state]

(* Phase 1: wait for the RelayResult, six seconds at most.                  *)
CollectId(o, r) ==
  /\ tracker[o][r] = "collecting" /\ reply[o][r] = "id"
  /\ reply' = [reply EXCEPT ![o][r] = "none"]
  /\ GoTo(o, r, "polling")
  /\ UNCHANGED <<poolVars, detVars, settledOnce, realized, bundle, chainVars, feedVars>>

(* Mutated forms: the wait has no timeout of its own; a tracker without a   *)
(* bundle id returns without settling.                                      *)
CollectRefusal(o, r) ==
  /\ tracker[o][r] = "collecting" /\ reply[o][r] = "noid"
  /\ reply' = [reply EXCEPT ![o][r] = "none"]
  /\ GoTo(o, r, "settling")
  /\ UNCHANGED <<poolVars, detVars, settledOnce, realized, bundle, chainVars, feedVars>>

CollectAndForget(o, r) ==
  /\ tracker[o][r] = "collecting" /\ reply[o][r] # "id"
  /\ reply' = [reply EXCEPT ![o][r] = "none"]
  /\ GoTo(o, r, "done")
  /\ UNCHANGED <<poolVars, detVars, settledOnce, realized, bundle, chainVars, feedVars>>

CollectNothing(o, r) ==
  /\ tracker[o][r] = "collecting" /\ reply[o][r] # "id"
  /\ reply' = [reply EXCEPT ![o][r] = "none"]
  /\ GoTo(o, r, "settling")
  /\ UNCHANGED <<poolVars, detVars, settledOnce, realized, bundle, chainVars, feedVars>>

(* Mutated form: the `err' of a status is not looked at.                    *)
ConfirmOnChain(o, r) ==
  /\ tracker[o][r] = "polling" /\ bundle[o][r] \in {"landed", "failed"}
  /\ realized' = [realized EXCEPT ![o] = @ + 1]
  /\ GoTo(o, r, "settling")
  /\ UNCHANGED <<poolVars, detVars, settledOnce, relayVars, chainVars, feedVars>>

(* Phase 2: a getBundleStatuses poll finds the bundle on chain.  on_landed  *)
(* adds the net profit to the realized P&L; on_settle is next.              *)
ConfirmLanded(o, r) ==
  /\ tracker[o][r] = "polling" /\ bundle[o][r] = "landed"
  /\ realized' = [realized EXCEPT ![o] = @ + 1]
  /\ GoTo(o, r, "settling")
  /\ UNCHANGED <<poolVars, detVars, settledOnce, relayVars, chainVars, feedVars>>

(* ... or it ends without: the bundle failed, the deadline passed, or the   *)
(* RPC failed twice in a row.  The answers may lag behind the chain, so     *)
(* this may happen to a bundle that landed, or that will.                   *)
ConfirmNothing(o, r) ==
  /\ tracker[o][r] = "polling"
  /\ GoTo(o, r, "settling")
  /\ UNCHANGED <<poolVars, detVars, settledOnce, realized, relayVars, chainVars, feedVars>>

(* Mutated form: every tracker of an opportunity releases the nonce.        *)
SettleEach(o, r) ==
  /\ tracker[o][r] = "settling"
  /\ settledOnce' = [settledOnce EXCEPT ![o] = TRUE]
  /\ GoTo(o, r, IF hand[o].nonce # NoNonce THEN "releasing" ELSE "done")
  /\ UNCHANGED <<poolVars, detVars, realized, relayVars, chainVars, feedVars>>

(* on_settle: only the tracker that flips settled_once goes on to           *)
(* mark_settled, in a step of its own.                                      *)
Settle(o, r) ==
  /\ tracker[o][r] = "settling"
  /\ settledOnce' = [settledOnce EXCEPT ![o] = TRUE]
  /\ GoTo(o, r, IF ~settledOnce[o] /\ hand[o].nonce # NoNonce THEN "releasing" ELSE "done")
  /\ UNCHANGED <<poolVars, detVars, realized, relayVars, chainVars, feedVars>>

Release(o, r) ==
  /\ tracker[o][r] = "releasing"
  /\ MarkSettled(hand[o].nonce)
  /\ GoTo(o, r, "done")
  /\ UNCHANGED <<scan, detVars, settledOnce, realized, relayVars, chainVars, feedVars>>

-----------------------------------------------------------------------------
Startup == Bootstrap \/ Subscribe

Detector ==
  \/ Detect \/ CheckoutScan \/ TakeHash
  \/ Reserve \/ (\E r \in Relays : Send(r)) \/ MarkDispatched

Relay(o, r) == RelayRefuses(o, r) \/ RelayAnswers(o, r)

Fate(o, r) == Land(o, r) \/ LandFail(o, r) \/ Expire(o, r)

Tracker(o, r) ==
  \/ CollectId(o, r) \/ CollectNothing(o, r)
  \/ ConfirmLanded(o, r) \/ ConfirmNothing(o, r)
  \/ Settle(o, r) \/ Release(o, r)

Next ==
  \/ Startup
  \/ Detector
  \/ Reconnect
  \/ \E n \in Nonces : Deliver(n) \/ ExternalAdvance(n)
  \/ \E o \in Opps, r \in Relays : Relay(o, r) \/ Fate(o, r) \/ Tracker(o, r)

Spec == Init /\ [][Next]_vars

(* A dispatch once begun is not interrupted; the stream delivers; every     *)
(* wait of a tracker is bounded by a timeout of its own (six seconds for    *)
(* the relay, twelve for the confirmation, the HTTP client's for the RPC).  *)
(* Nothing is assumed of relays, chain or of new opportunities.             *)
Fairness ==
  /\ WF_vars(Startup)
  /\ WF_vars(pc # "idle" /\ Detector)
  /\ \A n \in Nonces : WF_vars(Deliver(n))
  /\ \A o \in Opps, r \in Relays : WF_vars(Tracker(o, r))

FairSpec == Spec /\ Fairness

(***************************************************************************)
(* Properties                                                               *)
(***************************************************************************)

OnChain(o, r) == bundle[o][r] \in {"landed", "failed"}

(* Of all bundles ever sent with the same nonce and hash, whatever relay    *)
(* and whatever opportunity they belong to, at most one enters the chain    *)
(* (the non-equivocation argument of cexdex.rs and nonce.rs).               *)
OneEntryPerHash ==
  \A o, p \in Opps : \A r, q \in Relays :
    /\ OnChain(o, r) /\ OnChain(p, q)
    /\ hand[o] = hand[p] /\ hand[o].nonce # NoNonce
    => o = p /\ r = q

(* The fan-out seen as a ledger: an opportunity is open once it has a       *)
(* number, and what a relay brings on chain for it is its fill.             *)
Filled(o) ==
  IF \E r \in Relays : bundle[o][r] = "landed" THEN "filled"
  ELSE IF \E r \in Relays : bundle[o][r] = "failed" THEN "failed"
  ELSE IF o <= cur THEN "open" ELSE "unopened"

Ledger == INSTANCE FillLedger WITH fill <- [o \in Opps |-> Filled(o)], booked <- realized

(* With nonces, every opportunity is filled at most once and booked at most *)
(* once, after its fill, although each relay has a bundle and a tracker of  *)
(* its own ("at most one bundle can land", cexdex.rs).                      *)
ImplementsLedger == Ledger!LedgerSpec

(* The owner of a nonce: the last opportunity that checked it out.          *)
Owner(n) == pool[n].last_used

(* A nonce marked in flight has somebody who will release it: its owner is  *)
(* still being dispatched, or a tracker of the owner has yet to settle      *)
(* (confirmation.rs: settling on every terminal state prevents leaks).      *)
NonceHasReleaser ==
  \A n \in Nonces : pool[n].in_flight =>
    LET o == Owner(n) IN
      /\ o \in 1..cur /\ hand[o].nonce = n /\ Holds(o)
      /\ \/ o = cur /\ pc \in {"reserve", "send"}
         \/ \E r \in Relays : tracker[o][r] \notin {"none", "done"}

(* A nonce taken when no earlier opportunity still held it stays marked     *)
(* until a tracker of its owner settles: no late settlement of another      *)
(* tracker clears it (the settled_once guard).                              *)
MarkedUntilSettled ==
  \A n \in Nonces :
    LET o == Owner(n) IN
      o # 0 /\ ~settledOnce[o] /\ ~overlap[o] => pool[n].in_flight

BackOnlyByReplay ==
  \A n \in Nonces : pool'[n].cached_hash >= pool[n].cached_hash \/ delivered[n] < pool[n].cached_hash

(* The cached hash of a nonce moves back to an older one only while the     *)
(* stream replays: bootstrap and stream do not overtake each other.         *)
CacheNeverGoesBack == [][BackOnlyByReplay]_vars

(* Every opportunity dispatched is settled by all its trackers, and every   *)
(* nonce taken comes back.                                                  *)
EverythingSettles ==
  /\ \A o \in Opps : (o <= cur) ~> \A r \in Relays : tracker[o][r] = "done"
  /\ \A n \in Nonces : pool[n].in_flight ~> ~pool[n].in_flight

(* A nonce whose cached hash was not overtaken between bootstrap and        *)
(* subscription catches up with the chain.                                  *)
CacheCatchesUp ==
  \A n \in Nonces :
    (subscribed /\ pool[n].cached_hash = delivered[n]) ~> pool[n].cached_hash = chain[n]

(***************************************************************************)
(* The inductive invariant behind the theorems of CexDexFanoutProofs        *)
(***************************************************************************)

(* A checkout that has begun is one the bound on opportunities allows.      *)
CheckoutBounded == pc = "checkout" => cur < MaxOpps

(* Trackers exist for exactly the bundles that were sent.                   *)
Dispatched(o, r) ==
  o <= cur /\ (o = cur => /\ pc # "reserve"
                          /\ pc = "send" => r \notin unsent)

TrackersStarted ==
  \A o \in Opps, r \in Relays :
    /\ tracker[o][r] # "none" <=> Dispatched(o, r)
    /\ bundle[o][r] # "none" <=> Dispatched(o, r)

(* The flag of an opportunity is up once one of its trackers is past it,    *)
(* and never before the opportunity has a number.                           *)
FlagBeforeRelease ==
  \A o \in Opps :
    /\ \A r \in Relays : tracker[o][r] \in {"releasing", "done"} => settledOnce[o]
    /\ settledOnce[o] => o <= cur

(* With nonces, exactly the opportunities that have a number carry one.     *)
HandsGiven ==
  \A o \in Opps : hand[o].nonce # NoNonce <=> (o <= cur /\ NumNonces > 0)

(* last_used is the number of the latest opportunity that took the nonce.   *)
OwnerIsLatest ==
  \A n \in Nonces :
    /\ Owner(n) \in 0..cur
    /\ Owner(n) # 0 => hand[Owner(n)].nonce = n
    /\ \A o \in 1..cur : hand[o].nonce = n => o <= Owner(n)

(* What is on chain has spent its hash.                                     *)
EntrySpendsHash ==
  \A o \in Opps, r \in Relays :
    OnChain(o, r) /\ hand[o].nonce # NoNonce => hand[o].hash < chain[hand[o].nonce]

InFlightHasOwner ==
  \A n \in Nonces : pool[n].in_flight => Owner(n) # 0 /\ Holds(Owner(n))

(* An opportunity that overlapped no other found its nonce finished with.   *)
NoOverlapNoHolder ==
  \A o \in 1..cur : ~overlap[o] /\ hand[o].nonce # NoNonce =>
    \A p \in 1..(o - 1) : hand[p].nonce = hand[o].nonce => ~Holds(p)

(* The profit of an opportunity is booked by the tracker of a landed bundle,*)
(* which is then past polling.                                              *)
BookedByLanding ==
  \A o \in Opps :
    realized[o] # 0 =>
      /\ realized[o] = 1
      /\ \E r \in Relays :
           bundle[o][r] = "landed" /\ tracker[o][r] \in {"settling", "releasing", "done"}

(* Nothing the stream or the bootstrap stored is ahead of the chain, and    *)
(* nothing is stored before its turn comes.                                 *)
CacheBehindChain ==
  /\ \A n \in Nonces : n > booted => pool[n].cached_hash = NoHash
  /\ subscribed => Booted
  /\ \A n \in Nonces :
       /\ pool[n].cached_hash <= chain[n]
       /\ delivered[n] <= chain[n]

=============================================================================
