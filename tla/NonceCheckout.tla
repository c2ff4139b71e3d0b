---------------------------- MODULE NonceCheckout ----------------------------
(***************************************************************************)
(* The nonce pool in its environment: the detector task runs one checkout   *)
(* after another, and between any two entry accesses of it other tasks may  *)
(* settle a nonce or refresh its hash.  The question is what a checkout may *)
(* still promise although it never sees the pool at a single moment.        *)
(***************************************************************************)
EXTENDS NoncePool

CONSTANTS MaxCheckouts, \* bound on the logical clock
          MaxHash       \* bound on the versions of a nonce

ASSUME BoundsAssumption == MaxCheckouts \in Nat /\ MaxHash \in Nat

VARIABLES clock,        \* number of checkouts that took a nonce
          touched       \* history: nonces written by another task since this checkout began

checkoutVars == <<pool, scan, clock, touched>>

CheckoutInit ==
  /\ PoolInit
  /\ clock = 0
  /\ touched = {}

CheckoutTypeOK ==
  /\ PoolTypeOK
  /\ clock \in 0..MaxCheckouts
  /\ touched \subseteq Nonces

Scan ==
  /\ ScanEntry
  /\ UNCHANGED <<clock, touched>>

Take ==
  /\ clock < MaxCheckouts
  /\ TakeWinner(clock + 1)
  /\ clock' = clock + 1
  /\ touched' = {}

GiveUp ==
  /\ NoWinner
  /\ touched' = {}
  /\ UNCHANGED clock

(* A confirmation tracker settles n.                                        *)
SettleNonce(n) ==
  /\ pool[n].in_flight
  /\ MarkSettled(n)
  /\ touched' = touched \cup {n}
  /\ UNCHANGED <<scan, clock>>

(* The bootstrap or the Geyser task stores a newer hash of n.               *)
Refresh(n) ==
  /\ pool[n].cached_hash < MaxHash
  /\ UpdateCachedHash(n, pool[n].cached_hash + 1)
  /\ touched' = touched \cup {n}
  /\ UNCHANGED <<scan, clock>>

CheckoutNext ==
  \/ Scan
  \/ Take
  \/ GiveUp
  \/ \E n \in Nonces : SettleNonce(n) \/ Refresh(n)

CheckoutSpec == CheckoutInit /\ [][CheckoutNext]_checkoutVars

(***************************************************************************)
(* Properties                                                               *)
(***************************************************************************)

(* No nonce that stayed as it was since the checkout began, that has a hash *)
(* and that the loop has passed, beats the best candidate: a checkout never *)
(* collides with a nonce in flight while a usable one stood free all along, *)
(* never skips an older one, and comes back empty-handed only if there is   *)
(* no such nonce (the policy stated above NoncePool::checkout).             *)
WinnerIsBest ==
  \A n \in Nonces \ touched :
    n < scan.cursor /\ pool[n].cached_hash # NoHash =>
      /\ scan.best.nonce # NoNonce
      /\ scan.best.in_flight => pool[n].in_flight
      /\ scan.best.in_flight = pool[n].in_flight =>
           \/ scan.best.last_used < pool[n].last_used
           \/ scan.best.last_used = pool[n].last_used /\ scan.best.nonce <= n

(* Round robin: the nonce a checkout takes was used no later than any other *)
(* nonce that had a hash and stood free and unchanged during that checkout. *)
RoundRobin ==
  [][\A m, n \in Nonces :
       /\ pool'[n].last_used # pool[n].last_used
       /\ m \notin touched
       /\ pool[m].cached_hash # NoHash
       /\ ~pool[m].in_flight
       => pool[n].last_used <= pool[m].last_used]_checkoutVars

=============================================================================
