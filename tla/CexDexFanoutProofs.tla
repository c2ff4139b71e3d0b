-------------------------- MODULE CexDexFanoutProofs --------------------------
(***************************************************************************)
(* Theorems about the nonce pool under interference (NonceCheckout) and     *)
(* about the whole fan-out (CexDexFanout), which share the pool and what is *)
(* proved of its operations: for any number of nonces, relays,              *)
(* opportunities and foreign nonce advances.  TLC has checked every formula *)
(* proved here on the instances of the runs.                                *)
(***************************************************************************)
EXTENDS CexDexFanout, NonceCheckout, TLAPS

USE NumNoncesAssumption, BoundsAssumption, FanoutAssumption

-----------------------------------------------------------------------------
(* The operations of the pool keep it well typed.                           *)

(* A fresh scan is well typed.                                              *)
LEMMA FreshScanType ==
  /\ FreshScan \in [cursor : 1..(NumNonces + 1), best : Candidate]
  /\ FreshScan.best.nonce = NoNonce
  BY DEF FreshScan, NoBest, Candidate, NoNonce, NoHash

(* NoncePool::new builds a well-typed pool.                                 *)
LEMMA PoolInitType == PoolInit => PoolTypeOK
<1> SUFFICES ASSUME PoolInit PROVE PoolTypeOK
  OBVIOUS
<1>1. pool \in [Nonces -> NonceState]
  BY DEF PoolInit, NonceState, NoHash
<1> QED
  BY <1>1, FreshScanType DEF PoolInit, PoolTypeOK

(* update_cached_hash writes one field of one nonce.                        *)
LEMMA UpdateCachedHashType ==
  ASSUME PoolTypeOK, NEW n \in Nonces, NEW h \in Nat, UpdateCachedHash(n, h), scan' = scan
  PROVE  PoolTypeOK'
<1>1. [pool[n] EXCEPT !.cached_hash = h] \in NonceState
  BY DEF PoolTypeOK, NonceState
<1>2. pool' \in [Nonces -> NonceState]
  BY <1>1 DEF UpdateCachedHash, PoolTypeOK
<1> QED
  BY <1>2 DEF PoolTypeOK

(* mark_settled writes one field of one nonce.                              *)
LEMMA MarkSettledType ==
  ASSUME PoolTypeOK, NEW n \in Nonces, MarkSettled(n), scan' = scan
  PROVE  PoolTypeOK'
<1>1. [pool[n] EXCEPT !.in_flight = FALSE] \in NonceState
  BY DEF PoolTypeOK, NonceState
<1>2. pool' \in [Nonces -> NonceState]
  BY <1>1 DEF MarkSettled, PoolTypeOK
<1> QED
  BY <1>2 DEF PoolTypeOK

(* One iteration of the loop of checkout keeps a well-typed candidate.      *)
LEMMA ScanEntryType ==
  ASSUME PoolTypeOK, ScanEntry
  PROVE  PoolTypeOK'
<1> DEFINE c == Read(scan.cursor)
<1>1. scan.cursor \in Nonces /\ scan.cursor + 1 \in 1..(NumNonces + 1)
  BY DEF ScanEntry, Nonces
<1>2. c \in Candidate /\ c.nonce = scan.cursor
  BY <1>1 DEF Read, Candidate, PoolTypeOK, NonceState
<1>3. c.hash # NoHash => c.hash \in Nat
  BY <1>2 DEF Candidate
<1>4. \/ scan' = [cursor |-> scan.cursor + 1, best |-> scan.best]
      \/ /\ scan' = [cursor |-> scan.cursor + 1, best |-> c]
         /\ c.hash # NoHash
  BY DEF ScanEntry
<1>5. scan' \in [cursor : 1..(NumNonces + 1), best : Candidate]
  <2>1. scan.best \in Candidate
    BY DEF PoolTypeOK
  <2> HIDE DEF c
  <2> QED
    BY <1>1, <1>2, <1>4, <2>1
<1>6. scan'.best.nonce # NoNonce => scan'.best.hash \in Nat
  BY <1>3, <1>4 DEF PoolTypeOK
<1> QED
  BY <1>5, <1>6 DEF PoolTypeOK, ScanEntry

(* The second half of checkout hands out a nonce of the pool with a hash.   *)
LEMMA TakeWinnerType ==
  ASSUME PoolTypeOK, NEW now \in Nat, TakeWinner(now)
  PROVE  /\ PoolTypeOK'
         /\ scan.best.nonce \in Nonces
         /\ scan.best.hash \in Nat
<1>1. scan.best.nonce \in Nonces /\ scan.best.hash \in Nat
  BY DEF TakeWinner, PoolTypeOK, Candidate
<1>2. pool[scan.best.nonce] \in NonceState
  BY <1>1 DEF PoolTypeOK
<1>3. [pool[scan.best.nonce] EXCEPT !.last_used = now, !.in_flight = TRUE] \in NonceState
  BY <1>2 DEF NonceState
<1>4. pool' = [pool EXCEPT ![scan.best.nonce] = [@ EXCEPT !.last_used = now, !.in_flight = TRUE]]
  BY <1>1 DEF TakeWinner, PoolTypeOK
<1>5. pool' \in [Nonces -> NonceState]
  BY <1>3, <1>4 DEF PoolTypeOK
<1>6. scan' = FreshScan
  BY DEF TakeWinner
<1> QED
  BY <1>1, <1>5, <1>6, FreshScanType DEF PoolTypeOK

(* A checkout that finds nothing leaves the pool alone.                     *)
LEMMA NoWinnerType ==
  ASSUME PoolTypeOK, NoWinner
  PROVE  PoolTypeOK'
  BY FreshScanType DEF NoWinner, PoolTypeOK

-----------------------------------------------------------------------------
(* The selection policy: the scan of checkout is not atomic, and still the  *)
(* winner is the best of the nonces nobody touched meanwhile.               *)

(* The initial state is well typed.                                         *)
LEMMA CheckoutInitType == CheckoutInit => CheckoutTypeOK
  BY PoolInitType DEF CheckoutInit, CheckoutTypeOK

(* Every step keeps the types.                                              *)
LEMMA CheckoutNextType == CheckoutTypeOK /\ [CheckoutNext]_checkoutVars => CheckoutTypeOK'
<1> SUFFICES ASSUME CheckoutTypeOK, [CheckoutNext]_checkoutVars PROVE CheckoutTypeOK'
  OBVIOUS
<1>t. PoolTypeOK /\ clock \in 0..MaxCheckouts /\ touched \subseteq Nonces
  BY DEF CheckoutTypeOK
<1>1. CASE Scan
  BY <1>1, <1>t, ScanEntryType DEF Scan, CheckoutTypeOK
<1>2. CASE Take
  <2>1. clock + 1 \in Nat /\ TakeWinner(clock + 1)
    BY <1>2, <1>t DEF Take
  <2>2. PoolTypeOK'
    BY <2>1, <1>t, TakeWinnerType
  <2> QED
    BY <1>2, <2>2, <1>t DEF Take, CheckoutTypeOK
<1>3. CASE GiveUp
  BY <1>3, <1>t, NoWinnerType DEF GiveUp, CheckoutTypeOK
<1>4. ASSUME NEW n \in Nonces, SettleNonce(n) PROVE CheckoutTypeOK'
  BY <1>4, <1>t, MarkSettledType DEF SettleNonce, CheckoutTypeOK
<1>5. ASSUME NEW n \in Nonces, Refresh(n) PROVE CheckoutTypeOK'
  <2>1. pool[n].cached_hash + 1 \in Nat
    BY <1>t DEF PoolTypeOK, NonceState, NoHash
  <2>2. UpdateCachedHash(n, pool[n].cached_hash + 1) /\ scan' = scan
    BY <1>5 DEF Refresh
  <2>3. PoolTypeOK'
    BY <2>1, <2>2, <1>t, UpdateCachedHashType
  <2> QED
    BY <1>5, <2>3, <1>t DEF Refresh, CheckoutTypeOK
<1>6. CASE UNCHANGED checkoutVars
  BY <1>6, <1>t DEF checkoutVars, CheckoutTypeOK, PoolTypeOK
<1> QED
  BY <1>1, <1>2, <1>3, <1>4, <1>5, <1>6 DEF CheckoutNext

-----------------------------------------------------------------------------
(* n does not beat candidate b.                                             *)
Yields(n, b) ==
  /\ b.nonce # NoNonce
  /\ b.in_flight => pool[n].in_flight
  /\ b.in_flight = pool[n].in_flight =>
       \/ b.last_used < pool[n].last_used
       \/ b.last_used = pool[n].last_used /\ b.nonce <= n

(* A candidate that is not preferred yields to the best so far, and what    *)
(* yielded to the best so far yields to a candidate preferred to it.        *)
LEMMA RejectedYields ==
  ASSUME PoolTypeOK, NEW n \in Nonces, NEW b \in Candidate, b.nonce # NoNonce,
         ~Preferred(Read(n), b)
  PROVE  Yields(n, b)
<1>1. /\ Read(n).in_flight = pool[n].in_flight
      /\ Read(n).last_used = pool[n].last_used
      /\ Read(n).nonce = n
      /\ pool[n].in_flight \in BOOLEAN
      /\ pool[n].last_used \in Nat
  BY DEF Read, PoolTypeOK, NonceState
<1>2. b.last_used \in Nat /\ b.nonce \in Int /\ b.in_flight \in BOOLEAN /\ n \in Int
  BY DEF Candidate, Nonces, NoNonce
<1> QED
  BY <1>1, <1>2 DEF Preferred, Yields

(* A better best so far leaves every rejected nonce rejected.               *)
LEMMA YieldsTransitive ==
  ASSUME PoolTypeOK, NEW n \in Nonces, NEW b \in Candidate, NEW m \in Nonces,
         Yields(n, b), Preferred(Read(m), b)
  PROVE  Yields(n, Read(m))
<1>1. /\ Read(m).nonce = m
      /\ Read(m).in_flight \in BOOLEAN
      /\ Read(m).last_used \in Nat
      /\ pool[n].in_flight \in BOOLEAN
      /\ pool[n].last_used \in Nat
  BY DEF Read, PoolTypeOK, NonceState
<1>2. b.last_used \in Nat /\ b.nonce \in Int /\ b.in_flight \in BOOLEAN /\ n \in Int /\ m \in Int /\ m # NoNonce
  BY DEF Candidate, Nonces, NoNonce
<1> QED
  BY <1>1, <1>2 DEF Preferred, Yields

(* A candidate just read does not beat its own nonce.                       *)
LEMMA YieldsToItself ==
  ASSUME PoolTypeOK, NEW n \in Nonces
  PROVE  Yields(n, Read(n))
  BY DEF Yields, Read, PoolTypeOK, NonceState, Nonces, NoNonce

(* The age of the best candidate is still the age of its nonce: nobody but  *)
(* checkout writes last_used.                                               *)
BestAge == scan.best.nonce # NoNonce => scan.best.last_used = pool[scan.best.nonce].last_used

SelectionInv == CheckoutTypeOK /\ WinnerIsBest /\ BestAge

(* A checkout that has read nothing owes nothing.                           *)
LEMMA InitSelectionInv == CheckoutInit => SelectionInv
<1> SUFFICES ASSUME CheckoutInit PROVE SelectionInv
  OBVIOUS
<1>1. scan.cursor = 1 /\ scan.best.nonce = NoNonce
  BY DEF CheckoutInit, PoolInit, FreshScan, NoBest
<1> QED
  BY <1>1, CheckoutInitType DEF SelectionInv, WinnerIsBest, BestAge, Nonces

(* Reading an entry, and what other tasks do meanwhile, keep the policy.    *)
LEMMA NextSelectionInv == SelectionInv /\ [CheckoutNext]_checkoutVars => SelectionInv'
<1> SUFFICES ASSUME SelectionInv, [CheckoutNext]_checkoutVars PROVE SelectionInv'
  OBVIOUS
<1>t. /\ CheckoutTypeOK /\ PoolTypeOK
      /\ pool \in [Nonces -> NonceState]
      /\ scan.cursor \in Nat
      /\ scan.best \in Candidate
      /\ NoNonce \notin Nonces
  BY DEF SelectionInv, CheckoutTypeOK, PoolTypeOK, Nonces, NoNonce
<1>w. /\ \A n \in Nonces \ touched :
           n < scan.cursor /\ pool[n].cached_hash # NoHash => Yields(n, scan.best)
      /\ BestAge
  BY DEF SelectionInv, WinnerIsBest, Yields
<1> DEFINE Goal == WinnerIsBest' /\ BestAge'
<1> SUFFICES Goal
  BY <1>t, CheckoutNextType DEF SelectionInv
<1>1. CASE Scan
  <2> DEFINE c == Read(scan.cursor)
  <2>1. /\ scan.cursor \in Nonces
        /\ c.hash = pool[scan.cursor].cached_hash
        /\ c.nonce = scan.cursor
        /\ c.last_used = pool[scan.cursor].last_used
        /\ UNCHANGED <<pool, touched>>
    BY <1>1 DEF Scan, ScanEntry, Read
  <2>2. scan'.cursor = scan.cursor + 1
    BY <1>1 DEF Scan, ScanEntry
  <2>3. \/ /\ scan'.best = c
           /\ scan.best.nonce = NoNonce \/ Preferred(c, scan.best)
        \/ /\ scan'.best = scan.best
           /\ c.hash = NoHash \/ (scan.best.nonce # NoNonce /\ ~Preferred(c, scan.best))
    BY <1>1 DEF Scan, ScanEntry
  <2>4. ASSUME NEW n \in Nonces, n \notin touched, n < scan'.cursor, pool[n].cached_hash # NoHash
        PROVE  Yields(n, scan'.best)
    <3>1. n < scan.cursor \/ n = scan.cursor
      BY <2>2, <2>4, <1>t DEF Nonces
    <3>2. CASE n = scan.cursor
      <4>1. CASE scan'.best = c
        BY <3>2, <4>1, <1>t, YieldsToItself
      <4>2. CASE scan'.best = scan.best /\ scan.best.nonce # NoNonce /\ ~Preferred(c, scan.best)
        BY <3>2, <4>2, <1>t, RejectedYields
      <4> QED
        BY <3>2, <2>1, <2>3, <2>4, <4>1, <4>2
    <3>3. CASE n < scan.cursor
      <4>1. Yields(n, scan.best)
        BY <3>3, <2>4, <1>w
      <4>2. scan.best.nonce # NoNonce
        BY <4>1 DEF Yields
      <4>3. CASE scan'.best = c /\ Preferred(c, scan.best)
        BY <4>1, <4>3, <2>1, <1>t, YieldsTransitive
      <4> QED
        BY <4>1, <4>2, <4>3, <2>3
    <3> QED
      BY <3>1, <3>2, <3>3
  <2>5. WinnerIsBest'
    BY <2>1, <2>4 DEF WinnerIsBest, Yields
  <2>6. BestAge'
    BY <2>1, <2>3, <1>w DEF BestAge
  <2> QED
    BY <2>5, <2>6
<1>2. CASE Take \/ GiveUp
  <2>1. scan'.cursor = 1 /\ scan'.best.nonce = NoNonce
    BY <1>2 DEF Take, TakeWinner, GiveUp, NoWinner, FreshScan, NoBest
  <2> QED
    BY <2>1 DEF WinnerIsBest, BestAge, Nonces
<1>3. ASSUME NEW n \in Nonces, SettleNonce(n) \/ Refresh(n) PROVE Goal
  <2>1. /\ scan' = scan
        /\ touched' = touched \cup {n}
        /\ \A m \in Nonces : m # n => pool'[m] = pool[m]
        /\ \A m \in Nonces : pool'[m].last_used = pool[m].last_used
    BY <1>3, <1>t DEF SettleNonce, Refresh, MarkSettled, UpdateCachedHash, NonceState
  <2>2. WinnerIsBest'
    BY <2>1, <1>w DEF WinnerIsBest, Yields
  <2>3. scan.best.nonce # NoNonce => scan.best.nonce \in Nonces
    BY <1>t DEF Candidate
  <2>4. BestAge'
    BY <2>1, <2>3, <1>w DEF BestAge
  <2> QED
    BY <2>2, <2>4
<1>4. CASE UNCHANGED checkoutVars
  BY <1>4, <1>w DEF checkoutVars, WinnerIsBest, BestAge, Yields
<1> QED
  BY <1>1, <1>2, <1>3, <1>4 DEF CheckoutNext

(* The best candidate of a scan yields to no nonce that was left alone.     *)
THEOREM SelectionPolicy == CheckoutSpec => []WinnerIsBest
<1>1. SelectionInv => WinnerIsBest
  BY DEF SelectionInv
<1> QED
  BY InitSelectionInv, NextSelectionInv, <1>1, PTL DEF CheckoutSpec

(* The nonces are taken in turn.                                            *)
THEOREM TakenInTurn == CheckoutSpec => RoundRobin
<1> DEFINE Step == \A m, n \in Nonces :
                     /\ pool'[n].last_used # pool[n].last_used
                     /\ m \notin touched
                     /\ pool[m].cached_hash # NoHash
                     /\ ~pool[m].in_flight
                     => pool[n].last_used <= pool[m].last_used
<1>1. SelectionInv /\ [CheckoutNext]_checkoutVars => [Step]_checkoutVars
  <2> SUFFICES ASSUME SelectionInv, CheckoutNext, NEW m \in Nonces, NEW n \in Nonces,
                      pool'[n].last_used # pool[n].last_used, m \notin touched,
                      pool[m].cached_hash # NoHash, ~pool[m].in_flight
               PROVE  pool[n].last_used <= pool[m].last_used
    OBVIOUS
  <2>t. /\ pool \in [Nonces -> NonceState]
        /\ scan.best \in Candidate
        /\ BestAge
    BY DEF SelectionInv, CheckoutTypeOK, PoolTypeOK
  <2>1. Take
    <3>1. ASSUME NEW k \in Nonces, SettleNonce(k) \/ Refresh(k) PROVE pool'[n].last_used = pool[n].last_used
      BY <3>1, <2>t DEF SettleNonce, Refresh, MarkSettled, UpdateCachedHash, NonceState
    <3>2. CASE Scan \/ GiveUp
      BY <3>2 DEF Scan, ScanEntry, GiveUp, NoWinner
    <3> QED
      BY <3>1, <3>2 DEF CheckoutNext
  <2>2. /\ scan.cursor = NumNonces + 1
        /\ scan.best.nonce = n
    BY <2>1, <2>t DEF Take, TakeWinner, ScanDone, NonceState
  <2>3. m < scan.cursor
    BY <2>2 DEF Nonces
  <2>4. Yields(m, scan.best)
    BY <2>3 DEF SelectionInv, WinnerIsBest, Yields
  <2>5. /\ pool[m].in_flight = FALSE
        /\ scan.best.in_flight = FALSE
    BY <2>4, <2>t DEF Yields, Candidate, NonceState
  <2>6. scan.best.last_used <= pool[m].last_used
    BY <2>4, <2>5, <2>t DEF Yields, NonceState, Candidate
  <2>7. scan.best.last_used = pool[n].last_used
    BY <2>2, <2>t DEF BestAge, NoNonce, Nonces
  <2> QED
    BY <2>6, <2>7
<1> QED
  BY InitSelectionInv, NextSelectionInv, <1>1, PTL DEF CheckoutSpec, RoundRobin

-----------------------------------------------------------------------------
(* Type correctness                                                         *)

TypeInv == TypeOK /\ CheckoutBounded

(* The initial state is well typed.                                         *)
LEMMA InitTypeInv == Init => TypeInv
<1> SUFFICES ASSUME Init PROVE TypeInv
  OBVIOUS
<1>1. PoolTypeOK
  BY PoolInitType DEF Init
<1>2. hand \in [Opps -> [nonce : Nonces \cup {NoNonce}, hash : Nat \cup {NoHash}]]
  BY DEF Init
<1>3. bundle \in [Opps -> [Relays -> BundleStates]]
  BY DEF Init, BundleStates
<1>4. reply \in [Opps -> [Relays -> Replies]]
  BY DEF Init, Replies
<1>5. tracker \in [Opps -> [Relays -> TrackStates]]
  BY DEF Init, TrackStates
<1>6. /\ booted \in 0..NumNonces
      /\ cur \in 0..MaxOpps
      /\ reserved \in Nat
      /\ replays \in 0..MaxReplays
      /\ advances \in 0..MaxAdvances
      /\ pc \in Phases
  BY DEF Init, Phases
<1>7. /\ realized \in [Opps -> Nat]
      /\ chain \in [Nonces -> Nat]
      /\ delivered \in [Nonces -> Nat]
  BY DEF Init
<1>8. /\ overlap \in [Opps -> BOOLEAN]
      /\ settledOnce \in [Opps -> BOOLEAN]
      /\ subscribed \in BOOLEAN
      /\ unsent \subseteq Relays
  BY DEF Init
<1>9. CheckoutBounded
  BY DEF Init, CheckoutBounded
<1> QED
  BY <1>1, <1>2, <1>3, <1>4, <1>5, <1>6, <1>7, <1>8, <1>9 DEF TypeInv, TypeOK

(* Every step keeps the pool well typed.                                    *)
LEMMA NextPoolType == TypeInv /\ [Next]_vars => PoolTypeOK'
<1> SUFFICES ASSUME TypeInv, [Next]_vars PROVE PoolTypeOK'
  OBVIOUS
<1> USE DEF TypeInv, TypeOK
<1>1. CASE Bootstrap
  <2>1. PICK v \in 0..chain[booted + 1] : UpdateCachedHash(booted + 1, v)
    BY <1>1 DEF Bootstrap
  <2>2. booted + 1 \in Nonces /\ v \in Nat
    BY <1>1, <2>1 DEF Bootstrap, Nonces
  <2> QED
    BY <1>1, <2>1, <2>2, UpdateCachedHashType DEF Bootstrap
<1>2. ASSUME NEW n \in Nonces, Deliver(n) PROVE PoolTypeOK'
  BY <1>2, UpdateCachedHashType DEF Deliver
<1>3. CASE CheckoutScan
  BY <1>3, ScanEntryType DEF CheckoutScan
<1>4. CASE CheckoutTake
  BY <1>4, TakeWinnerType DEF CheckoutTake
<1>5. ASSUME NEW o \in Opps, NEW r \in Relays, Release(o, r) PROVE PoolTypeOK'
  <2>1. CASE hand[o].nonce \in Nonces
    BY <1>5, <2>1, MarkSettledType DEF Release
  <2>2. CASE hand[o].nonce \notin Nonces
    BY <1>5, <2>2 DEF Release, MarkSettled, PoolTypeOK
  <2> QED
    BY <2>1, <2>2
<1>6. CASE UNCHANGED poolVars
  BY <1>6 DEF poolVars, PoolTypeOK
<1>7. \/ Bootstrap \/ CheckoutScan \/ CheckoutTake
      \/ \E n \in Nonces : Deliver(n)
      \/ \E o \in Opps, r \in Relays : Release(o, r)
      \/ UNCHANGED poolVars
  <2>1. CASE Startup
    BY <2>1 DEF Startup, Subscribe
  <2>2. CASE Detector
    BY <2>2 DEF Detector, TakeHash, Detect, TakeBlockhash, Reserve, Send, MarkDispatched
  <2>3. CASE \E n \in Nonces : ExternalAdvance(n)
    BY <2>3 DEF ExternalAdvance
  <2>4. CASE \E o \in Opps, r \in Relays : Relay(o, r) \/ Fate(o, r)
    BY <2>4 DEF Relay, RelayRefuses, RelayAnswers, Fate, Land, LandFail, Expire, Enter
  <2>5. CASE \E o \in Opps, r \in Relays : Tracker(o, r)
    BY <2>5 DEF Tracker, CollectId, CollectNothing, ConfirmLanded, ConfirmNothing, Settle
  <2>6. CASE Reconnect
    BY <2>6 DEF Reconnect
  <2>7. CASE UNCHANGED vars
    BY <2>7 DEF vars
  <2> QED
    BY <2>1, <2>2, <2>3, <2>4, <2>5, <2>6, <2>7 DEF Next
<1> QED
  BY <1>1, <1>2, <1>3, <1>4, <1>5, <1>6, <1>7

(* Every step keeps all variables well typed.                               *)
LEMMA NextTypeInv == TypeInv /\ [Next]_vars => TypeInv'
<1> SUFFICES ASSUME TypeInv, [Next]_vars PROVE TypeInv'
  OBVIOUS
<1>0. PoolTypeOK'
  BY NextPoolType
<1> USE <1>0 DEF TypeInv, TypeOK, CheckoutBounded
<1>1. CASE Bootstrap
  BY <1>1 DEF Bootstrap, trackVars, relayVars, chainVars, feedVars
<1>2. CASE Subscribe
  BY <1>2 DEF Subscribe, detVars, trackVars, relayVars, chainVars
<1>3. ASSUME NEW n \in Nonces, Deliver(n) PROVE TypeInv'
  BY <1>3 DEF Deliver, detVars, trackVars, relayVars, chainVars
<1>4. ASSUME NEW n \in Nonces, ExternalAdvance(n) PROVE TypeInv'
  BY <1>4 DEF ExternalAdvance, detVars, trackVars, relayVars, feedVars
<1>5. CASE Detect
  BY <1>5 DEF Detect, Phases, trackVars, relayVars, chainVars, feedVars
<1>6. CASE CheckoutScan
  BY <1>6 DEF CheckoutScan, detVars, trackVars, relayVars, chainVars, feedVars
<1>7. CASE CheckoutTake
  <2>0. TakeWinner(cur + 1) /\ cur + 1 \in Nat
    BY <1>7 DEF CheckoutTake
  <2>1. scan.best.nonce \in Nonces /\ scan.best.hash \in Nat
    BY <2>0, TakeWinnerType
  <2>2. cur' \in 0..MaxOpps
    BY <1>7 DEF CheckoutTake
  <2>3. hand' \in [Opps -> [nonce : Nonces \cup {NoNonce}, hash : Nat \cup {NoHash}]]
    BY <1>7, <2>1 DEF CheckoutTake
  <2>4. overlap' \in [Opps -> BOOLEAN]
    BY <1>7 DEF CheckoutTake
  <2> QED
    BY <1>7, <2>2, <2>3, <2>4 DEF CheckoutTake, Phases, trackVars, relayVars, chainVars, feedVars
<1>8. CASE TakeBlockhash
  BY <1>8 DEF TakeBlockhash, Phases, trackVars, relayVars, chainVars, feedVars
<1>9. CASE Reserve
  BY <1>9 DEF Reserve, Phases, trackVars, relayVars, chainVars, feedVars
<1>10. ASSUME NEW r \in Relays, Send(r) PROVE TypeInv'
  BY <1>10 DEF Send, BundleStates, TrackStates, chainVars, feedVars
<1>11. CASE MarkDispatched
  BY <1>11 DEF MarkDispatched, Phases, trackVars, relayVars, chainVars, feedVars
<1>12. ASSUME NEW o \in Opps, NEW r \in Relays, Relay(o, r) PROVE TypeInv'
  <2>1. ASSUME NEW a \in {"id", "noid"}, Answer(o, r, a) PROVE reply' \in [Opps -> [Relays -> Replies]]
    BY <2>1 DEF Answer, Replies
  <2>2. CASE RelayRefuses(o, r)
    BY <2>1, <2>2 DEF RelayRefuses, BundleStates, detVars, trackVars, chainVars, feedVars
  <2>3. CASE RelayAnswers(o, r)
    BY <2>1, <2>3 DEF RelayAnswers, detVars, trackVars, chainVars, feedVars
  <2> QED
    BY <1>12, <2>2, <2>3 DEF Relay
<1>13. ASSUME NEW o \in Opps, NEW r \in Relays, Fate(o, r) PROVE TypeInv'
  <2>1. CASE Expire(o, r)
    BY <2>1 DEF Expire, BundleStates, detVars, trackVars, chainVars, feedVars
  <2>2. ASSUME NEW outcome \in {"landed", "failed"}, Enter(o, r, outcome) PROVE TypeInv'
    BY <2>2 DEF Enter, BundleStates, detVars, trackVars, feedVars
  <2> QED
    BY <1>13, <2>1, <2>2 DEF Fate, Land, LandFail
<1>14. ASSUME NEW o \in Opps, NEW r \in Relays, Tracker(o, r) PROVE TypeInv'
  <2>1. ASSUME NEW state \in TrackStates, GoTo(o, r, state)
        PROVE  tracker' \in [Opps -> [Relays -> TrackStates]]
    BY <2>1 DEF GoTo
  <2>2. /\ "polling" \in TrackStates /\ "settling" \in TrackStates
        /\ "releasing" \in TrackStates /\ "done" \in TrackStates
    BY DEF TrackStates
  <2>3. CASE CollectId(o, r) \/ CollectNothing(o, r)
    <3>1. tracker' \in [Opps -> [Relays -> TrackStates]]
      BY <2>1, <2>2, <2>3 DEF CollectId, CollectNothing
    <3>2. reply' \in [Opps -> [Relays -> Replies]]
      <4>1. reply' = [reply EXCEPT ![o][r] = "none"]
        BY <2>3 DEF CollectId, CollectNothing
      <4>2. "none" \in Replies
        BY DEF Replies
      <4> QED
        BY <4>1, <4>2
    <3> QED
      BY <2>3, <3>1, <3>2 DEF CollectId, CollectNothing, detVars, chainVars, feedVars
  <2>4. CASE ConfirmLanded(o, r)
    BY <2>1, <2>2, <2>4 DEF ConfirmLanded, detVars, relayVars, chainVars, feedVars
  <2>5. CASE ConfirmNothing(o, r)
    BY <2>1, <2>2, <2>5 DEF ConfirmNothing, detVars, relayVars, chainVars, feedVars
  <2>6. CASE Settle(o, r)
    BY <2>1, <2>2, <2>6 DEF Settle, detVars, relayVars, chainVars, feedVars
  <2>7. CASE Release(o, r)
    BY <2>1, <2>2, <2>7 DEF Release, detVars, relayVars, chainVars, feedVars
  <2> QED
    BY <1>14, <2>3, <2>4, <2>5, <2>6, <2>7 DEF Tracker
<1>15. CASE UNCHANGED vars
  BY <1>15 DEF vars, detVars, trackVars, relayVars, chainVars, feedVars
<1>16. CASE Reconnect
  <2>1. MaxVersion \in Nat
    BY DEF MaxVersion
  <2>2. delivered' \in [Nonces -> Nat]
    BY <1>16, <2>1 DEF Reconnect
  <2> QED
    BY <1>16, <2>2 DEF Reconnect, detVars, trackVars, relayVars, chainVars
<1> QED
  BY <1>1, <1>2, <1>3, <1>4, <1>5, <1>6, <1>7, <1>8, <1>9, <1>10, <1>11, <1>12, <1>13,
     <1>14, <1>15, <1>16 DEF Next, Startup, Detector, TakeHash

(* The variables keep their types in every behaviour.                       *)
THEOREM TypeCorrect == Spec => []TypeOK
<1>1. TypeInv => TypeOK
  BY DEF TypeInv
<1> QED
  BY InitTypeInv, NextTypeInv, <1>1, PTL DEF Spec

-----------------------------------------------------------------------------
(* What is sent                                                             *)

(* No bundle and no tracker exists at the start.                            *)
LEMMA InitTrackersStarted == Init => TrackersStarted
<1> SUFFICES ASSUME Init, NEW o \in Opps, NEW r \in Relays
             PROVE  tracker[o][r] = "none" /\ bundle[o][r] = "none" /\ ~Dispatched(o, r)
  BY DEF TrackersStarted
<1> QED
  BY DEF Init, Dispatched, Opps

(* Send is the only step that starts a bundle, and starts its tracker too.  *)
LEMMA NextTrackersStarted ==
  TypeInv /\ TrackersStarted /\ [Next]_vars => TrackersStarted'
<1> SUFFICES ASSUME TypeInv, TrackersStarted, [Next]_vars,
                    NEW o \in Opps, NEW r \in Relays
             PROVE  /\ (tracker[o][r] # "none" <=> Dispatched(o, r))'
                    /\ (bundle[o][r] # "none" <=> Dispatched(o, r))'
  BY DEF TrackersStarted
<1> DEFINE Goal == /\ (tracker[o][r] # "none" <=> Dispatched(o, r))'
                   /\ (bundle[o][r] # "none" <=> Dispatched(o, r))'
<1>a. /\ tracker[o][r] # "none" <=> Dispatched(o, r)
      /\ bundle[o][r] # "none" <=> Dispatched(o, r)
  BY DEF TrackersStarted
<1>b. /\ o \in Nat
      /\ cur \in Nat
      /\ bundle \in [Opps -> [Relays -> BundleStates]]
      /\ tracker \in [Opps -> [Relays -> TrackStates]]
  BY DEF TypeInv, TypeOK, Opps
<1>1. CASE UNCHANGED <<cur, pc, unsent, tracker, bundle>>
  BY <1>1, <1>a DEF Dispatched
<1>2. CASE Detect
  BY <1>2, <1>a DEF Detect, Dispatched, trackVars, relayVars
<1>3. CASE CheckoutTake \/ TakeBlockhash
  BY <1>3, <1>a, <1>b DEF CheckoutTake, TakeBlockhash, Dispatched, trackVars, relayVars
<1>4. CASE Reserve
  BY <1>4, <1>a DEF Reserve, Dispatched, trackVars, relayVars
<1>5. ASSUME NEW q \in Relays, Send(q) PROVE Goal
  BY <1>5, <1>a, <1>b DEF Send, Dispatched
<1>6. CASE MarkDispatched
  BY <1>6, <1>a DEF MarkDispatched, Dispatched, trackVars, relayVars
<1>7. ASSUME NEW p \in Opps, NEW q \in Relays, RelayRefuses(p, q) \/ Expire(p, q) PROVE Goal
  BY <1>7, <1>a, <1>b DEF RelayRefuses, Expire, Dispatched, detVars, trackVars
<1>8. ASSUME NEW p \in Opps, NEW q \in Relays, NEW x \in {"landed", "failed"}, Enter(p, q, x) PROVE Goal
  BY <1>8, <1>a, <1>b DEF Enter, Dispatched, detVars, trackVars
<1>9. ASSUME NEW p \in Opps, NEW q \in Relays, Tracker(p, q) PROVE Goal
  <2>1. PICK x \in TrackStates \ {"none"} : GoTo(p, q, x)
    BY <1>9 DEF Tracker, CollectId, CollectNothing, ConfirmLanded, ConfirmNothing, Settle, Release, TrackStates
  <2>2. tracker[p][q] # "none"
    BY <1>9 DEF Tracker, CollectId, CollectNothing, ConfirmLanded, ConfirmNothing, Settle, Release
  <2>3. UNCHANGED <<cur, pc, unsent, bundle>>
    BY <1>9 DEF Tracker, CollectId, CollectNothing, ConfirmLanded, ConfirmNothing, Settle, Release,
                detVars, relayVars
  <2> QED
    BY <2>1, <2>2, <2>3, <1>a, <1>b DEF GoTo, Dispatched
<1>10. \/ UNCHANGED <<cur, pc, unsent, tracker, bundle>>
       \/ Detect \/ CheckoutTake \/ TakeBlockhash \/ Reserve \/ MarkDispatched
       \/ \E q \in Relays : Send(q)
       \/ \E p \in Opps, q \in Relays :
            \/ RelayRefuses(p, q) \/ Expire(p, q) \/ Tracker(p, q)
            \/ Enter(p, q, "landed") \/ Enter(p, q, "failed")
  <2>1. CASE Bootstrap \/ Subscribe \/ Reconnect \/ CheckoutScan
    BY <2>1 DEF Bootstrap, Subscribe, Reconnect, CheckoutScan, detVars, trackVars, relayVars
  <2>2. CASE \E n \in Nonces : Deliver(n) \/ ExternalAdvance(n)
    BY <2>2 DEF Deliver, ExternalAdvance, detVars, trackVars, relayVars
  <2>3. CASE \E p \in Opps, q \in Relays : RelayAnswers(p, q)
    BY <2>3 DEF RelayAnswers, detVars, trackVars
  <2>4. CASE UNCHANGED vars
    BY <2>4 DEF vars, detVars, trackVars, relayVars
  <2> QED
    BY <2>1, <2>2, <2>3, <2>4 DEF Next, Startup, Detector, TakeHash, Relay, Fate, Land, LandFail
<1> QED
  BY <1>1, <1>2, <1>3, <1>4, <1>5, <1>6, <1>7, <1>8, <1>9, <1>10

-----------------------------------------------------------------------------
(* What enters the chain                                                    *)

(* Only three kinds of steps matter to hashes on chain: a checkout hands a  *)
(* new one out, somebody else spends one, a bundle spends its own.          *)
LEMMA EntrySteps ==
  ASSUME TypeInv, [Next]_vars
  PROVE  \/ CheckoutTake
         \/ \E n \in Nonces : ExternalAdvance(n)
         \/ \E o \in Opps, r \in Relays : Enter(o, r, "landed") \/ Enter(o, r, "failed")
         \/ /\ UNCHANGED <<hand, chain>>
            /\ \A o \in Opps, r \in Relays : OnChain(o, r)' => OnChain(o, r)
<1> DEFINE Quiet == /\ UNCHANGED <<hand, chain>>
                    /\ \A o \in Opps, r \in Relays : OnChain(o, r)' => OnChain(o, r)
<1>0. bundle \in [Opps -> [Relays -> BundleStates]]
  BY DEF TypeInv, TypeOK
<1>1. CASE UNCHANGED <<hand, chain, bundle>>
  BY <1>1 DEF OnChain
<1>2. ASSUME NEW r \in Relays, Send(r) PROVE Quiet
  BY <1>0, <1>2 DEF Send, OnChain, chainVars
<1>3. ASSUME NEW o \in Opps, NEW r \in Relays, RelayRefuses(o, r) \/ Expire(o, r) PROVE Quiet
  BY <1>0, <1>3 DEF RelayRefuses, Expire, OnChain, detVars, chainVars
<1>4. CASE Startup \/ Reconnect
  BY <1>1, <1>4 DEF Startup, Bootstrap, Subscribe, Reconnect, detVars, relayVars, chainVars
<1>5. CASE Detect \/ CheckoutScan \/ TakeBlockhash \/ Reserve \/ MarkDispatched
  BY <1>1, <1>5 DEF Detect, CheckoutScan, TakeBlockhash, Reserve, MarkDispatched, detVars,
                    relayVars, chainVars
<1>6. CASE \E n \in Nonces : Deliver(n)
  BY <1>1, <1>6 DEF Deliver, detVars, relayVars, chainVars
<1>7. CASE \E o \in Opps, r \in Relays : RelayAnswers(o, r)
  BY <1>1, <1>7 DEF RelayAnswers, detVars, chainVars
<1>8. CASE \E o \in Opps, r \in Relays : Tracker(o, r)
  BY <1>1, <1>8 DEF Tracker, CollectId, CollectNothing, ConfirmLanded, ConfirmNothing, Settle,
                    Release, detVars, relayVars, chainVars
<1>9. CASE UNCHANGED vars
  BY <1>1, <1>9 DEF vars, detVars, relayVars, chainVars
<1> QED
  BY <1>2, <1>3, <1>4, <1>5, <1>6, <1>7, <1>8, <1>9 DEF Next, Detector, TakeHash, Relay, Fate, Land, LandFail

(* The inductive invariant of non-equivocation.  OneEntryPerHash needs to   *)
(* know that whatever is on chain has spent its hash (EntrySpendsHash), and *)
(* that a checkout gives its hash to bundles yet to be sent                 *)
(* (TrackersStarted).                                                       *)
EntryInv ==
  /\ TypeInv
  /\ TrackersStarted
  /\ EntrySpendsHash
  /\ OneEntryPerHash

(* Nothing is on chain at the start.                                        *)
LEMMA InitEntryInv == Init => EntryInv
<1> SUFFICES ASSUME Init PROVE EntryInv
  OBVIOUS
<1>1. \A o \in Opps, r \in Relays : ~OnChain(o, r)
  BY DEF Init, OnChain
<1> QED
  BY <1>1, InitTypeInv, InitTrackersStarted DEF EntryInv, EntrySpendsHash, OneEntryPerHash

(* A bundle enters the chain only against an unspent hash, and spends it.   *)
LEMMA NextEntryInv == EntryInv /\ [Next]_vars => EntryInv'
<1> SUFFICES ASSUME EntryInv, [Next]_vars PROVE EntryInv'
  OBVIOUS
<1>a. TypeInv' /\ TrackersStarted'
  BY NextTypeInv, NextTrackersStarted DEF EntryInv
<1>b. /\ TypeInv
      /\ TrackersStarted
      /\ EntrySpendsHash
      /\ OneEntryPerHash
  BY DEF EntryInv
<1>t. /\ bundle \in [Opps -> [Relays -> BundleStates]]
      /\ hand \in [Opps -> [nonce : Nonces \cup {NoNonce}, hash : Nat \cup {NoHash}]]
      /\ chain \in [Nonces -> Nat]
      /\ NoNonce \notin Nonces
  BY <1>b DEF TypeInv, TypeOK, NoNonce, Nonces
<1> DEFINE Goal == EntrySpendsHash' /\ OneEntryPerHash'
<1> SUFFICES Goal
  BY <1>a DEF EntryInv
<1>1. CASE CheckoutTake
  <2>1. /\ hand' = [hand EXCEPT ![cur + 1] = [nonce |-> scan.best.nonce, hash |-> scan.best.hash]]
        /\ UNCHANGED <<bundle, chain>>
    BY <1>1 DEF CheckoutTake, relayVars, chainVars
  <2>2. \A o \in Opps, r \in Relays : OnChain(o, r)' => OnChain(o, r)
    BY <2>1 DEF OnChain
  <2>3. \A o \in Opps, r \in Relays : OnChain(o, r) => o # cur + 1
    BY <1>b DEF TrackersStarted, Dispatched, OnChain, Opps, TypeInv, TypeOK
  <2>4. \A o \in Opps, r \in Relays : OnChain(o, r) => hand'[o] = hand[o]
    BY <2>1, <2>3, <1>t
  <2>5. EntrySpendsHash'
    BY <2>1, <2>2, <2>4, <1>b DEF EntrySpendsHash
  <2>6. OneEntryPerHash'
    BY <2>2, <2>4, <1>b DEF OneEntryPerHash
  <2> QED
    BY <2>5, <2>6
<1>2. ASSUME NEW n \in Nonces, ExternalAdvance(n) PROVE Goal
  <2>1. /\ chain' = [chain EXCEPT ![n] = @ + 1]
        /\ UNCHANGED <<bundle, hand>>
    BY <1>2 DEF ExternalAdvance, detVars, relayVars
  <2>2. \A o \in Opps, r \in Relays : OnChain(o, r)' <=> OnChain(o, r)
    BY <2>1 DEF OnChain
  <2>3. \A m \in Nonces : chain'[m] >= chain[m]
    BY <2>1, <1>t
  <2>4. EntrySpendsHash'
    <3> SUFFICES ASSUME NEW o \in Opps, NEW r \in Relays, OnChain(o, r), hand[o].nonce # NoNonce
                 PROVE  hand[o].hash < chain'[hand[o].nonce]
      BY <2>1, <2>2 DEF EntrySpendsHash
    <3>1. /\ hand[o].nonce \in Nonces
          /\ hand[o].hash < chain[hand[o].nonce]
          /\ hand[o].hash \in Int
      BY <1>b, <1>t DEF EntrySpendsHash, NoHash
    <3>2. chain'[hand[o].nonce] \in Int /\ chain[hand[o].nonce] \in Int
      BY <3>1, <2>1, <1>t
    <3> QED
      BY <3>1, <3>2, <2>3
  <2>5. OneEntryPerHash'
    BY <2>1, <2>2, <1>b DEF OneEntryPerHash
  <2> QED
    BY <2>4, <2>5
<1>3. ASSUME NEW e \in Opps, NEW s \in Relays, NEW x \in {"landed", "failed"}, Enter(e, s, x)
      PROVE  Goal
  <2>1. /\ bundle' = [bundle EXCEPT ![e][s] = x]
        /\ chain' = [n \in Nonces |-> IF n = hand[e].nonce THEN chain[n] + 1 ELSE chain[n]]
        /\ hand' = hand
        /\ NonceValid(e)
    BY <1>3 DEF Enter, detVars
  <2>2. \A o \in Opps, r \in Relays : OnChain(o, r)' => OnChain(o, r) \/ (o = e /\ r = s)
    BY <2>1, <1>t DEF OnChain
  <2>3. \A o \in Opps : hand[o].nonce # NoNonce =>
          /\ hand[o].nonce \in Nonces
          /\ hand[o].hash \in Int
          /\ chain[hand[o].nonce] \in Int
          /\ chain'[hand[o].nonce] = chain[hand[o].nonce]
                                      + (IF hand[o].nonce = hand[e].nonce THEN 1 ELSE 0)
    BY <2>1, <1>t DEF NoHash
  <2>4. hand[e].nonce # NoNonce => hand[e].hash = chain[hand[e].nonce]
    BY <2>1 DEF NonceValid
  <2>5. EntrySpendsHash'
    <3> SUFFICES ASSUME NEW o \in Opps, NEW r \in Relays, OnChain(o, r)', hand[o].nonce # NoNonce
                 PROVE  hand[o].hash < chain'[hand[o].nonce]
      BY <2>1 DEF EntrySpendsHash
    <3>1. CASE OnChain(o, r)
      BY <3>1, <2>3, <1>b DEF EntrySpendsHash
    <3>2. CASE o = e /\ r = s
      BY <3>2, <2>3, <2>4
    <3> QED
      BY <3>1, <3>2, <2>2
  <2>6. OneEntryPerHash'
    <3> SUFFICES ASSUME NEW o \in Opps, NEW p \in Opps, NEW r \in Relays, NEW q \in Relays,
                        OnChain(o, r)', OnChain(p, q)', hand[o] = hand[p], hand[o].nonce # NoNonce
                 PROVE  o = p /\ r = q
      BY <2>1 DEF OneEntryPerHash
    <3>1. CASE OnChain(o, r) /\ OnChain(p, q)
      BY <3>1, <1>b DEF OneEntryPerHash
    <3>2. CASE OnChain(o, r) /\ p = e /\ q = s
      BY <3>2, <2>3, <2>4, <1>b DEF EntrySpendsHash
    <3>3. CASE o = e /\ r = s /\ OnChain(p, q)
      BY <3>3, <2>3, <2>4, <1>b DEF EntrySpendsHash
    <3>4. CASE o = e /\ r = s /\ p = e /\ q = s
      BY <3>4
    <3> QED
      BY <3>1, <3>2, <3>3, <3>4, <2>2
  <2> QED
    BY <2>5, <2>6
<1>4. CASE /\ UNCHANGED <<hand, chain>>
           /\ \A o \in Opps, r \in Relays : OnChain(o, r)' => OnChain(o, r)
  BY <1>4, <1>b DEF EntrySpendsHash, OneEntryPerHash
<1> QED
  BY <1>1, <1>2, <1>3, <1>4, <1>b, EntrySteps

(* Non-equivocation: whatever relays, chain and other actors do, at most    *)
(* one of the bundles that share a nonce and its hash enters the chain.     *)
THEOREM NonEquivocation == Spec => []OneEntryPerHash
<1>1. EntryInv => OneEntryPerHash
  BY DEF EntryInv
<1> QED
  BY InitEntryInv, NextEntryInv, <1>1, PTL DEF Spec

-----------------------------------------------------------------------------
(* The ledger                                                               *)

(* No opportunity carries a nonce at the start.                             *)
LEMMA InitHandsGiven == Init => HandsGiven
  BY DEF Init, HandsGiven, Opps

(* A checkout gives out a nonce if there is one.                            *)
LEMMA NextHandsGiven == TypeInv /\ HandsGiven /\ [Next]_vars => HandsGiven'
<1> SUFFICES ASSUME TypeInv, HandsGiven, [Next]_vars PROVE HandsGiven'
  OBVIOUS
<1>t. /\ hand \in [Opps -> [nonce : Nonces \cup {NoNonce}, hash : Nat \cup {NoHash}]]
      /\ cur \in Nat
      /\ PoolTypeOK
  BY DEF TypeInv, TypeOK
<1>1. CASE CheckoutTake
  <2>1. /\ scan.best.nonce \in Nonces
        /\ cur' = cur + 1
        /\ hand' = [hand EXCEPT ![cur + 1] = [nonce |-> scan.best.nonce, hash |-> scan.best.hash]]
    BY <1>1, <1>t, TakeWinnerType DEF CheckoutTake
  <2>2. NumNonces > 0 /\ scan.best.nonce # NoNonce
    BY <2>1 DEF Nonces, NoNonce
  <2> QED
    BY <2>1, <2>2, <1>t DEF HandsGiven, Opps
<1>2. CASE TakeBlockhash
  BY <1>2, <1>t DEF TakeBlockhash, HandsGiven, Opps
<1>3. CASE UNCHANGED <<cur, hand>>
  BY <1>3 DEF HandsGiven
<1>4. CheckoutTake \/ TakeBlockhash \/ UNCHANGED <<cur, hand>>
  <2>1. CASE Startup \/ Reconnect
    BY <2>1 DEF Startup, Bootstrap, Subscribe, Reconnect, detVars
  <2>2. CASE Detector
    BY <2>2 DEF Detector, TakeHash, Detect, CheckoutScan, Reserve, Send, MarkDispatched, detVars
  <2>3. CASE \E n \in Nonces : Deliver(n) \/ ExternalAdvance(n)
    BY <2>3 DEF Deliver, ExternalAdvance, detVars
  <2>4. CASE \E o \in Opps, r \in Relays : Relay(o, r) \/ Fate(o, r)
    BY <2>4 DEF Relay, RelayRefuses, RelayAnswers, Fate, Land, LandFail, Expire, Enter, detVars
  <2>5. CASE \E o \in Opps, r \in Relays : Tracker(o, r)
    BY <2>5 DEF Tracker, CollectId, CollectNothing, ConfirmLanded, ConfirmNothing, Settle, Release,
                detVars
  <2>6. CASE UNCHANGED vars
    BY <2>6 DEF vars, detVars
  <2> QED
    BY <2>1, <2>2, <2>3, <2>4, <2>5, <2>6 DEF Next
<1> QED
  BY <1>1, <1>2, <1>3, <1>4

(* BookedByLanding has to be known to show that the second tracker of an    *)
(* opportunity never books; it rests on non-equivocation in turn.           *)
LedgerInv ==
  /\ EntryInv
  /\ HandsGiven
  /\ BookedByLanding

(* Nothing is booked at the start.                                          *)
LEMMA InitLedgerInv == Init => LedgerInv
<1> SUFFICES ASSUME Init PROVE BookedByLanding
  BY InitEntryInv, InitHandsGiven DEF LedgerInv
<1> QED
  BY DEF Init, BookedByLanding

(* A bundle that enters the chain is the first of its opportunity.          *)
LEMMA FirstEntry ==
  ASSUME NumNonces > 0, LedgerInv, NEW o \in Opps, NEW r \in Relays,
         bundle[o][r] = "live", NonceValid(o)
  PROVE  /\ o <= cur
         /\ \A q \in Relays : ~OnChain(o, q)
<1>1. o <= cur
  BY DEF LedgerInv, EntryInv, TrackersStarted, Dispatched
<1>2. hand[o].nonce # NoNonce
  BY <1>1 DEF LedgerInv, HandsGiven
<1>3. hand[o].hash = chain[hand[o].nonce]
  BY <1>2 DEF NonceValid
<1>4. hand[o].hash \in Int
  BY DEF LedgerInv, EntryInv, TypeInv, TypeOK, NoHash
<1>5. \A q \in Relays : ~OnChain(o, q)
  BY <1>2, <1>3, <1>4 DEF LedgerInv, EntryInv, EntrySpendsHash
<1> QED
  BY <1>1, <1>5

(* A tracker that finds its bundle landed is the first to book.             *)
LEMMA FirstBooking ==
  ASSUME NumNonces > 0, LedgerInv, NEW o \in Opps, NEW r \in Relays, ConfirmLanded(o, r)
  PROVE  realized[o] = 0
<1> SUFFICES ASSUME realized[o] # 0 PROVE FALSE
  OBVIOUS
<1>1. PICK q \in Relays : /\ bundle[o][q] = "landed"
                          /\ tracker[o][q] \in {"settling", "releasing", "done"}
  BY DEF LedgerInv, BookedByLanding
<1>2. bundle[o][r] = "landed" /\ tracker[o][r] = "polling"
  BY DEF ConfirmLanded
<1>3. hand[o].nonce # NoNonce
  BY <1>2 DEF LedgerInv, EntryInv, HandsGiven, TrackersStarted, Dispatched
<1>4. q = r
  BY <1>1, <1>2, <1>3 DEF LedgerInv, EntryInv, OneEntryPerHash, OnChain
<1> QED
  BY <1>1, <1>2, <1>4

(* What the steps do to what the ledger sees.                               *)
LEMMA LedgerSteps ==
  ASSUME NumNonces > 0, LedgerInv, [Next]_vars
  PROVE  \/ CheckoutTake
         \/ \E o \in Opps, r \in Relays : Enter(o, r, "landed") \/ Enter(o, r, "failed")
         \/ \E o \in Opps, r \in Relays : ConfirmLanded(o, r)
         \/ /\ UNCHANGED <<cur, realized>>
            /\ \A o \in Opps, r \in Relays : OnChain(o, r) \/ OnChain(o, r)' =>
                                               bundle'[o][r] = bundle[o][r]
<1> DEFINE Quiet == /\ UNCHANGED <<cur, realized>>
                    /\ \A o \in Opps, r \in Relays : OnChain(o, r) \/ OnChain(o, r)' =>
                                                       bundle'[o][r] = bundle[o][r]
<1>t. /\ bundle \in [Opps -> [Relays -> BundleStates]]
      /\ TrackersStarted
  BY DEF LedgerInv, EntryInv, TypeInv, TypeOK
<1>1. CASE UNCHANGED <<cur, realized, bundle>>
  BY <1>1
<1>2. ASSUME NEW r \in Relays, Send(r) PROVE Quiet
  <2>1. cur \in Opps => bundle[cur][r] = "none"
    BY <1>2, <1>t DEF Send, TrackersStarted, Dispatched
  <2> QED
    BY <1>2, <1>t, <2>1 DEF Send, OnChain
<1>3. ASSUME NEW o \in Opps, NEW r \in Relays, RelayRefuses(o, r) \/ Expire(o, r) PROVE Quiet
  BY <1>3, <1>t DEF RelayRefuses, Expire, OnChain, detVars, trackVars
<1>4. CASE Startup \/ Reconnect
  BY <1>1, <1>4 DEF Startup, Bootstrap, Subscribe, Reconnect, detVars, trackVars, relayVars
<1>5. CASE Detect \/ CheckoutScan \/ TakeBlockhash \/ Reserve \/ MarkDispatched
  BY <1>1, <1>5 DEF Detect, CheckoutScan, TakeBlockhash, Reserve, MarkDispatched, detVars,
                    trackVars, relayVars
<1>6. CASE \E n \in Nonces : Deliver(n) \/ ExternalAdvance(n)
  BY <1>1, <1>6 DEF Deliver, ExternalAdvance, detVars, trackVars, relayVars
<1>7. CASE \E o \in Opps, r \in Relays : RelayAnswers(o, r)
  BY <1>1, <1>7 DEF RelayAnswers, detVars, trackVars
<1>8. CASE \E o \in Opps, r \in Relays : Tracker(o, r) /\ ~ConfirmLanded(o, r)
  BY <1>1, <1>8 DEF Tracker, CollectId, CollectNothing, ConfirmNothing, Settle, Release, detVars,
                    relayVars
<1>9. CASE UNCHANGED vars
  BY <1>1, <1>9 DEF vars, detVars, trackVars, relayVars
<1> QED
  BY <1>2, <1>3, <1>4, <1>5, <1>6, <1>7, <1>8, <1>9 DEF Next, Detector, TakeHash, Relay, Fate, Land, LandFail

(* A tracker past its polls never goes back.                                *)
Past(o, r) == tracker[o][r] \in {"settling", "releasing", "done"}

(* No step takes a tracker from its end back to its polls.                  *)
LEMMA TrackersOnward ==
  ASSUME TypeInv, TrackersStarted, [Next]_vars, NEW o \in Opps, NEW r \in Relays, Past(o, r)
  PROVE  Past(o, r)'
<1>t. tracker \in [Opps -> [Relays -> TrackStates]]
  BY DEF TypeInv, TypeOK
<1>1. CASE UNCHANGED tracker
  BY <1>1 DEF Past
<1>2. ASSUME NEW q \in Relays, Send(q) PROVE Past(o, r)'
  <2>1. cur \in Opps => tracker[cur][q] = "none"
    BY <1>2 DEF Send, TrackersStarted, Dispatched
  <2> QED
    BY <1>2, <1>t, <2>1 DEF Send, Past
<1>3. ASSUME NEW p \in Opps, NEW q \in Relays, Tracker(p, q) PROVE Past(o, r)'
  <2>1. PICK x \in TrackStates : /\ GoTo(p, q, x)
                                 /\ x \notin {"settling", "releasing", "done"} => ~Past(p, q)
    BY <1>3 DEF Tracker, CollectId, CollectNothing, ConfirmLanded, ConfirmNothing, Settle, Release,
                TrackStates, Past
  <2> QED
    BY <2>1, <1>t DEF GoTo, Past
<1>4. CASE Startup \/ Reconnect
  BY <1>1, <1>4 DEF Startup, Bootstrap, Subscribe, Reconnect, trackVars
<1>5. CASE Detector /\ ~\E q \in Relays : Send(q)
  BY <1>1, <1>5 DEF Detector, TakeHash, Detect, CheckoutScan, CheckoutTake, TakeBlockhash, Reserve,
                    MarkDispatched, trackVars
<1>6. CASE \E n \in Nonces : Deliver(n) \/ ExternalAdvance(n)
  BY <1>1, <1>6 DEF Deliver, ExternalAdvance, trackVars
<1>7. CASE \E p \in Opps, q \in Relays : Relay(p, q) \/ Fate(p, q)
  BY <1>1, <1>7 DEF Relay, RelayRefuses, RelayAnswers, Fate, Land, LandFail, Expire, Enter, trackVars
<1>8. CASE UNCHANGED vars
  BY <1>1, <1>8 DEF vars, trackVars
<1> QED
  BY <1>2, <1>3, <1>4, <1>5, <1>6, <1>7, <1>8 DEF Next

(* A booking comes from a landed bundle whose tracker was still polling.    *)
LEMMA NextLedgerInv == ASSUME NumNonces > 0 PROVE LedgerInv /\ [Next]_vars => LedgerInv'
<1> SUFFICES ASSUME LedgerInv, [Next]_vars PROVE BookedByLanding'
  BY NextEntryInv, NextHandsGiven DEF LedgerInv, EntryInv
<1> SUFFICES ASSUME NEW o \in Opps, realized'[o] # 0
             PROVE  /\ realized'[o] = 1
                    /\ \E r \in Relays : bundle'[o][r] = "landed" /\ Past(o, r)'
  BY DEF BookedByLanding, Past
<1>t. /\ bundle \in [Opps -> [Relays -> BundleStates]]
      /\ tracker \in [Opps -> [Relays -> TrackStates]]
      /\ realized \in [Opps -> Nat]
  BY DEF LedgerInv, EntryInv, TypeInv, TypeOK
<1>a. realized[o] # 0 => /\ realized[o] = 1
                         /\ \E r \in Relays : bundle[o][r] = "landed" /\ Past(o, r)
  BY DEF LedgerInv, BookedByLanding, Past
<1>b. \A r \in Relays : Past(o, r) => Past(o, r)'
  BY TrackersOnward DEF LedgerInv, EntryInv
<1>1. CASE UNCHANGED realized /\ \A r \in Relays : bundle[o][r] = "landed" => bundle'[o][r] = "landed"
  BY <1>1, <1>a, <1>b
<1>2. CASE CheckoutTake
  BY <1>1, <1>2 DEF CheckoutTake, trackVars, relayVars
<1>3. ASSUME NEW p \in Opps, NEW q \in Relays, NEW x \in {"landed", "failed"}, Enter(p, q, x)
      PROVE  UNCHANGED realized /\ \A r \in Relays : bundle[o][r] = "landed" => bundle'[o][r] = "landed"
  BY <1>3, <1>t DEF Enter, trackVars
<1>4. ASSUME NEW p \in Opps, NEW q \in Relays, ConfirmLanded(p, q)
      PROVE  /\ realized'[o] = 1
             /\ \E r \in Relays : bundle'[o][r] = "landed" /\ Past(o, r)'
  <2>1. /\ realized' = [realized EXCEPT ![p] = @ + 1]
        /\ tracker' = [tracker EXCEPT ![p][q] = "settling"]
        /\ bundle' = bundle
        /\ bundle[p][q] = "landed"
    BY <1>4 DEF ConfirmLanded, GoTo, relayVars
  <2>2. CASE o = p
    <3>1. realized[p] = 0
      BY <1>4, FirstBooking
    <3>2. realized'[o] = 1
      BY <2>1, <2>2, <3>1, <1>t
    <3>3. bundle'[o][q] = "landed" /\ Past(o, q)'
      BY <2>1, <2>2, <1>t DEF Past
    <3> QED
      BY <3>2, <3>3
  <2>3. CASE o # p
    BY <2>1, <2>3, <1>t, <1>a, <1>b
  <2> QED
    BY <2>2, <2>3
<1>5. CASE /\ UNCHANGED <<cur, realized>>
           /\ \A p \in Opps, r \in Relays : OnChain(p, r) \/ OnChain(p, r)' =>
                                              bundle'[p][r] = bundle[p][r]
  BY <1>1, <1>5 DEF OnChain
<1> QED
  BY <1>1, <1>2, <1>3, <1>4, <1>5, LedgerSteps

(* Init maps to the initial state of the ledger.                            *)
LEMMA LedgerInitMaps == Init => Ledger!LedgerInit
<1> SUFFICES ASSUME Init PROVE Ledger!LedgerInit
  OBVIOUS
<1>1. \A o \in Opps : Filled(o) = "unopened"
  BY DEF Init, Filled, Opps
<1>2. realized = [o \in Opps |-> 0]
  BY DEF Init
<1> QED
  BY <1>1, <1>2 DEF Ledger!LedgerInit

(* Every step maps to a step of the ledger or leaves it alone.              *)
LEMMA LedgerNextMaps ==
  ASSUME NumNonces > 0
  PROVE  LedgerInv /\ [Next]_vars => [Ledger!LedgerNext]_(Ledger!ledgerVars)
<1> SUFFICES ASSUME LedgerInv, [Next]_vars PROVE [Ledger!LedgerNext]_(Ledger!ledgerVars)
  OBVIOUS
<1> DEFINE fill == [o \in Opps |-> Filled(o)]
<1>t. /\ bundle \in [Opps -> [Relays -> BundleStates]]
      /\ realized \in [Opps -> Nat]
      /\ cur \in Nat
      /\ TrackersStarted
  BY DEF LedgerInv, EntryInv, TypeInv, TypeOK
<1>1. CASE CheckoutTake
  <2>1. /\ cur' = cur + 1
        /\ bundle' = bundle
        /\ realized' = realized
    BY <1>1 DEF CheckoutTake, trackVars, relayVars
  <2>2. cur + 1 \in Opps
    BY <1>1, <1>t DEF CheckoutTake, LedgerInv, EntryInv, TypeInv, CheckoutBounded, Opps
  <2>3. PICK p \in Opps : p = cur + 1
    BY <2>2
  <2>4. \A r \in Relays : bundle[p][r] = "none"
    BY <2>3, <1>t DEF TrackersStarted, Dispatched
  <2>5. ~(p <= cur) /\ p <= cur'
    BY <2>1, <2>3, <1>t
  <2>6. Filled(p) = "unopened" /\ Filled(p)' = "open"
    BY <2>1, <2>4, <2>5 DEF Filled
  <2>7. \A o \in Opps : o # p => Filled(o)' = Filled(o)
    BY <2>1, <2>3, <1>t DEF Filled, Opps
  <2>8. Ledger!Open(p)
    BY <2>1, <2>6, <2>7 DEF Ledger!Open
  <2> QED
    BY <2>8 DEF Ledger!LedgerNext
<1>2. ASSUME NEW p \in Opps, NEW q \in Relays, NEW x \in {"landed", "failed"}, Enter(p, q, x)
      PROVE  Ledger!LedgerNext
  <2>1. /\ bundle' = [bundle EXCEPT ![p][q] = x]
        /\ cur' = cur
        /\ realized' = realized
        /\ bundle[p][q] = "live"
        /\ NonceValid(p)
    BY <1>2 DEF Enter, detVars, trackVars
  <2>2. p <= cur /\ \A r \in Relays : ~OnChain(p, r)
    BY <2>1, FirstEntry
  <2>3. Filled(p) = "open"
    BY <2>2 DEF Filled, OnChain
  <2>4. Filled(p)' \in {"filled", "failed"}
    BY <2>1, <1>t DEF Filled
  <2>5. \A o \in Opps : o # p => Filled(o)' = Filled(o)
    BY <2>1, <1>t DEF Filled
  <2>6. Ledger!Fill(p)
    BY <2>1, <2>3, <2>4, <2>5 DEF Ledger!Fill
  <2> QED
    BY <2>6 DEF Ledger!LedgerNext
<1>3. ASSUME NEW p \in Opps, NEW q \in Relays, ConfirmLanded(p, q)
      PROVE  Ledger!LedgerNext
  <2>1. /\ realized' = [realized EXCEPT ![p] = @ + 1]
        /\ cur' = cur
        /\ bundle' = bundle
        /\ bundle[p][q] = "landed"
    BY <1>3 DEF ConfirmLanded, detVars, relayVars
  <2>2. realized[p] = 0
    BY <1>3, FirstBooking
  <2>3. Filled(p) = "filled"
    BY <2>1 DEF Filled
  <2>4. \A o \in Opps : Filled(o)' = Filled(o)
    BY <2>1 DEF Filled
  <2>5. realized' = [realized EXCEPT ![p] = 1]
    BY <2>1, <2>2
  <2>6. Ledger!Book(p)
    BY <2>2, <2>3, <2>4, <2>5 DEF Ledger!Book
  <2> QED
    BY <2>6 DEF Ledger!LedgerNext
<1>4. CASE /\ UNCHANGED <<cur, realized>>
           /\ \A p \in Opps, r \in Relays : OnChain(p, r) \/ OnChain(p, r)' =>
                                              bundle'[p][r] = bundle[p][r]
  <2>1. \A o \in Opps : Filled(o)' = Filled(o)
    BY <1>4 DEF Filled, OnChain
  <2> QED
    BY <1>4, <2>1 DEF Ledger!ledgerVars
<1> QED
  BY <1>1, <1>2, <1>3, <1>4, LedgerSteps

(* With at least one nonce account the fan-out implements the ledger: one   *)
(* fill and one booking per opportunity, however many relays carry it.      *)
THEOREM FanoutImplementsLedger == ASSUME NumNonces > 0 PROVE Spec => ImplementsLedger
<1>1. Init => LedgerInv
  BY InitLedgerInv
<1>2. LedgerInv /\ [Next]_vars => LedgerInv'
  BY NextLedgerInv
<1>3. Init => Ledger!LedgerInit
  BY LedgerInitMaps
<1>4. LedgerInv /\ [Next]_vars => [Ledger!LedgerNext]_(Ledger!ledgerVars)
  BY LedgerNextMaps
<1> QED
  BY <1>1, <1>2, <1>3, <1>4, PTL DEF Spec, ImplementsLedger, Ledger!LedgerSpec

-----------------------------------------------------------------------------
(* The cached hashes                                                        *)

Cached(n) == pool[n].cached_hash

(* What the steps do to chain, stream and cached hashes.                    *)
LEMMA CacheSteps ==
  ASSUME TypeInv, [Next]_vars
  PROVE  \/ Bootstrap
         \/ Subscribe
         \/ Reconnect
         \/ \E n \in Nonces : Deliver(n)
         \/ /\ UNCHANGED <<booted, subscribed, delivered>>
            /\ \A n \in Nonces : Cached(n)' = Cached(n) /\ chain'[n] >= chain[n]
<1> DEFINE Quiet == /\ UNCHANGED <<booted, subscribed, delivered>>
                    /\ \A n \in Nonces : Cached(n)' = Cached(n) /\ chain'[n] >= chain[n]
<1>t. /\ pool \in [Nonces -> NonceState]
      /\ chain \in [Nonces -> Nat]
      /\ PoolTypeOK
      /\ cur \in Nat
  BY DEF TypeInv, TypeOK, PoolTypeOK
<1>1. CASE UNCHANGED <<booted, subscribed, delivered, pool, chain>>
  BY <1>1, <1>t DEF Cached
<1>2. CASE CheckoutTake
  <2>1. scan.best.nonce \in Nonces
    BY <1>2, <1>t, TakeWinnerType DEF CheckoutTake
  <2>2. \A n \in Nonces : Cached(n)' = Cached(n)
    BY <1>2, <2>1, <1>t DEF CheckoutTake, TakeWinner, Cached, NonceState
  <2> QED
    BY <1>2, <2>2, <1>t DEF CheckoutTake, chainVars, feedVars
<1>3. ASSUME NEW o \in Opps, NEW r \in Relays, Release(o, r) PROVE Quiet
  <2>1. \A n \in Nonces : Cached(n)' = Cached(n)
    BY <1>3, <1>t DEF Release, MarkSettled, Cached, NonceState
  <2> QED
    BY <1>3, <2>1, <1>t DEF Release, detVars, chainVars, feedVars
<1>4. ASSUME NEW n \in Nonces, ExternalAdvance(n) PROVE Quiet
  BY <1>4, <1>t DEF ExternalAdvance, poolVars, detVars, feedVars, Cached
<1>5. ASSUME NEW o \in Opps, NEW r \in Relays, NEW x \in {"landed", "failed"}, Enter(o, r, x)
      PROVE  Quiet
  BY <1>5, <1>t DEF Enter, poolVars, detVars, feedVars, Cached
<1>6. CASE Detector /\ ~CheckoutTake
  BY <1>1, <1>6 DEF Detector, TakeHash, Detect, CheckoutScan, ScanEntry, TakeBlockhash, Reserve, Send,
                    MarkDispatched, poolVars, detVars, chainVars, feedVars
<1>7. CASE \E o \in Opps, r \in Relays : RelayRefuses(o, r) \/ RelayAnswers(o, r) \/ Expire(o, r)
  BY <1>1, <1>7 DEF RelayRefuses, RelayAnswers, Expire, poolVars, detVars, chainVars, feedVars
<1>8. CASE \E o \in Opps, r \in Relays : Tracker(o, r) /\ ~Release(o, r)
  BY <1>1, <1>8 DEF Tracker, CollectId, CollectNothing, ConfirmLanded, ConfirmNothing, Settle,
                    poolVars, detVars, chainVars, feedVars
<1>9. CASE UNCHANGED vars
  BY <1>1, <1>9 DEF vars, poolVars, detVars, chainVars, feedVars
<1> QED
  BY <1>2, <1>3, <1>4, <1>5, <1>6, <1>7, <1>8, <1>9
     DEF Next, Startup, Relay, Fate, Land, LandFail

CacheInv == TypeInv /\ CacheBehindChain

(* No hash is known before the bootstrap.                                   *)
LEMMA InitCacheInv == Init => CacheInv
<1> SUFFICES ASSUME Init PROVE CacheBehindChain
  BY InitTypeInv DEF CacheInv
<1>1. \A n \in Nonces : n > booted /\ Cached(n) = NoHash /\ chain[n] = 0
  BY DEF Init, PoolInit, Cached, Nonces
<1> QED
  BY <1>1 DEF Init, CacheBehindChain, Cached, NoHash

(* Bootstrap and stream, the two writers: either stores a hash no newer     *)
(* than the chain and, but for a replay, no older than the one it replaces. *)
LEMMA NextCacheInv ==
  ASSUME CacheInv, [Next]_vars
  PROVE  /\ CacheInv'
         /\ \A n \in Nonces : Cached(n)' >= Cached(n) \/ delivered[n] < Cached(n)
<1>t. /\ pool \in [Nonces -> NonceState]
      /\ chain \in [Nonces -> Nat]
      /\ delivered \in [Nonces -> Nat]
      /\ booted \in 0..NumNonces
      /\ \A n \in Nonces : Cached(n) \in Int
  BY DEF CacheInv, TypeInv, TypeOK, PoolTypeOK, Cached, NonceState, NoHash
<1>b. TypeInv /\ CacheBehindChain
  BY DEF CacheInv
<1> DEFINE Goal == /\ CacheBehindChain'
                   /\ \A n \in Nonces : Cached(n)' >= Cached(n) \/ delivered[n] < Cached(n)
<1> SUFFICES Goal
  BY <1>b, NextTypeInv DEF CacheInv
<1>1. CASE Bootstrap
  <2>1. PICK b \in Nonces : b = booted + 1
    BY <1>1, <1>t DEF Bootstrap, Nonces
  <2>2. PICK v \in 0..chain[b] : pool' = [pool EXCEPT ![b].cached_hash = v]
    BY <1>1, <2>1 DEF Bootstrap, UpdateCachedHash
  <2>3. Cached(b)' = v /\ \A n \in Nonces \ {b} : Cached(n)' = Cached(n)
    BY <2>2, <1>t DEF Cached, NonceState
  <2>4. v \in Nat /\ v <= chain[b]
    BY <2>1, <2>2, <1>t
  <2>5. Cached(b) = NoHash /\ ~subscribed
    BY <1>1, <2>1, <1>b, <1>t DEF Bootstrap, Booted, CacheBehindChain, Cached
  <2>6. booted' = booted + 1 /\ chain' = chain /\ subscribed' = subscribed
    BY <1>1 DEF Bootstrap, chainVars, feedVars
  <2>7. CacheBehindChain'
    <3>1. ASSUME NEW n \in Nonces, n > booted + 1 PROVE Cached(n)' = NoHash
      <4>1. n # b /\ n > booted
        BY <3>1, <2>1, <1>t DEF Nonces
      <4> QED
        BY <4>1, <2>3, <1>b DEF CacheBehindChain, Cached
    <3>2. \A n \in Nonces : Cached(n)' <= chain'[n]
      BY <2>3, <2>4, <2>6, <1>b DEF CacheBehindChain, Cached
    <3>3. \A n \in Nonces : delivered'[n] <= chain'[n]
      BY <1>1, <1>b DEF CacheBehindChain, Bootstrap, chainVars, feedVars
    <3> QED
      BY <3>1, <3>2, <3>3, <2>5, <2>6 DEF CacheBehindChain, Cached
  <2>8. \A n \in Nonces : Cached(n)' >= Cached(n)
    BY <2>3, <2>4, <2>5, <1>t DEF NoHash
  <2> QED
    BY <2>7, <2>8
<1>2. CASE Subscribe
  <2>1. /\ UNCHANGED <<booted, pool, chain>>
        /\ Booted
        /\ subscribed' = TRUE
        /\ delivered' = chain
    BY <1>2 DEF Subscribe, poolVars, detVars, chainVars
  <2> QED
    BY <2>1, <1>b, <1>t DEF CacheBehindChain, Cached, Booted
<1>3. ASSUME NEW d \in Nonces, Deliver(d) PROVE Goal
  <2>1. /\ pool' = [pool EXCEPT ![d].cached_hash = delivered[d] + 1]
        /\ delivered' = [delivered EXCEPT ![d] = @ + 1]
        /\ delivered[d] < chain[d]
        /\ subscribed
        /\ UNCHANGED <<booted, chain, subscribed>>
    BY <1>3 DEF Deliver, UpdateCachedHash, detVars, chainVars
  <2>2. /\ Cached(d)' = delivered[d] + 1 /\ delivered'[d] = delivered[d] + 1
        /\ \A n \in Nonces \ {d} : Cached(n)' = Cached(n) /\ delivered'[n] = delivered[n]
    BY <2>1, <1>t DEF Cached, NonceState
  <2>3. booted = NumNonces
    BY <2>1, <1>b DEF CacheBehindChain, Cached, Booted
  <2>4. \A n \in Nonces : Cached(n)' >= Cached(n) \/ delivered[n] < Cached(n)
    BY <2>2, <1>t
  <2>5. \A n \in Nonces : delivered'[n] <= chain[n]
    BY <2>1, <2>2, <1>b, <1>t DEF CacheBehindChain, Cached
  <2>6. \A n \in Nonces : Cached(n)' <= chain[n]
    BY <2>1, <2>2, <1>b, <1>t DEF CacheBehindChain, Cached
  <2>7. \A n \in Nonces : ~(n > booted)
    BY <2>3 DEF Nonces
  <2> QED
    BY <2>1, <2>3, <2>4, <2>5, <2>6, <2>7 DEF CacheBehindChain, Cached, Booted
<1>4. CASE /\ UNCHANGED <<booted, subscribed, delivered>>
           /\ \A n \in Nonces : Cached(n)' = Cached(n) /\ chain'[n] >= chain[n]
  <2>1. chain' \in [Nonces -> Nat]
    BY <1>b, NextTypeInv DEF TypeInv, TypeOK
  <2>2. \A n \in Nonces : Cached(n)' >= Cached(n)
    BY <1>4, <1>t
  <2>3. CacheBehindChain'
    BY <1>4, <2>1, <1>b, <1>t DEF CacheBehindChain, Cached, Booted
  <2> QED
    BY <2>2, <2>3
<1>5. CASE Reconnect
  <2>1. /\ UNCHANGED <<booted, pool, chain, subscribed>>
        /\ \A n \in Nonces : delivered'[n] <= delivered[n]
    BY <1>5 DEF Reconnect, poolVars, detVars, chainVars
  <2>2. delivered' \in [Nonces -> Nat]
    BY <1>b, NextTypeInv DEF TypeInv, TypeOK
  <2> QED
    BY <2>1, <2>2, <1>b, <1>t DEF CacheBehindChain, Cached, Booted
<1> QED
  BY <1>1, <1>2, <1>3, <1>4, <1>5, <1>b, CacheSteps

(* The cached hash of a nonce moves back only while the stream replays.     *)
THEOREM CacheMonotonic == Spec => CacheNeverGoesBack
<1>1. CacheInv /\ [Next]_vars => CacheInv'
  BY NextCacheInv
<1>2. CacheInv /\ [Next]_vars => [BackOnlyByReplay]_vars
  BY NextCacheInv DEF Cached, BackOnlyByReplay
<1> QED
  BY InitCacheInv, <1>1, <1>2, PTL DEF Spec, CacheNeverGoesBack

-----------------------------------------------------------------------------
(* Who holds a nonce                                                        *)

(* A property of one tracker that Holds and FlagBeforeRelease look at.      *)
At(o, r, x) == tracker[o][r] = x

(* Nothing changes about owners, marks and flags but by a checkout, a       *)
(* settlement or a release.                                                 *)
HoldingUnchanged ==
  /\ UNCHANGED <<cur, hand, overlap, settledOnce>>
  /\ \A n \in Nonces : Owner(n)' = Owner(n) /\ (pool'[n].in_flight <=> pool[n].in_flight)
  /\ \A o \in Opps, r \in Relays, x \in {"releasing", "done"} : At(o, r, x)' <=> At(o, r, x)

(* Every other step leaves owners, marks and flags as they are.              *)
LEMMA HoldingSteps ==
  ASSUME TypeInv, TrackersStarted, [Next]_vars
  PROVE  \/ CheckoutTake
         \/ TakeBlockhash
         \/ \E o \in Opps, r \in Relays : Settle(o, r) \/ Release(o, r)
         \/ HoldingUnchanged
<1>t. /\ pool \in [Nonces -> NonceState]
      /\ tracker \in [Opps -> [Relays -> TrackStates]]
      /\ booted \in 0..NumNonces
  BY DEF TypeInv, TypeOK, PoolTypeOK
<1>1. CASE UNCHANGED <<cur, hand, overlap, settledOnce, pool, tracker>>
  BY <1>1 DEF HoldingUnchanged, Owner, At
<1>2. ASSUME NEW n \in Nonces, NEW h, UpdateCachedHash(n, h),
             UNCHANGED <<cur, hand, overlap, settledOnce, tracker>>
      PROVE  HoldingUnchanged
  <2>1. \A m \in Nonces : Owner(m)' = Owner(m) /\ (pool'[m].in_flight <=> pool[m].in_flight)
    BY <1>2, <1>t DEF UpdateCachedHash, Owner, NonceState
  <2> QED
    BY <1>2, <2>1 DEF HoldingUnchanged, At
<1>3. CASE Bootstrap
  <2>1. booted + 1 \in Nonces
    BY <1>3, <1>t DEF Bootstrap, Nonces
  <2>2. UNCHANGED <<cur, hand, overlap, settledOnce, tracker>>
    BY <1>3 DEF Bootstrap, trackVars
  <2> QED
    BY <1>2, <1>3, <2>1, <2>2 DEF Bootstrap
<1>4. CASE \E n \in Nonces : Deliver(n)
  BY <1>2, <1>4 DEF Deliver, detVars, trackVars
<1>5. ASSUME NEW q \in Relays, Send(q) PROVE HoldingUnchanged
  <2>1. cur \in Opps => tracker[cur][q] = "none"
    BY <1>5 DEF Send, TrackersStarted, Dispatched
  <2>2. \A o \in Opps, r \in Relays, x \in {"releasing", "done"} : At(o, r, x)' <=> At(o, r, x)
    BY <1>5, <2>1, <1>t DEF Send, At
  <2>3. UNCHANGED <<cur, hand, overlap, settledOnce, pool>>
    BY <1>5 DEF Send, poolVars
  <2> QED
    BY <2>2, <2>3 DEF HoldingUnchanged, Owner
<1>6. ASSUME NEW p \in Opps, NEW q \in Relays, Tracker(p, q), ~Settle(p, q), ~Release(p, q)
      PROVE  HoldingUnchanged
  <2>1. PICK x \in {"polling", "settling"} : GoTo(p, q, x)
    BY <1>6 DEF Tracker, CollectId, CollectNothing, ConfirmLanded, ConfirmNothing
  <2>2. tracker[p][q] \in {"collecting", "polling"}
    BY <1>6 DEF Tracker, CollectId, CollectNothing, ConfirmLanded, ConfirmNothing
  <2>3. \A o \in Opps, r \in Relays, y \in {"releasing", "done"} : At(o, r, y)' <=> At(o, r, y)
    BY <2>1, <2>2, <1>t DEF GoTo, At
  <2>4. UNCHANGED <<cur, hand, overlap, settledOnce, pool>>
    BY <1>6 DEF Tracker, CollectId, CollectNothing, ConfirmLanded, ConfirmNothing, poolVars, detVars
  <2> QED
    BY <2>3, <2>4 DEF HoldingUnchanged, Owner
<1>7. CASE Subscribe \/ Reconnect \/ \E n \in Nonces : ExternalAdvance(n)
  BY <1>1, <1>7 DEF Subscribe, Reconnect, ExternalAdvance, poolVars, detVars, trackVars
<1>8. CASE Detect \/ CheckoutScan \/ Reserve \/ MarkDispatched
  BY <1>1, <1>8 DEF Detect, CheckoutScan, ScanEntry, Reserve, MarkDispatched,
                    poolVars, detVars, trackVars
<1>9. CASE \E o \in Opps, r \in Relays : Relay(o, r) \/ Fate(o, r)
  BY <1>1, <1>9 DEF Relay, RelayRefuses, RelayAnswers, Fate, Land, LandFail, Expire, Enter,
                    poolVars, detVars, trackVars
<1>10. CASE UNCHANGED vars
  BY <1>1, <1>10 DEF vars, poolVars, detVars, trackVars
<1> QED
  BY <1>3, <1>4, <1>5, <1>6, <1>7, <1>8, <1>9, <1>10 DEF Next, Startup, Detector, TakeHash

(* The inductive invariant about holders.  MarkedUntilSettled is preserved  *)
(* by a late release because its opportunity, still a holder, would make    *)
(* the owner one that overlapped (NoOverlapNoHolder, OwnerIsLatest).        *)
HoldingInv ==
  /\ TypeInv
  /\ TrackersStarted
  /\ HandsGiven
  /\ FlagBeforeRelease
  /\ OwnerIsLatest
  /\ NoOverlapNoHolder
  /\ InFlightHasOwner
  /\ MarkedUntilSettled

(* No nonce has an owner at the start.                                      *)
LEMMA InitHoldingInv == Init => HoldingInv
<1> SUFFICES ASSUME Init PROVE HoldingInv
  OBVIOUS
<1>1. \A n \in Nonces : Owner(n) = 0 /\ ~pool[n].in_flight
  BY DEF Init, PoolInit, Owner
<1>2. cur = 0 /\ \A o \in Opps : o > cur /\ ~settledOnce[o] /\ \A r \in Relays : tracker[o][r] = "none"
  BY DEF Init, Opps
<1>3. OwnerIsLatest /\ InFlightHasOwner /\ MarkedUntilSettled
  BY <1>1, <1>2 DEF OwnerIsLatest, InFlightHasOwner, MarkedUntilSettled
<1>4. FlagBeforeRelease /\ NoOverlapNoHolder
  BY <1>2 DEF FlagBeforeRelease, NoOverlapNoHolder
<1> QED
  BY <1>3, <1>4, InitTypeInv, InitTrackersStarted, InitHandsGiven DEF HoldingInv

(* Checkout hands a nonce over; only its owner's first settler clears it.   *)
LEMMA NextHoldingInv == HoldingInv /\ [Next]_vars => HoldingInv'
<1> SUFFICES ASSUME HoldingInv, [Next]_vars PROVE HoldingInv'
  OBVIOUS
<1> DEFINE Goal == /\ FlagBeforeRelease'
                   /\ OwnerIsLatest'
                   /\ NoOverlapNoHolder'
                   /\ InFlightHasOwner'
                   /\ MarkedUntilSettled'
<1>i. /\ TypeInv
      /\ TrackersStarted
      /\ HandsGiven
      /\ FlagBeforeRelease
      /\ OwnerIsLatest
      /\ NoOverlapNoHolder
      /\ InFlightHasOwner
      /\ MarkedUntilSettled
  BY DEF HoldingInv
<1> SUFFICES Goal
  BY <1>i, NextTypeInv, NextTrackersStarted, NextHandsGiven DEF HoldingInv
<1>p. PoolTypeOK /\ pool \in [Nonces -> NonceState]
  BY <1>i DEF TypeInv, TypeOK, PoolTypeOK
<1>q. \A n \in Nonces : Owner(n) \in Nat
  BY <1>p DEF NonceState, Owner
<1>r. /\ hand \in [Opps -> [nonce : Nonces \cup {NoNonce}, hash : Nat \cup {NoHash}]]
      /\ overlap \in [Opps -> BOOLEAN]
      /\ settledOnce \in [Opps -> BOOLEAN]
      /\ tracker \in [Opps -> [Relays -> TrackStates]]
      /\ cur \in 0..MaxOpps
  BY <1>i DEF TypeInv, TypeOK
<1>t. /\ pool \in [Nonces -> NonceState]
      /\ \A n \in Nonces : Owner(n) \in Nat
      /\ hand \in [Opps -> [nonce : Nonces \cup {NoNonce}, hash : Nat \cup {NoHash}]]
      /\ overlap \in [Opps -> BOOLEAN]
      /\ settledOnce \in [Opps -> BOOLEAN]
      /\ tracker \in [Opps -> [Relays -> TrackStates]]
      /\ cur \in 0..MaxOpps
      /\ PoolTypeOK
      /\ NoNonce \notin Nonces
  BY <1>p, <1>q, <1>r DEF Nonces, NoNonce
<1>o. \A n \in Nonces : Owner(n) # 0 => Owner(n) \in Opps /\ Owner(n) \in 1..cur /\ hand[Owner(n)].nonce = n
  BY <1>i, <1>t DEF OwnerIsLatest, Opps
<1>1. CASE CheckoutTake
  <2>1. PICK w \in Nonces : w = scan.best.nonce
    BY <1>1, <1>t, TakeWinnerType DEF CheckoutTake
  <2>2. PICK e \in Opps : e = cur + 1
    BY <1>1, <1>i, <1>t DEF TypeInv, CheckoutBounded, CheckoutTake, Opps
  <2>3. /\ cur' = e
        /\ hand' = [hand EXCEPT ![e] = [nonce |-> w, hash |-> scan.best.hash]]
        /\ overlap' = [overlap EXCEPT ![e] = \E o \in 1..cur : hand[o].nonce = w /\ Holds(o)]
        /\ UNCHANGED <<settledOnce, tracker>>
    BY <1>1, <2>1, <2>2 DEF CheckoutTake, trackVars
  <2>4. /\ pool'[w].last_used = e
        /\ pool'[w].in_flight = TRUE
        /\ \A n \in Nonces \ {w} : pool'[n] = pool[n]
    BY <1>1, <2>1, <2>2, <1>t DEF CheckoutTake, TakeWinner, NonceState
  <2>5. /\ hand'[e].nonce = w
        /\ \A o \in Opps \ {e} : hand'[o] = hand[o] /\ overlap'[o] = overlap[o]
        /\ \A o \in 1..cur : o \in Opps \ {e}
    BY <2>2, <2>3, <1>t DEF Opps
  <2>6. \A o \in Opps : Holds(o)' <=> Holds(o)
    BY <2>3 DEF Holds
  <2>7. ~settledOnce[e] /\ Holds(e)
    BY <2>2, <1>i, <1>t DEF FlagBeforeRelease, Holds
  <2>8. FlagBeforeRelease'
    <3>1. cur \in Int /\ cur' = cur + 1 /\ UNCHANGED <<settledOnce, tracker>>
      BY <2>2, <2>3, <1>t
    <3>2. \A o \in Opps : o \in Int
      BY DEF Opps
    <3> QED
      BY <3>1, <3>2, <1>i DEF FlagBeforeRelease
  <2>9. OwnerIsLatest'
    <3>1. \A o \in 1..e : o = e \/ o \in 1..cur
      BY <2>2, <1>t
    <3>2. e \in 0..e /\ e # 0
      BY DEF Opps
    <3>3. ASSUME NEW n \in Nonces, n # w
          PROVE  /\ Owner(n)' \in 0..e
                 /\ Owner(n)' # 0 => hand'[Owner(n)'].nonce = n
                 /\ \A o \in 1..e : hand'[o].nonce = n => o <= Owner(n)'
      <4>1. Owner(n)' = Owner(n)
        BY <2>4, <3>3 DEF Owner
      <4>2. Owner(n) \in 0..e
        BY <2>2, <1>i, <1>t DEF OwnerIsLatest
      <4>3. Owner(n) # 0 => hand'[Owner(n)].nonce = n
        BY <2>5, <1>o
      <4>4. \A o \in 1..e : hand'[o].nonce = n => o <= Owner(n)
        BY <2>5, <3>1, <3>3, <1>i DEF OwnerIsLatest
      <4> QED
        BY <4>1, <4>2, <4>3, <4>4
    <3>4. Owner(w)' = e
      BY <2>4 DEF Owner
    <3>5. \A o \in 1..e : o <= e
      BY <2>2, <1>t
    <3> SUFFICES ASSUME NEW n \in Nonces
                 PROVE  /\ Owner(n)' \in 0..e
                        /\ Owner(n)' # 0 => hand'[Owner(n)'].nonce = n
                        /\ \A o \in 1..e : hand'[o].nonce = n => o <= Owner(n)'
      BY <2>3 DEF OwnerIsLatest
    <3> QED
      BY <2>5, <3>2, <3>3, <3>4, <3>5
  <2>10. NoOverlapNoHolder'
    <3> SUFFICES ASSUME NEW o \in 1..e, ~overlap'[o], hand'[o].nonce # NoNonce,
                        NEW p \in 1..(o - 1), hand'[p].nonce = hand'[o].nonce
                 PROVE  ~Holds(p)
      <4>1. \A p \in 1..(e - 1) : p \in Opps
        BY <2>2, <1>t DEF Opps
      <4>2. \A o \in 1..e : \A p \in 1..(o - 1) : p \in 1..(e - 1)
        BY DEF Opps
      <4> QED
        BY <2>3, <2>6, <4>1, <4>2 DEF NoOverlapNoHolder
    <3>1. CASE o = e
      <4>1. p \in 1..cur
        BY <3>1, <2>2, <1>t
      <4>2. hand[p].nonce = w
        BY <3>1, <4>1, <2>5
      <4>3. ~(\E q \in 1..cur : hand[q].nonce = w /\ Holds(q))
        BY <3>1, <2>3, <1>t
      <4> QED
        BY <4>1, <4>2, <4>3
    <3>2. CASE o # e
      <4>1. o \in 1..cur /\ p \in 1..cur
        BY <3>2, <2>2, <1>t
      <4> QED
        BY <4>1, <2>5, <1>i DEF NoOverlapNoHolder
    <3> QED
      BY <3>1, <3>2
  <2>11. InFlightHasOwner'
    <3> SUFFICES ASSUME NEW n \in Nonces, pool'[n].in_flight
                 PROVE  Owner(n)' # 0 /\ Holds(Owner(n))'
      BY DEF InFlightHasOwner
    <3>1. CASE n = w
      BY <3>1, <2>4, <2>6, <2>7 DEF Owner, Opps
    <3>2. CASE n # w
      <4>1. Owner(n)' = Owner(n) /\ Owner(n) # 0 /\ Holds(Owner(n))
        BY <3>2, <2>4, <1>i DEF Owner, InFlightHasOwner
      <4>2. Holds(Owner(n))'
        BY <4>1, <2>3 DEF Holds
      <4> QED
        BY <4>1, <4>2
    <3> QED
      BY <3>1, <3>2
  <2>12. MarkedUntilSettled'
    <3> SUFFICES ASSUME NEW n \in Nonces, Owner(n)' # 0, ~settledOnce'[Owner(n)'], ~overlap'[Owner(n)']
                 PROVE  pool'[n].in_flight
      BY DEF MarkedUntilSettled
    <3>1. CASE n = w
      BY <3>1, <2>4
    <3>2. CASE n # w
      <4>1. Owner(n)' = Owner(n) /\ pool'[n] = pool[n]
        BY <3>2, <2>4 DEF Owner
      <4>2. Owner(n) \in Opps \ {e}
        BY <4>1, <2>5, <1>o
      <4> QED
        BY <4>1, <4>2, <2>3, <2>5, <1>i DEF MarkedUntilSettled
    <3> QED
      BY <3>1, <3>2
  <2> QED
    BY <2>8, <2>9, <2>10, <2>11, <2>12
<1>2. CASE TakeBlockhash
  <2>1. /\ Nonces = {}
        /\ cur' = cur + 1
        /\ UNCHANGED <<hand, overlap, settledOnce, tracker, pool>>
    BY <1>2 DEF TakeBlockhash, Nonces, poolVars, trackVars
  <2>2. \A o \in Opps : hand[o].nonce = NoNonce
    BY <2>1, <1>t
  <2>3. cur + 1 \in 0..MaxOpps
    BY <1>2, <1>i DEF TypeInv, TypeOK, CheckoutBounded, TakeBlockhash
  <2>4. FlagBeforeRelease'
    BY <2>1, <1>i, <1>t DEF FlagBeforeRelease, Opps
  <2>5. NoOverlapNoHolder'
    BY <2>1, <2>2, <2>3 DEF NoOverlapNoHolder, Opps
  <2> QED
    BY <2>1, <2>4, <2>5 DEF OwnerIsLatest, InFlightHasOwner, MarkedUntilSettled
<1>3. ASSUME NEW p \in Opps, NEW q \in Relays, Settle(p, q) PROVE Goal
  <2>1. /\ UNCHANGED <<cur, hand, overlap, pool>>
        /\ tracker[p][q] = "settling"
        /\ settledOnce' = [settledOnce EXCEPT ![p] = TRUE]
        /\ tracker' = [tracker EXCEPT ![p][q] =
                         IF ~settledOnce[p] /\ hand[p].nonce # NoNonce THEN "releasing" ELSE "done"]
    BY <1>3 DEF Settle, GoTo, poolVars, detVars
  <2>2. p <= cur
    BY <2>1, <1>i DEF TrackersStarted, Dispatched
  <2>3. \A o \in Opps : ~Holds(o) => ~Holds(o)'
    BY <2>1, <1>t DEF Holds
  <2>4. \A o \in Opps : Holds(o) /\ hand[o].nonce # NoNonce => Holds(o)'
    <3> SUFFICES ASSUME NEW o \in Opps, Holds(o), hand[o].nonce # NoNonce PROVE Holds(o)'
      OBVIOUS
    <3>1. CASE o # p
      BY <3>1, <2>1, <1>t DEF Holds
    <3>2. CASE o = p /\ ~settledOnce[p]
      <4>1. tracker'[p][q] = "releasing"
        BY <3>2, <2>1, <1>t
      <4> QED
        BY <3>2, <4>1 DEF Holds
    <3>3. CASE o = p /\ settledOnce[p]
      <4>1. PICK r \in Relays : tracker[p][r] = "releasing"
        BY <3>3 DEF Holds
      <4>2. tracker'[p][r] = "releasing"
        BY <4>1, <2>1, <1>t
      <4> QED
        BY <3>3, <4>2 DEF Holds
    <3> QED
      BY <3>1, <3>2, <3>3
  <2>5. FlagBeforeRelease'
    BY <2>1, <2>2, <1>i, <1>t DEF FlagBeforeRelease
  <2>6. OwnerIsLatest'
    BY <2>1, <1>i DEF OwnerIsLatest, Owner
  <2>7. NoOverlapNoHolder'
    <3>1. \A o \in 1..cur : \A s \in 1..(o - 1) : s \in Opps
      BY <1>t DEF Opps
    <3> QED
      BY <2>1, <2>3, <3>1, <1>i DEF NoOverlapNoHolder
  <2>8. InFlightHasOwner'
    <3> SUFFICES ASSUME NEW n \in Nonces, pool[n].in_flight
                 PROVE  Owner(n) # 0 /\ Holds(Owner(n))'
      BY <2>1 DEF InFlightHasOwner, Owner, Holds
    <3>1. Owner(n) # 0 /\ Holds(Owner(n))
      BY <1>i DEF InFlightHasOwner
    <3>2. PICK o \in Opps : o = Owner(n) /\ hand[o].nonce # NoNonce
      BY <3>1, <1>o, <1>t
    <3>3. Owner(n)' = o /\ Holds(o)'
      BY <3>1, <3>2, <2>1, <2>4 DEF Owner
    <3> QED
      BY <3>1, <3>2, <3>3 DEF Holds
  <2>9. MarkedUntilSettled'
    BY <2>1, <1>i, <1>o, <1>t DEF MarkedUntilSettled, Owner
  <2> QED
    BY <2>5, <2>6, <2>7, <2>8, <2>9
<1>4. ASSUME NEW p \in Opps, NEW q \in Relays, Release(p, q) PROVE Goal
  <2> DEFINE v == hand[p].nonce
  <2>1. /\ UNCHANGED <<cur, hand, overlap, settledOnce>>
        /\ tracker[p][q] = "releasing"
        /\ tracker' = [tracker EXCEPT ![p][q] = "done"]
        /\ pool' = [pool EXCEPT ![v].in_flight = FALSE]
    BY <1>4 DEF Release, MarkSettled, GoTo, detVars
  <2>2. /\ p <= cur
        /\ p \in 1..cur
        /\ settledOnce[p]
        /\ Holds(p)
    BY <2>1, <1>i DEF TrackersStarted, Dispatched, FlagBeforeRelease, Holds, Opps, TypeInv, TypeOK
  <2>3. \A n \in Nonces : /\ Owner(n)' = Owner(n)
                          /\ n = v => ~pool'[n].in_flight
                          /\ n # v => pool'[n] = pool[n]
    BY <2>1, <1>t DEF Owner, NonceState
  <2>4. \A o \in Opps : ~Holds(o) => ~Holds(o)'
    BY <2>1, <1>t DEF Holds
  <2>5. \A o \in Opps \ {p} : Holds(o) => Holds(o)'
    BY <2>1, <1>t DEF Holds
  <2>6. FlagBeforeRelease'
    BY <2>1, <2>2, <1>i, <1>t DEF FlagBeforeRelease
  <2>7. OwnerIsLatest'
    BY <2>1, <2>3, <1>i DEF OwnerIsLatest
  <2>8. NoOverlapNoHolder'
    <3>1. \A o \in 1..cur : \A s \in 1..(o - 1) : s \in Opps
      BY <1>t DEF Opps
    <3> QED
      BY <2>1, <2>4, <3>1, <1>i DEF NoOverlapNoHolder
  <2>9. InFlightHasOwner'
    <3> SUFFICES ASSUME NEW n \in Nonces, pool'[n].in_flight
                 PROVE  Owner(n)' # 0 /\ Holds(Owner(n))'
      BY DEF InFlightHasOwner
    <3>1. n # v /\ pool[n].in_flight
      BY <2>3
    <3>2. Owner(n) # 0 /\ Holds(Owner(n))
      BY <3>1, <1>i DEF InFlightHasOwner
    <3>3. Owner(n) \in Opps \ {p}
      BY <3>1, <3>2, <1>o
    <3>4. Owner(n)' = Owner(n) /\ settledOnce' = settledOnce
      BY <2>1, <2>3
    <3>5. ~settledOnce[Owner(n)] \/ \E r \in Relays : tracker'[Owner(n)][r] = "releasing"
      BY <3>2, <3>3, <2>1, <1>t DEF Holds
    <3> QED
      BY <3>2, <3>4, <3>5 DEF Holds
  <2>10. MarkedUntilSettled'
    <3> SUFFICES ASSUME NEW n \in Nonces, Owner(n) # 0, ~settledOnce[Owner(n)], ~overlap[Owner(n)],
                        n = v
                 PROVE  FALSE
      BY <2>1, <2>3, <1>i DEF MarkedUntilSettled
    <3>1. p # Owner(n)
      BY <2>2
    <3>2. p <= Owner(n)
      BY <2>2, <1>i DEF OwnerIsLatest
    <3>3. Owner(n) \in 1..cur /\ p \in 1..(Owner(n) - 1)
      <4>1. Owner(n) \in 1..cur /\ Owner(n) \in Int /\ p \in Int /\ p >= 1
        BY <2>2, <1>o, <1>t
      <4> QED
        BY <4>1, <3>1, <3>2
    <3>4. hand[Owner(n)].nonce = n
      BY <1>o
    <3> QED
      BY <3>3, <3>4, <2>2, <1>i, <1>t DEF NoOverlapNoHolder
  <2> QED
    BY <2>6, <2>7, <2>8, <2>9, <2>10
<1>5. CASE HoldingUnchanged
  <2>1. /\ UNCHANGED <<cur, hand, overlap, settledOnce>>
        /\ \A n \in Nonces : Owner(n)' = Owner(n) /\ (pool'[n].in_flight <=> pool[n].in_flight)
    BY <1>5 DEF HoldingUnchanged
  <2>2. \A o \in Opps, r \in Relays : /\ tracker'[o][r] = "releasing" <=> tracker[o][r] = "releasing"
                                      /\ tracker'[o][r] = "done" <=> tracker[o][r] = "done"
    BY <1>5 DEF HoldingUnchanged, At
  <2>3. \A o \in Opps : Holds(o)' <=> Holds(o)
    BY <2>1, <2>2 DEF Holds
  <2>4. FlagBeforeRelease'
    BY <2>1, <2>2, <1>i DEF FlagBeforeRelease
  <2>5. OwnerIsLatest'
    BY <2>1, <1>i DEF OwnerIsLatest
  <2>6. NoOverlapNoHolder'
    <3>1. \A o \in 1..cur : \A s \in 1..(o - 1) : s \in Opps
      BY <1>t DEF Opps
    <3> QED
      BY <2>1, <2>3, <3>1, <1>i DEF NoOverlapNoHolder
  <2>7. InFlightHasOwner'
    <3> SUFFICES ASSUME NEW n \in Nonces, pool'[n].in_flight
                 PROVE  Owner(n)' # 0 /\ Holds(Owner(n))'
      BY DEF InFlightHasOwner
    <3>1. Owner(n)' = Owner(n) /\ Owner(n) # 0 /\ Holds(Owner(n))
      BY <2>1, <1>i DEF InFlightHasOwner
    <3>2. Owner(n) \in Opps
      BY <3>1, <1>o
    <3> QED
      BY <3>1, <3>2, <2>1, <2>2 DEF Holds
  <2>8. MarkedUntilSettled'
    BY <2>1, <1>i DEF MarkedUntilSettled
  <2> QED
    BY <2>4, <2>5, <2>6, <2>7, <2>8
<1> QED
  BY <1>1, <1>2, <1>3, <1>4, <1>5, <1>i, HoldingSteps

(* The settled_once guard does what it is for: a nonce taken when nobody    *)
(* held it stays marked until a tracker of its own opportunity settles.     *)
THEOREM NoEarlyRelease == Spec => []MarkedUntilSettled
<1>1. HoldingInv => MarkedUntilSettled
  BY DEF HoldingInv
<1> QED
  BY InitHoldingInv, NextHoldingInv, <1>1, PTL DEF Spec

(* No nonce leaks: a nonce marked in flight always has a tracker, or a      *)
(* dispatch about to start one, that will release it.                       *)
THEOREM NoLeak == Spec => []NonceHasReleaser
<1>1. HoldingInv => NonceHasReleaser
  <2> SUFFICES ASSUME HoldingInv, NEW n \in Nonces, pool[n].in_flight
               PROVE  /\ Owner(n) \in 1..cur
                      /\ hand[Owner(n)].nonce = n
                      /\ Holds(Owner(n))
                      /\ \/ Owner(n) = cur /\ pc \in {"reserve", "send"}
                         \/ \E r \in Relays : tracker[Owner(n)][r] \notin {"none", "done"}
    BY DEF NonceHasReleaser
  <2>1. Owner(n) # 0 /\ Holds(Owner(n))
    BY DEF HoldingInv, InFlightHasOwner
  <2>2. Owner(n) \in 1..cur /\ Owner(n) \in Opps /\ hand[Owner(n)].nonce = n
    BY <2>1 DEF HoldingInv, OwnerIsLatest, TypeInv, TypeOK, Opps
  <2>3. ASSUME ~(Owner(n) = cur /\ pc \in {"reserve", "send"})
        PROVE  \E r \in Relays : tracker[Owner(n)][r] \notin {"none", "done"}
    <3>1. \A r \in Relays : tracker[Owner(n)][r] # "none"
      BY <2>2, <2>3 DEF HoldingInv, TrackersStarted, Dispatched
    <3>2. CASE ~settledOnce[Owner(n)]
      <4>1. \A r \in Relays : tracker[Owner(n)][r] # "done"
        BY <3>2, <2>2 DEF HoldingInv, FlagBeforeRelease
      <4> QED
        BY <3>1, <4>1
    <3>3. CASE \E r \in Relays : tracker[Owner(n)][r] = "releasing"
      BY <3>3
    <3> QED
      BY <2>1, <3>2, <3>3 DEF Holds
  <2> QED
    BY <2>1, <2>2, <2>3
<1> QED
  BY InitHoldingInv, NextHoldingInv, <1>1, PTL DEF Spec
=============================================================================
