------------------------------ MODULE NoncePool ------------------------------
(***************************************************************************)
(* The durable-nonce pool of the cexdex binary (src/src/cexdex/nonce.rs).   *)
(* The state of each nonce sits behind a lock of its own (a DashMap         *)
(* entry), so the pool as a whole is not read atomically: `checkout' reads  *)
(* the entries one by one and writes the winner in a later step, while      *)
(* confirmation trackers call `mark_settled' and the Geyser task calls      *)
(* `update_cached_hash'.  Nonces are numbered in configuration order.       *)
(* Hash values are abstracted to version numbers: version v of a nonce is   *)
(* the hash it holds after v advances.  Instants are abstracted to a        *)
(* logical clock; 0 is the epoch given to every nonce at start-up.          *)
(***************************************************************************)
EXTENDS Integers

CONSTANT NumNonces      \* length of CEXDEX_SEARCHER_NONCE_ACCOUNTS; 0 = nonce-less mode

ASSUME NumNoncesAssumption == NumNonces \in Nat

Nonces  == 1..NumNonces
NoNonce == 0
NoHash  == -1           \* cached_hash = None

VARIABLES pool,         \* pool[n] : the NonceState of n
          scan          \* the locals of the one running checkout: next index, best so far

poolVars == <<pool, scan>>

NonceState == [last_used : Nat, in_flight : BOOLEAN, cached_hash : Nat \cup {NoHash}]
Candidate  == [nonce : Nonces \cup {NoNonce}, last_used : Nat, in_flight : BOOLEAN,
               hash : Nat \cup {NoHash}]

NoBest   == [nonce |-> NoNonce, last_used |-> 0, in_flight |-> FALSE, hash |-> NoHash]
FreshScan == [cursor |-> 1, best |-> NoBest]

PoolTypeOK ==
  /\ pool \in [Nonces -> NonceState]
  /\ scan \in [cursor : 1..(NumNonces + 1), best : Candidate]
  /\ scan.best.nonce # NoNonce => scan.best.hash \in Nat

(* NoncePool::new: nothing used, nothing in flight, no hash known yet.      *)
PoolInit ==
  /\ pool = [n \in Nonces |-> [last_used |-> 0, in_flight |-> FALSE, cached_hash |-> NoHash]]
  /\ scan = FreshScan

(* What `checkout' clones out of the entry of n.                            *)
Read(n) == [nonce |-> n, last_used |-> pool[n].last_used,
            in_flight |-> pool[n].in_flight, hash |-> pool[n].cached_hash]

(* Mutated forms of the order, used only to show that the properties can    *)
(* fail: one that forgets in_flight, one that takes the newest.             *)
PreferredByAgeOnly(c, b) == c.last_used < b.last_used
PreferredMostRecent(c, b) == c.in_flight = b.in_flight /\ c.last_used > b.last_used

(* Candidate c is taken over the best so far b: a free nonce before one in  *)
(* flight, then the oldest last_used, then configuration order.             *)
Preferred(c, b) ==
  \/ ~c.in_flight /\ b.in_flight
  \/ /\ c.in_flight = b.in_flight
     /\ \/ c.last_used < b.last_used
        \/ c.last_used = b.last_used /\ c.nonce < b.nonce

(***************************************************************************)
(* checkout, first half: one iteration of the loop over the nonces.         *)
(***************************************************************************)
ScanEntry ==
  /\ scan.cursor \in Nonces
  /\ LET c == Read(scan.cursor)
         wins == /\ c.hash # NoHash
                 /\ scan.best.nonce = NoNonce \/ Preferred(c, scan.best)
     IN  scan' = [cursor |-> scan.cursor + 1, best |-> IF wins THEN c ELSE scan.best]
  /\ UNCHANGED pool

ScanDone == scan.cursor = NumNonces + 1

(* checkout, second half: `let (_, pk, prev_state) = best?' found a winner. *)
(* Whatever happened to the entry since it was read, it is written as used  *)
(* now and in flight; the hash handed out is the one read during the loop.  *)
TakeWinner(now) ==
  /\ ScanDone /\ scan.best.nonce # NoNonce
  /\ pool' = [pool EXCEPT ![scan.best.nonce].last_used = now,
                          ![scan.best.nonce].in_flight = TRUE]
  /\ scan' = FreshScan

(* ... or no nonce had a hash, and checkout returns None.                   *)
NoWinner ==
  /\ ScanDone /\ scan.best.nonce = NoNonce
  /\ scan' = FreshScan
  /\ UNCHANGED pool

MarkSettled(n) == pool' = [pool EXCEPT ![n].in_flight = FALSE]

UpdateCachedHash(n, h) == pool' = [pool EXCEPT ![n].cached_hash = h]

=============================================================================
