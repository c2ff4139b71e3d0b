------------------------------ MODULE EngineFeeds ------------------------------
(***************************************************************************)
(* The values that background tasks keep fresh: the blockhash               *)
(* (src/src/state/blockhash.rs), the tip floor (src/src/state/tip_floor.rs) *)
(* and the price of SOL (src/src/feed/binance.rs, src/src/feed/             *)
(* price_store.rs).  cexdex runs all three tasks, the main engine the first *)
(* two, the market maker the last one.  Who reads a value that has got too  *)
(* old gets none.                                                           *)
(*                                                                          *)
(* The blockhash has a clock, because its age when it is read adds to the   *)
(* time it took to come; the other two get stale at any time.               *)
(***************************************************************************)
EXTENDS Naturals

CONSTANTS HashEvery, \* pause between two requests of a blockhash, 2 s
          HashLimit, \* longest request, 5 s
          HashStale  \* STALE_THRESHOLD of a blockhash, 5 s

ASSUME FeedsAssumption == {HashEvery, HashLimit, HashStale} \subseteq Nat \ {0}

VARIABLES hash,       \* the blockhash in the cache: [age, issued], both ages
          request,    \* the blockhash task: [stage, age]
          tipLink, tipSilent, floor,
          priceLink, priceSilent, price,
          signal      \* the shutdown signal

hashVars  == <<hash, request>>
tipVars   == <<tipLink, tipSilent, floor>>
priceVars == <<priceLink, priceSilent, price>>
feedsVars == <<hashVars, tipVars, priceVars, signal>>

Tip   == INSTANCE FeedLink WITH Fallback <- TRUE, link <- tipLink, silent <- tipSilent,
                                value <- floor, stopping <- signal
Price == INSTANCE FeedLink WITH Fallback <- FALSE, link <- priceLink, silent <- priceSilent,
                                value <- price, stopping <- signal

NoHash == [age |-> HashStale, issued |-> HashStale + HashLimit]

\* main asks for a blockhash and for the tip floor once before it starts the tasks.
FeedsInit ==
  /\ hash \in {NoHash, [age |-> 0, issued |-> 0]}
  /\ request = [stage |-> "sleeping", age |-> 0]
  /\ Tip!LinkInit({"none", "fresh"})
  /\ Price!LinkInit({"none"})
  /\ signal = FALSE

-----------------------------------------------------------------------------
(* The blockhash.                                                           *)

AskHash ==
  /\ request.stage = "sleeping" /\ request.age >= HashEvery
  /\ request' = [stage |-> "asking", age |-> 0]
  /\ UNCHANGED <<hash, tipVars, priceVars, signal>>

\* The blockhash may be as old as the request that brought it.
HashArrives ==
  /\ request.stage = "asking"
  /\ hash' = [age |-> 0, issued |-> request.age]
  /\ request' = [stage |-> "sleeping", age |-> 0]
  /\ UNCHANGED <<tipVars, priceVars, signal>>

\* Mutated form of the next action: a failed request renews the old blockhash.
HashFailsRenewing ==
  /\ request.stage = "asking"
  /\ hash' = [hash EXCEPT !.age = 0]
  /\ request' = [stage |-> "sleeping", age |-> 0]
  /\ UNCHANGED <<tipVars, priceVars, signal>>

\* A failed request leaves the blockhash alone.
HashFails ==
  /\ request.stage = "asking"
  /\ request' = [stage |-> "sleeping", age |-> 0]
  /\ UNCHANGED <<hash, tipVars, priceVars, signal>>

\* The signal is seen between two requests.
HashStops ==
  /\ signal /\ request.stage = "sleeping"
  /\ request' = [stage |-> "ended", age |-> 0]
  /\ UNCHANGED <<hash, tipVars, priceVars, signal>>

-----------------------------------------------------------------------------
(* The links, the signal and time.                                          *)

TipStep   == Tip!LinkNext /\ UNCHANGED <<hashVars, priceVars, signal>>
PriceStep == Price!LinkNext /\ UNCHANGED <<hashVars, tipVars, signal>>

FeedsInterrupt == ~signal /\ signal' = TRUE /\ UNCHANGED <<hashVars, tipVars, priceVars>>

Capped(x, most) == IF x > most THEN most ELSE x

\* A request ends within its timeout.
FeedsTick ==
  /\ request.stage = "asking" => request.age < HashLimit
  /\ request' = [request EXCEPT !.age = IF request.stage = "ended" THEN 0
                                        ELSE Capped(@ + 1, HashEvery + HashLimit)]
  /\ hash' = [age    |-> Capped(hash.age + 1, HashStale),
              issued |-> Capped(hash.issued + 1, HashStale + HashLimit)]
  /\ UNCHANGED <<tipVars, priceVars, signal>>

FeedsNext ==
  \/ AskHash \/ HashArrives \/ HashFails \/ HashStops
  \/ TipStep \/ PriceStep
  \/ FeedsInterrupt \/ FeedsTick

FeedsSpec == FeedsInit /\ [][FeedsNext]_feedsVars

(* Time passes, every task is scheduled, and a node or a server that is     *)
(* asked again and again answers at last.                                   *)
FeedsFairness ==
  /\ WF_feedsVars(FeedsTick) /\ WF_feedsVars(AskHash) /\ WF_feedsVars(HashFails) /\ SF_feedsVars(HashArrives)
  /\ SF_feedsVars(HashStops)
  /\ Tip!LinkFairness /\ Price!LinkFairness

FairFeedsSpec == FeedsSpec /\ FeedsFairness

-----------------------------------------------------------------------------
(* Properties.                                                              *)

\* A blockhash that BlockhashCache::get returns is younger than its age limit
\* and the longest request together, whatever became of the requests before.
\* (BlockhashCache::get, fetch_and_update)
BlockhashUsable == hash.age < HashStale => hash.issued < HashStale + HashLimit

\* A value that nobody can use any more is replaced, unless the program is
\* signal: failed requests, refused and silent connections are got over.
\* (run_blockhash_loop, run_tip_floor_loop, run_solusdc_loop)
FeedsRecover ==
  /\ hash.age >= HashStale ~> hash.age < HashStale \/ signal
  /\ floor # "fresh" ~> floor = "fresh" \/ signal
  /\ price # "fresh" ~> price = "fresh" \/ signal

\* The signal ends all three tasks, wherever it meets them.
\* (run_blockhash_loop, run_tip_floor_loop, run_solusdc_loop)
FeedsStop ==
  signal ~> request.stage = "ended" /\ tipLink = "ended" /\ priceLink = "ended"
================================================================================
