------------------------------- MODULE PoolIndex -------------------------------
(***************************************************************************)
(* The pool state cache and its indices (src/src/state/cache.rs): a map of  *)
(* pools and two maps, by mint and by pair of mints, that say which pools   *)
(* trade what.  Every entry of a map has a lock of its own and no operation *)
(* holds two: the writers (Geyser task, fetch tasks, Sanctum refresh) run   *)
(* `upsert' entry by entry while the maintenance task runs `evict_stale'.   *)
(*                                                                          *)
(* A mint and a pair are both keys, and both indices are one function from  *)
(* keys to sets of pools; an empty set stands for an absent entry as well.  *)
(* What a pool's entry holds besides its age is left to module PoolFeed.    *)
(***************************************************************************)
EXTENDS Naturals

CONSTANTS Pools,
          Keys,         \* mints and normalized pairs
          KeysOf,       \* KeysOf[p] : mint a, mint b and pair of p, in the order of the code
          Virtual,      \* the Sanctum pools that bootstrap_pools makes up
          Writers       \* tasks that call upsert

ASSUME PoolIndexAssumption ==
  /\ KeysOf \in [Pools -> [1..3 -> Keys]]
  /\ Virtual \subseteq Pools

NoPool == "no pool"

ASSUME NoPoolAssumption == NoPool \notin Pools

VARIABLES cached,       \* cached[p] : the entry of p: absent, fresh, or older than EVICTION_AGE
          index,        \* index[k] : pools listed under k
          upserting,    \* upserting[w] : the pool that w writes, and its next index entry
          phase,        \* where evict_stale stands
          unvisited,    \* pools the retain has still to look at
          stale,        \* evicted pools whose index entries are still to be cleaned
          victim,       \* the one being cleaned, and the next index entry
          raced         \* history: an eviction ran during the last upsert of p

evictVars == <<phase, unvisited, stale, victim>>
vars      == <<cached, index, upserting, evictVars, raced>>

Phases == {"idle", "retain", "clean", "remove"}

(* A walk through the index entries of a pool; step 4 is past the last.     *)
Walk == [pool : Pools \cup {NoPool}, step : 1..4]
Rest == [pool |-> NoPool, step |-> 1]

TypeOK ==
  /\ cached \in [Pools -> {"absent", "fresh", "old"}]
  /\ index \in [Keys -> SUBSET Pools]
  /\ upserting \in [Writers -> Walk]
  /\ phase \in Phases
  /\ unvisited \subseteq Pools
  /\ stale \subseteq Pools
  /\ victim \in Walk
  /\ raced \in [Pools -> BOOLEAN]

(* StateCache::new and, before any task starts, the upserts of              *)
(* sanctum::bootstrap_pools.                                                *)
Init ==
  /\ cached = [p \in Pools |-> IF p \in Virtual THEN "fresh" ELSE "absent"]
  /\ index = [k \in Keys |-> {p \in Virtual : \E i \in 1..3 : KeysOf[p][i] = k}]
  /\ upserting = [w \in Writers |-> Rest]
  /\ phase = "idle"
  /\ unvisited = {}
  /\ stale = {}
  /\ victim = Rest
  /\ raced = [p \in Pools |-> FALSE]

Written(p)  == \E w \in Writers : upserting[w].pool = p
Evicting    == phase # "idle"

-----------------------------------------------------------------------------
(* upsert                                                                   *)

(* A virtual pool is only ever rewritten: update_virtual_pool begins with   *)
(* get_any and ends there if the cache has no such pool.                    *)
BeginUpsert(w, p) ==
  /\ upserting[w] = Rest
  /\ p \in Virtual => cached[p] # "absent"
  /\ upserting' = [upserting EXCEPT ![w] = [pool |-> p, step |-> 1]]
  /\ raced' = [raced EXCEPT ![p] = Evicting]
  /\ UNCHANGED <<cached, index, evictVars>>

(* Mutated form of the next action: both mints are counted as one entry.    *)
IndexPoolStriding(w) ==
  LET p == upserting[w].pool
      i == upserting[w].step
  IN  /\ p # NoPool /\ i \in 1..3
      /\ index' = [index EXCEPT ![KeysOf[p][i]] = @ \cup {p}]
      /\ upserting' = [upserting EXCEPT ![w].step = i + 2]
      /\ UNCHANGED <<cached, evictVars, raced>>

(* token_to_pools for either mint, then pair_to_pools: the entry is found   *)
(* or made, and the pool put in, under the lock of that entry.              *)
IndexPool(w) ==
  LET p == upserting[w].pool
      i == upserting[w].step
  IN  /\ p # NoPool /\ i \in 1..3
      /\ index' = [index EXCEPT ![KeysOf[p][i]] = @ \cup {p}]
      /\ upserting' = [upserting EXCEPT ![w].step = i + 1]
      /\ UNCHANGED <<cached, evictVars, raced>>

(* Last, the entry itself, with a new last_updated.                         *)
StorePool(w) ==
  LET p == upserting[w].pool
  IN  /\ p # NoPool /\ upserting[w].step = 4
      /\ cached' = [cached EXCEPT ![p] = "fresh"]
      /\ upserting' = [upserting EXCEPT ![w] = Rest]
      /\ UNCHANGED <<index, evictVars, raced>>

(* Ten minutes without an update.                                           *)
Age(p) ==
  /\ cached[p] = "fresh"
  /\ cached' = [cached EXCEPT ![p] = "old"]
  /\ UNCHANGED <<index, upserting, evictVars, raced>>

-----------------------------------------------------------------------------
(* evict_stale                                                              *)

BeginEvict ==
  /\ phase = "idle"
  /\ phase' = "retain"
  /\ unvisited' = Pools
  /\ raced' = [p \in Pools |-> raced[p] \/ Written(p)]
  /\ UNCHANGED <<cached, index, upserting, stale, victim>>

(* retain goes through the map shard by shard, in an order of its own.      *)
Retain(p) ==
  /\ phase = "retain" /\ p \in unvisited
  /\ unvisited' = unvisited \ {p}
  /\ IF cached[p] = "old"
     THEN /\ cached' = [cached EXCEPT ![p] = "absent"]
          /\ stale' = stale \cup {p}
     ELSE UNCHANGED <<cached, stale>>
  /\ UNCHANGED <<index, upserting, phase, victim, raced>>

EndRetain ==
  /\ phase = "retain" /\ unvisited = {}
  /\ phase' = "clean"
  /\ UNCHANGED <<cached, index, upserting, unvisited, stale, victim, raced>>

NextVictim(p) ==
  /\ phase = "clean" /\ victim = Rest /\ p \in stale
  /\ victim' = [pool |-> p, step |-> 1]
  /\ UNCHANGED <<cached, index, upserting, phase, unvisited, stale, raced>>

VictimKey == KeysOf[victim.pool][victim.step]

(* The pool is taken out of one of its entries; if none is left the lock is *)
(* dropped and the entry removed in a step of its own.                      *)
CleanEntry ==
  /\ phase = "clean" /\ victim.pool # NoPool /\ victim.step \in 1..3
  /\ index' = [index EXCEPT ![VictimKey] = @ \ {victim.pool}]
  /\ IF index'[VictimKey] = {} /\ index[VictimKey] # {}
     THEN phase' = "remove" /\ UNCHANGED victim
     ELSE victim' = [victim EXCEPT !.step = @ + 1] /\ UNCHANGED phase
  /\ UNCHANGED <<cached, upserting, unvisited, stale, raced>>

(* Mutated form of the next action: the entry is removed under every key of *)
(* the pool.                                                                *)
RemoveEntries ==
  /\ phase = "remove"
  /\ index' = [k \in Keys |-> IF \E i \in 1..3 : KeysOf[victim.pool][i] = k THEN {} ELSE index[k]]
  /\ phase' = "clean"
  /\ victim' = [victim EXCEPT !.step = @ + 1]
  /\ UNCHANGED <<cached, upserting, unvisited, stale, raced>>

RemoveEntry ==
  /\ phase = "remove"
  /\ index' = [index EXCEPT ![VictimKey] = {}]
  /\ phase' = "clean"
  /\ victim' = [victim EXCEPT !.step = @ + 1]
  /\ UNCHANGED <<cached, upserting, unvisited, stale, raced>>

(* Mutated form of the next action: the pair index is not cleaned.          *)
VictimDoneByMints ==
  /\ phase = "clean" /\ victim.pool # NoPool /\ victim.step = 3
  /\ stale' = stale \ {victim.pool}
  /\ victim' = Rest
  /\ UNCHANGED <<cached, index, upserting, phase, unvisited, raced>>

VictimDone ==
  /\ phase = "clean" /\ victim.pool # NoPool /\ victim.step = 4
  /\ stale' = stale \ {victim.pool}
  /\ victim' = Rest
  /\ UNCHANGED <<cached, index, upserting, phase, unvisited, raced>>

EndEvict ==
  /\ phase = "clean" /\ victim = Rest /\ stale = {}
  /\ phase' = "idle"
  /\ UNCHANGED <<cached, index, upserting, unvisited, stale, victim, raced>>

-----------------------------------------------------------------------------
Upsert(w) == (\E p \in Pools : BeginUpsert(w, p)) \/ IndexPool(w) \/ StorePool(w)

EvictStale ==
  \/ BeginEvict \/ (\E p \in Pools : Retain(p)) \/ EndRetain
  \/ (\E p \in Pools : NextVictim(p)) \/ CleanEntry \/ RemoveEntry \/ VictimDone \/ EndEvict

Next == (\E w \in Writers : Upsert(w)) \/ (\E p \in Pools : Age(p)) \/ EvictStale

Spec == Init /\ [][Next]_vars

(***************************************************************************)
(* Properties                                                               *)
(***************************************************************************)

Listed(p) == \A i \in 1..3 : p \in index[KeysOf[p][i]]

(* A cached pool is found under both mints and its pair, unless an eviction *)
(* ran while it was last written: only such a race can hide a pool, whether *)
(* it was the one evicted or merely shares a mint with it, and the next     *)
(* update brings it back.                                                   *)
FoundUnlessRaced ==
  \A p \in Pools : cached[p] # "absent" /\ ~Written(p) /\ ~raced[p] => Listed(p)

(* No index lists a pool for ever that the cache no longer holds: such a    *)
(* pool is being written, or evict_stale has not reached that entry yet.    *)
NoDanglingIndex ==
  \A p \in Pools, i \in 1..3 :
    p \in index[KeysOf[p][i]] /\ cached[p] = "absent" =>
      \/ Written(p)
      \/ /\ p \in stale
         /\ victim.pool = p => victim.step <= i

=============================================================================
