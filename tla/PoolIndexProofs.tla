--------------------------- MODULE PoolIndexProofs ---------------------------
(***************************************************************************)
(* Theorems about the cache and its indices, for any pools, mints, pairs    *)
(* and number of writers.                                                   *)
(***************************************************************************)
EXTENDS PoolIndex, TLAPS

USE PoolIndexAssumption, NoPoolAssumption

(* Where the eviction stands, and what it has in hand.                      *)
EvictionShape ==
  /\ phase = "idle" => stale = {}
  /\ phase \in {"idle", "retain"} => victim = Rest
  /\ victim.pool = NoPool => victim = Rest
  /\ victim.pool # NoPool => victim.pool \in stale
  /\ phase = "remove" => victim.pool # NoPool /\ victim.step \in 1..3
  /\ \A w \in Writers : upserting[w].pool = NoPool => upserting[w] = Rest

ShapeInv == TypeOK /\ EvictionShape

(* An eviction races with every pool that is written while it runs, and     *)
(* touches no other pool that is cached.                                    *)
RacesSeen ==
  /\ \A p \in Pools : Evicting /\ Written(p) => raced[p]
  /\ \A p \in stale : cached[p] = "absent" \/ raced[p]
  /\ phase = "remove" => \A p \in index[VictimKey] : raced[p]

(* w has listed p in every entry it is past.                                *)
Listing(w, p) ==
  /\ upserting[w].pool = p
  /\ \A i \in 1..3 : i < upserting[w].step => p \in index[KeysOf[p][i]]

(* A pool out of the way of evictions is listed, or a writer that saw none  *)
(* is listing it.                                                           *)
ListedOrListing ==
  \A p \in Pools :
    ~raced[p] /\ (cached[p] # "absent" \/ Written(p)) =>
      Listed(p) \/ \E w \in Writers : Listing(w, p)

IndexInv == ShapeInv /\ RacesSeen /\ ListedOrListing

-----------------------------------------------------------------------------
LEMMA InitShape == Init => ShapeInv
<1> SUFFICES ASSUME Init PROVE ShapeInv
  OBVIOUS
<1>1. \A k \in Keys : {p \in Virtual : \E i \in 1..3 : KeysOf[p][i] = k} \subseteq Pools
  OBVIOUS
<1>2. index \in [Keys -> SUBSET Pools]
  BY <1>1 DEF Init
<1> QED
  BY <1>2 DEF Init, ShapeInv, EvictionShape, TypeOK, Walk, Rest, Phases

(* Every step keeps the types and the shape of the eviction.                *)
LEMMA NextShape == ShapeInv /\ [Next]_vars => ShapeInv'
<1> SUFFICES ASSUME ShapeInv, [Next]_vars PROVE ShapeInv'
  OBVIOUS
<1> USE DEF ShapeInv, EvictionShape, TypeOK, Walk, Rest, Phases, evictVars
<1>1. ASSUME NEW w \in Writers, NEW p \in Pools, BeginUpsert(w, p) PROVE ShapeInv'
  BY <1>1 DEF BeginUpsert, Evicting
<1>2. ASSUME NEW w \in Writers, IndexPool(w) PROVE ShapeInv'
  <2> DEFINE p == upserting[w].pool
             i == upserting[w].step
  <2>1. p \in Pools /\ i \in 1..3 /\ KeysOf[p][i] \in Keys
    BY <1>2 DEF IndexPool
  <2>2. index' \in [Keys -> SUBSET Pools]
    BY <1>2, <2>1 DEF IndexPool
  <2>3. upserting' \in [Writers -> Walk]
    BY <1>2, <2>1 DEF IndexPool
  <2> QED
    BY <1>2, <2>1, <2>2, <2>3 DEF IndexPool
<1>3. ASSUME NEW w \in Writers, StorePool(w) PROVE ShapeInv'
  BY <1>3 DEF StorePool
<1>4. ASSUME NEW p \in Pools, Age(p) PROVE ShapeInv'
  BY <1>4 DEF Age
<1>5. CASE BeginEvict
  BY <1>5 DEF BeginEvict, Written
<1>6. ASSUME NEW p \in Pools, Retain(p) PROVE ShapeInv'
  BY <1>6 DEF Retain
<1>7. CASE EndRetain
  BY <1>7 DEF EndRetain
<1>8. ASSUME NEW p \in Pools, NextVictim(p) PROVE ShapeInv'
  BY <1>8 DEF NextVictim
<1>9. CASE CleanEntry
  <2>1. victim.pool \in Pools /\ VictimKey \in Keys
    BY <1>9 DEF CleanEntry, VictimKey
  <2>2. index' \in [Keys -> SUBSET Pools]
    BY <1>9, <2>1 DEF CleanEntry
  <2>3. CASE phase' = "remove" /\ UNCHANGED victim
    BY <1>9, <2>2, <2>3 DEF CleanEntry
  <2>4. CASE victim' = [victim EXCEPT !.step = @ + 1] /\ UNCHANGED phase
    BY <1>9, <2>2, <2>4 DEF CleanEntry
  <2> QED
    BY <1>9, <2>3, <2>4 DEF CleanEntry
<1>10. CASE RemoveEntry
  <2>1. VictimKey \in Keys
    BY <1>10 DEF RemoveEntry, VictimKey
  <2>2. index' \in [Keys -> SUBSET Pools]
    BY <1>10, <2>1 DEF RemoveEntry
  <2> QED
    BY <1>10, <2>2 DEF RemoveEntry
<1>11. CASE VictimDone
  BY <1>11 DEF VictimDone
<1>12. CASE EndEvict
  BY <1>12 DEF EndEvict
<1>13. CASE UNCHANGED vars
  BY <1>13 DEF vars
<1> QED
  BY <1>1, <1>2, <1>3, <1>4, <1>5, <1>6, <1>7, <1>8, <1>9, <1>10, <1>11, <1>12, <1>13
     DEF Next, Upsert, EvictStale

(* The variables keep their types in every behaviour.                       *)
THEOREM IndexTypeCorrect == Spec => []TypeOK
<1>1. ShapeInv => TypeOK
  BY DEF ShapeInv
<1> QED
  BY InitShape, NextShape, <1>1, PTL DEF Spec

-----------------------------------------------------------------------------
(* A step of an upsert leaves alone what the eviction has in hand.          *)
LEMMA VictimKeyType ==
  ASSUME ShapeInv, phase = "remove"
  PROVE  VictimKey \in Keys /\ victim.pool \in Pools /\ victim.step \in 1..3
  BY DEF ShapeInv, EvictionShape, TypeOK, Walk, VictimKey

LEMMA NextRacesSeen == ShapeInv /\ RacesSeen /\ [Next]_vars => RacesSeen'
<1> SUFFICES ASSUME ShapeInv, RacesSeen, [Next]_vars PROVE RacesSeen'
  OBVIOUS
<1>t. TypeOK /\ EvictionShape
  BY DEF ShapeInv
<1> USE DEF RacesSeen, evictVars
<1>1. ASSUME NEW w \in Writers, NEW p \in Pools, BeginUpsert(w, p) PROVE RacesSeen'
  <2>1. /\ raced'[p] = Evicting
        /\ \A q \in Pools : q # p => raced'[q] = raced[q]
        /\ UNCHANGED <<cached, index, phase, unvisited, stale, victim>>
    BY <1>1, <1>t DEF BeginUpsert, TypeOK
  <2>2. \A q \in Pools : q # p => (Written(q)' => Written(q))
    BY <1>1, <1>t DEF BeginUpsert, TypeOK, Written
  <2>3. UNCHANGED <<Evicting, VictimKey>>
    BY <2>1 DEF Evicting, VictimKey
  <2>r. Evicting => \A q \in Pools : raced[q] => raced'[q]
    BY <2>1
  <2>4. \A q \in stale' : cached'[q] = "absent" \/ raced'[q]
    BY <2>1, <2>r, <1>t DEF EvictionShape, Evicting, TypeOK
  <2>5. phase' = "remove" => \A q \in index'[VictimKey'] : raced'[q]
    <3>1. phase = "remove" => index[VictimKey] \subseteq Pools
      BY <1>t, VictimKeyType DEF ShapeInv, TypeOK
    <3>2. phase = "remove" => Evicting
      BY DEF Evicting
    <3> QED
      BY <2>1, <2>3, <2>r, <3>1, <3>2
  <2>6. Evicting' => \A q \in Pools : Written(q)' => raced'[q]
    BY <2>1, <2>2, <2>3
  <2> QED
    BY <2>4, <2>5, <2>6
<1>2. ASSUME NEW w \in Writers, IndexPool(w) PROVE RacesSeen'
  <2> DEFINE p == upserting[w].pool
             i == upserting[w].step
  <2>1. p \in Pools /\ i \in 1..3
    BY <1>2, <1>t DEF IndexPool, TypeOK, Walk
  <2>2. \A q \in Pools : Written(q)' <=> Written(q)
    BY <1>2, <1>t DEF IndexPool, Written, TypeOK, Walk
  <2>3. phase = "remove" => \A q \in index'[VictimKey] : q = p \/ q \in index[VictimKey]
    BY <1>2, <1>t, VictimKeyType DEF IndexPool, TypeOK, ShapeInv
  <2>4. phase = "remove" => raced[p]
    BY <2>1 DEF Evicting, Written
  <2> QED
    BY <1>2, <2>1, <2>2, <2>3, <2>4 DEF IndexPool, Evicting, VictimKey
<1>3. ASSUME NEW w \in Writers, StorePool(w) PROVE RacesSeen'
  <2> DEFINE p == upserting[w].pool
  <2>1. p \in Pools /\ Written(p)
    BY <1>3, <1>t DEF StorePool, TypeOK, Walk, Written
  <2>2. \A q \in Pools : Written(q)' => Written(q)
    BY <1>3, <1>t DEF StorePool, Written, TypeOK, Rest, Walk
  <2>3. p \in stale => raced[p]
    BY <2>1, <1>t DEF EvictionShape, Evicting
  <2>4. \A q \in Pools : q # p => cached'[q] = cached[q]
    BY <1>3, <1>t DEF StorePool, TypeOK
  <2>5. \A q \in stale' : cached'[q] = "absent" \/ raced'[q]
    BY <1>3, <1>t, <2>3, <2>4 DEF StorePool, TypeOK
  <2> QED
    BY <1>3, <2>2, <2>5 DEF StorePool, Evicting, VictimKey
<1>4. ASSUME NEW p \in Pools, Age(p) PROVE RacesSeen'
  BY <1>4, <1>t DEF Age, TypeOK, Evicting, Written, VictimKey
<1>5. CASE BeginEvict
  <2>1. \A p \in Pools : Written(p)' <=> Written(p)
    BY <1>5 DEF BeginEvict, Written
  <2>2. stale' = {} /\ phase' = "retain"
    BY <1>5, <1>t DEF BeginEvict, EvictionShape
  <2> QED
    BY <1>5, <1>t, <2>1, <2>2 DEF BeginEvict, TypeOK
<1>6. ASSUME NEW p \in Pools, Retain(p) PROVE RacesSeen'
  BY <1>6, <1>t DEF Retain, TypeOK, Evicting, Written
<1>7. CASE EndRetain
  BY <1>7, <1>t DEF EndRetain, Evicting, Written
<1>8. ASSUME NEW p \in Pools, NextVictim(p) PROVE RacesSeen'
  BY <1>8, <1>t DEF NextVictim, Evicting, Written
<1>9. CASE CleanEntry
  <2>1. phase' = "remove" => index'[VictimKey] = {} /\ VictimKey' = VictimKey
    BY <1>9 DEF CleanEntry, VictimKey
  <2> QED
    BY <1>9, <2>1 DEF CleanEntry, Evicting, Written
<1>10. CASE RemoveEntry
  BY <1>10 DEF RemoveEntry, Evicting, Written
<1>11. CASE VictimDone
  BY <1>11, <1>t DEF VictimDone, Evicting, Written
<1>12. CASE EndEvict
  BY <1>12, <1>t DEF EndEvict, Evicting, Written
<1>13. CASE UNCHANGED vars
  BY <1>13 DEF vars, Evicting, Written, VictimKey
<1> QED
  BY <1>1, <1>2, <1>3, <1>4, <1>5, <1>6, <1>7, <1>8, <1>9, <1>10, <1>11, <1>12, <1>13
     DEF Next, Upsert, EvictStale

LEMMA NextListed == IndexInv /\ [Next]_vars => ListedOrListing'
<1> SUFFICES ASSUME IndexInv, [Next]_vars,
                    NEW p \in Pools,
                    ~raced'[p],
                    cached'[p] # "absent" \/ Written(p)'
             PROVE  Listed(p)' \/ \E w \in Writers : Listing(w, p)'
  BY DEF ListedOrListing
<1>t. TypeOK /\ EvictionShape
  BY DEF IndexInv, ShapeInv
<1>r. RacesSeen /\ ListedOrListing
  BY DEF IndexInv
<1>k. \A q \in Pools, i \in 1..3 : KeysOf[q][i] \in Keys
  OBVIOUS
<1> DEFINE Before == Listed(p) \/ \E w \in Writers : Listing(w, p)
           KeepsIndex == \A i \in 1..3 : p \in index[KeysOf[p][i]] => p \in index'[KeysOf[p][i]]
(* Steps that keep p's entries and its writers keep the claim.              *)
<1>u. ASSUME ~raced[p], cached[p] # "absent" \/ Written(p), KeepsIndex, UNCHANGED upserting
      PROVE  Listed(p)' \/ \E w \in Writers : Listing(w, p)'
  BY <1>u, <1>r DEF ListedOrListing, Listed, Listing
<1>1. ASSUME NEW w \in Writers, NEW q \in Pools, BeginUpsert(w, q) PROVE Listed(p)' \/ \E v \in Writers : Listing(v, p)'
  <2>1. CASE q = p
    <3>1. upserting'[w].pool = p /\ upserting'[w].step = 1
      BY <1>1, <2>1, <1>t DEF BeginUpsert, TypeOK
    <3> QED
      BY <3>1 DEF Listing
  <2>2. CASE q # p
    <3>1. ~raced[p] /\ UNCHANGED index /\ UNCHANGED cached
      BY <1>1, <2>2, <1>t DEF BeginUpsert, TypeOK
    <3>2. \A v \in Writers : upserting[v].pool = p => upserting'[v] = upserting[v]
      BY <1>1, <1>t DEF BeginUpsert, TypeOK, Rest
    <3>3. Written(p)' => Written(p)
      BY <1>1, <2>2, <1>t DEF BeginUpsert, TypeOK, Written
    <3> QED
      BY <3>1, <3>2, <3>3, <1>r DEF ListedOrListing, Listed, Listing
  <2> QED
    BY <2>1, <2>2
<1>2. ASSUME NEW w \in Writers, IndexPool(w) PROVE Listed(p)' \/ \E v \in Writers : Listing(v, p)'
  <2> DEFINE q == upserting[w].pool
             j == upserting[w].step
  <2>1. q \in Pools /\ j \in 1..3
    BY <1>2, <1>t DEF IndexPool, TypeOK, Walk
  <2>2. /\ upserting'[w].pool = q /\ upserting'[w].step = j + 1
        /\ \A v \in Writers : v # w => upserting'[v] = upserting[v]
        /\ q \in index'[KeysOf[q][j]]
        /\ UNCHANGED <<cached, raced>>
    BY <1>2, <1>t, <1>k, <2>1 DEF IndexPool, TypeOK, Walk
  <2>3. KeepsIndex
    BY <1>2, <1>t, <1>k, <2>1 DEF IndexPool, TypeOK
  <2>4. Written(p)' => Written(p)
    BY <2>2 DEF Written
  <2>5. Before
    BY <1>r, <2>2, <2>4 DEF ListedOrListing
  <2>6. CASE Listed(p)
    BY <2>3, <2>6 DEF Listed
  <2>7. ASSUME NEW v \in Writers, Listing(v, p) PROVE Listing(v, p)'
    <3>1. CASE v # w
      BY <3>1, <2>2, <2>3, <2>7 DEF Listing
    <3>2. CASE v = w
      <4>1. q = p
        BY <3>2, <2>7 DEF Listing
      <4>2. \A i \in 1..3 : i < j + 1 => i < j \/ i = j
        BY <2>1
      <4> QED
        BY <3>2, <4>1, <4>2, <2>2, <2>3, <2>7 DEF Listing
    <3> QED
      BY <3>1, <3>2
  <2> QED
    BY <2>5, <2>6, <2>7
<1>3. ASSUME NEW w \in Writers, StorePool(w) PROVE Listed(p)' \/ \E v \in Writers : Listing(v, p)'
  <2> DEFINE q == upserting[w].pool
  <2>1. q \in Pools /\ upserting[w].step = 4 /\ Written(q)
    BY <1>3, <1>t DEF StorePool, TypeOK, Walk, Written
  <2>2. /\ \A v \in Writers : v # w => upserting'[v] = upserting[v]
        /\ \A r \in Pools : r # q => cached'[r] = cached[r]
        /\ UNCHANGED <<index, raced>>
    BY <1>3, <1>t DEF StorePool, TypeOK
  <2>3. Written(p)' => Written(p)
    BY <1>3, <1>t DEF StorePool, Written, TypeOK, Rest
  <2>4. Before
    BY <1>r, <2>1, <2>2, <2>3 DEF ListedOrListing
  <2>5. CASE Listed(p)
    BY <2>2, <2>5 DEF Listed
  <2>6. ASSUME NEW v \in Writers, Listing(v, p) PROVE Listed(p)' \/ Listing(v, p)'
    <3>1. CASE v = w
      BY <3>1, <2>1, <2>2, <2>6 DEF Listing, Listed
    <3>2. CASE v # w
      BY <3>2, <2>2, <2>6 DEF Listing
    <3> QED
      BY <3>1, <3>2
  <2> QED
    BY <2>4, <2>5, <2>6
<1>4. ASSUME NEW q \in Pools, Age(q) PROVE Listed(p)' \/ \E v \in Writers : Listing(v, p)'
  BY <1>4, <1>t, <1>u DEF Age, TypeOK, Written
<1>5. CASE BeginEvict
  BY <1>5, <1>t, <1>u DEF BeginEvict, TypeOK, Written
<1>6. ASSUME NEW q \in Pools, Retain(q) PROVE Listed(p)' \/ \E v \in Writers : Listing(v, p)'
  BY <1>6, <1>t, <1>u DEF Retain, TypeOK, Written
<1>7. CASE EndRetain
  BY <1>7, <1>u DEF EndRetain, Written
<1>8. ASSUME NEW q \in Pools, NextVictim(q) PROVE Listed(p)' \/ \E v \in Writers : Listing(v, p)'
  BY <1>8, <1>u DEF NextVictim, Written
<1>9. CASE CleanEntry
  <2>1. ~raced[p] /\ (cached[p] # "absent" \/ Written(p)) /\ UNCHANGED upserting
    BY <1>9 DEF CleanEntry, Written
  <2>2. victim.pool # p
    BY <1>9, <1>t, <1>r, <2>1 DEF CleanEntry, EvictionShape, RacesSeen, Evicting
  <2>3. KeepsIndex
    BY <1>9, <1>t, <1>k, <2>2 DEF CleanEntry, VictimKey, TypeOK, Walk
  <2> QED
    BY <1>u, <2>1, <2>3
<1>10. CASE RemoveEntry
  <2>1. ~raced[p] /\ (cached[p] # "absent" \/ Written(p)) /\ UNCHANGED upserting
    BY <1>10 DEF RemoveEntry, Written
  <2>2. p \notin index[VictimKey]
    BY <1>10, <1>r, <2>1 DEF RemoveEntry, RacesSeen
  <2>3. KeepsIndex
    BY <1>10, <1>t, <1>k, <2>2 DEF RemoveEntry, TypeOK
  <2> QED
    BY <1>u, <2>1, <2>3
<1>11. CASE VictimDone
  BY <1>11, <1>u DEF VictimDone, Written
<1>12. CASE EndEvict
  BY <1>12, <1>u DEF EndEvict, Written
<1>13. CASE UNCHANGED vars
  BY <1>13, <1>u DEF vars, Written
<1> QED
  BY <1>1, <1>2, <1>3, <1>4, <1>5, <1>6, <1>7, <1>8, <1>9, <1>10, <1>11, <1>12, <1>13
     DEF Next, Upsert, EvictStale

LEMMA InitIndexInv == Init => IndexInv
<1> SUFFICES ASSUME Init PROVE RacesSeen /\ ListedOrListing
  BY InitShape DEF IndexInv
<1>1. \A p \in Pools : ~Written(p)
  BY DEF Init, Written, Rest
<1>2. RacesSeen
  BY DEF Init, RacesSeen, Evicting
<1>3. ASSUME NEW p \in Pools, cached[p] # "absent" PROVE Listed(p)
  BY <1>3 DEF Init, Listed
<1> QED
  BY <1>1, <1>2, <1>3 DEF ListedOrListing

LEMMA NextIndexInv == IndexInv /\ [Next]_vars => IndexInv'
  BY NextShape, NextRacesSeen, NextListed DEF IndexInv

(* A pool is found unless an eviction ran while it was last written.        *)
THEOREM OnlyRacesHide == Spec => []FoundUnlessRaced
<1>1. IndexInv => FoundUnlessRaced
  BY DEF IndexInv, ListedOrListing, FoundUnlessRaced, Listing, Written
<1> QED
  BY InitIndexInv, NextIndexInv, <1>1, PTL DEF Spec

-----------------------------------------------------------------------------
(* NoDanglingIndex is inductive once the eviction has its shape: only a     *)
(* writer lists a pool, and a clean walks past an entry after unlisting it. *)
Dangles(p, i) == p \in index[KeysOf[p][i]] /\ cached[p] = "absent"
Pending(p, i) == Written(p) \/ (p \in stale /\ (victim.pool = p => victim.step <= i))

LEMMA NextDangling == ShapeInv /\ NoDanglingIndex /\ [Next]_vars => NoDanglingIndex'
<1> SUFFICES ASSUME ShapeInv, NoDanglingIndex, [Next]_vars,
                    NEW p \in Pools, NEW i \in 1..3, Dangles(p, i)'
             PROVE  Pending(p, i)'
  BY DEF NoDanglingIndex, Dangles, Pending
<1>t. TypeOK /\ EvictionShape
  BY DEF ShapeInv
<1>h. Dangles(p, i) => Pending(p, i)
  BY DEF NoDanglingIndex, Dangles, Pending
<1>k. KeysOf[p][i] \in Keys
  OBVIOUS
<1> USE DEF Dangles, Pending
(* A step that neither lists p nor takes it out of the cache, and keeps the *)
(* writers and the eviction where they are.                                 *)
<1>u. ASSUME Dangles(p, i), UNCHANGED <<upserting, stale, victim>>
      PROVE  Pending(p, i)'
  BY <1>u, <1>h DEF Written
<1>1. ASSUME NEW w \in Writers, NEW q \in Pools, BeginUpsert(w, q) PROVE Pending(p, i)'
  <2>1. Dangles(p, i) /\ UNCHANGED <<stale, victim>>
    BY <1>1 DEF BeginUpsert, evictVars
  <2>2. Written(p) => Written(p)'
    BY <1>1, <1>t DEF BeginUpsert, Written, TypeOK, Rest
  <2> QED
    BY <1>h, <2>1, <2>2
<1>2. ASSUME NEW w \in Writers, IndexPool(w) PROVE Pending(p, i)'
  <2> DEFINE q == upserting[w].pool
             j == upserting[w].step
  <2>1. q \in Pools /\ j \in 1..3 /\ KeysOf[q][j] \in Keys
    BY <1>2, <1>t DEF IndexPool, TypeOK, Walk
  <2>2. \A v \in Writers : upserting'[v].pool = upserting[v].pool
    BY <1>2, <1>t DEF IndexPool, TypeOK, Walk
  <2>3. Written(p)' <=> Written(p)
    BY <2>2 DEF Written
  <2>4. CASE q = p
    BY <2>1, <2>3, <2>4 DEF Written
  <2>5. CASE q # p
    <3>1. Dangles(p, i)
      BY <1>2, <1>t, <1>k, <2>1, <2>5 DEF IndexPool, TypeOK
    <3> QED
      BY <1>2, <1>h, <2>3, <3>1 DEF IndexPool, evictVars
  <2> QED
    BY <2>4, <2>5
<1>3. ASSUME NEW w \in Writers, StorePool(w) PROVE Pending(p, i)'
  <2> DEFINE q == upserting[w].pool
  <2>1. q \in Pools /\ cached' = [cached EXCEPT ![q] = "fresh"] /\ UNCHANGED <<index, stale, victim>>
    BY <1>3, <1>t DEF StorePool, TypeOK, Walk, evictVars
  <2>2. q # p
    BY <2>1, <1>t DEF TypeOK
  <2>3. Dangles(p, i)
    BY <2>1, <2>2, <1>t DEF TypeOK
  <2>4. Written(p) => Written(p)'
    BY <1>3, <1>t, <2>2 DEF StorePool, Written, TypeOK
  <2> QED
    BY <1>h, <2>1, <2>3, <2>4
<1>4. ASSUME NEW q \in Pools, Age(q) PROVE Pending(p, i)'
  BY <1>4, <1>t, <1>u DEF Age, TypeOK, evictVars
<1>5. CASE BeginEvict
  BY <1>5, <1>u DEF BeginEvict
<1>6. ASSUME NEW q \in Pools, Retain(q) PROVE Pending(p, i)'
  <2>1. victim.pool = NoPool /\ UNCHANGED <<index, upserting, victim>>
    BY <1>6, <1>t DEF Retain, EvictionShape, Rest
  <2>2. CASE cached[p] = "absent"
    BY <1>6, <1>h, <2>1, <2>2 DEF Retain, Written
  <2>3. CASE cached[p] # "absent"
    <3>1. p \in stale'
      BY <1>6, <1>t, <2>3 DEF Retain, TypeOK
    <3> QED
      BY <2>1, <3>1
  <2> QED
    BY <2>2, <2>3
<1>7. CASE EndRetain
  BY <1>7, <1>u DEF EndRetain
<1>8. ASSUME NEW q \in Pools, NextVictim(q) PROVE Pending(p, i)'
  <2>1. Dangles(p, i) /\ UNCHANGED <<upserting, stale>> /\ victim' = [pool |-> q, step |-> 1]
    BY <1>8 DEF NextVictim
  <2> QED
    BY <1>h, <2>1 DEF Written
<1>9. CASE CleanEntry
  <2>1. UNCHANGED <<cached, upserting, stale>> /\ victim'.pool = victim.pool /\ victim.step \in 1..3
        /\ victim.pool \in Pools /\ VictimKey \in Keys
        /\ (victim'.step = victim.step \/ victim'.step = victim.step + 1)
    BY <1>9, <1>t DEF CleanEntry, TypeOK, Walk, VictimKey
  <2>2. index' = [index EXCEPT ![VictimKey] = @ \ {victim.pool}]
    BY <1>9 DEF CleanEntry
  <2>3. Dangles(p, i)
    BY <1>k, <1>t, <2>1, <2>2 DEF TypeOK
  <2>4. victim.pool = p => victim.step # i
    BY <1>k, <1>t, <2>1, <2>2 DEF TypeOK, VictimKey
  <2>5. Written(p)' <=> Written(p)
    BY <2>1 DEF Written
  <2> QED
    BY <1>h, <2>1, <2>3, <2>4, <2>5
<1>10. CASE RemoveEntry
  <2>1. UNCHANGED <<cached, upserting, stale>> /\ victim.step \in 1..3
        /\ victim'.pool = victim.pool /\ victim'.step = victim.step + 1 /\ VictimKey \in Keys
    BY <1>10, <1>t DEF RemoveEntry, TypeOK, Walk, VictimKey, EvictionShape
  <2>2. index' = [index EXCEPT ![VictimKey] = {}]
    BY <1>10 DEF RemoveEntry
  <2>3. Dangles(p, i)
    BY <1>k, <1>t, <2>1, <2>2 DEF TypeOK
  <2>4. victim.pool = p => victim.step # i
    BY <1>k, <1>t, <2>1, <2>2 DEF TypeOK, VictimKey
  <2>5. Written(p)' <=> Written(p)
    BY <2>1 DEF Written
  <2> QED
    BY <1>h, <2>1, <2>3, <2>4, <2>5
<1>11. CASE VictimDone
  <2>1. Dangles(p, i) /\ UNCHANGED upserting /\ victim' = Rest /\ stale' = stale \ {victim.pool}
        /\ victim.step = 4
    BY <1>11 DEF VictimDone
  <2> QED
    BY <1>h, <2>1 DEF Written, Rest
<1>12. CASE EndEvict
  BY <1>12, <1>u DEF EndEvict
<1>13. CASE UNCHANGED vars
  BY <1>13, <1>u DEF vars, evictVars
<1> QED
  BY <1>1, <1>2, <1>3, <1>4, <1>5, <1>6, <1>7, <1>8, <1>9, <1>10, <1>11, <1>12, <1>13
     DEF Next, Upsert, EvictStale

(* No index lists a pool for ever that the cache no longer holds.           *)
THEOREM NothingDangles == Spec => []NoDanglingIndex
<1>1. Init => NoDanglingIndex
  BY DEF Init, NoDanglingIndex
<1> QED
  BY InitShape, NextShape, NextDangling, <1>1, PTL DEF Spec

=============================================================================
