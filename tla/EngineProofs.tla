----------------------------- MODULE EngineProofs -----------------------------
(***************************************************************************)
(* Theorems about the main engine, for any pools, channel, window and       *)
(* number of changes: what the router sees of the pools, how often it       *)
(* submits a route of an arb, and how old a blockhash it submits with.      *)
(***************************************************************************)
EXTENDS EngineRouter, EngineFeeds, TLAPS

-----------------------------------------------------------------------------
(* Types.                                                                   *)

Change  == [change : Nat, slot : Nat]
Notices == [pool : Pools, slot : Slots, change : Nat \ {0}]
Stages  == {Idle} \cup [stage : {"searching"}, pool : Pools]
                  \cup [stage : {"submitting"}, arb : Arbs]
Last    == 2 * MaxSubs

StreamTypes ==
  /\ stored \in [Pools -> Change]
  /\ arrived \in Notices \cup {NoChange}
  /\ changes \in Nat
  /\ channel \in Seq(Notices)

RouterTypes ==
  /\ recent \in [Pools -> Nat]
  /\ router \in Stages
  /\ looked \in [Pools -> Change]
  /\ passedOver \in [Pools -> Nat]

WindowTypes ==
  /\ subs \in [Arbs -> [count : 0..MaxSubs, age : 0..Window]]
  /\ sent \in [Arbs -> [1..Last -> 0..Window]]

(* A notice on its way is of a change that the cache still holds, or of one *)
(* that no cache entry holds any more.                                      *)
Of(notice) ==
  /\ notice.change <= changes
  /\ \A q \in Pools : stored[q].change = notice.change =>
       q = notice.pool /\ stored[q].slot = notice.slot

NoticesMatch ==
  /\ \A p \in Pools : stored[p].change <= changes
  /\ arrived # NoChange => /\ Of(arrived)
                           /\ stored[arrived.pool].change = arrived.change
  /\ \A i \in 1..Len(channel) : Of(channel[i])

(* What the dedup remembers is what the router handled last.                *)
DedupMatches == \A p \in Pools : recent[p] # 0 => looked[p].slot = recent[p]

SeenInv == StreamTypes /\ RouterTypes /\ NoticesMatch /\ DedupMatches /\ ChangesSeen

(* While the entry of an arb counts, only the dispatches it has counted are *)
(* as young as it is, and MaxSubs older ones at most are within the window; *)
(* without one, less than MaxSubs are.                                      *)
Counts(a) == subs[a].count >= 1 /\ subs[a].age < Window

WindowOf(a) ==
  /\ subs[a].count = 0 => subs[a].age = 0
  /\ Counts(a) =>
       \A i \in 1..Last :
         /\ i >= subs[a].count => sent[a][i] >= subs[a].age
         /\ i > subs[a].count => sent[a][i] > subs[a].age
         /\ i >= MaxSubs + subs[a].count => sent[a][i] = Window
  /\ ~Counts(a) =>
       \A i \in 1..Last :
         /\ sent[a][i] >= 1
         /\ i >= MaxSubs => sent[a][i] = Window

WindowInv == WindowTypes /\ \A a \in Arbs : WindowOf(a)

-----------------------------------------------------------------------------
(* A channel is a queue: what is sent stays in it, and what is taken was    *)
(* its first notice.                                                        *)
LEMMA QueueAppend ==
  ASSUME NEW q \in Seq(Notices), NEW n \in Notices
  PROVE  /\ Append(q, n) \in Seq(Notices)
         /\ \A i \in 1..Len(q) : i \in 1..Len(Append(q, n)) /\ Append(q, n)[i] = q[i]
         /\ Len(q) + 1 \in 1..Len(Append(q, n)) /\ Append(q, n)[Len(q) + 1] = n
         /\ \A i \in 1..Len(Append(q, n)) : i \in 1..Len(q) \/ Append(q, n)[i] = n
  OBVIOUS

LEMMA QueueTail ==
  ASSUME NEW q \in Seq(Notices), q # <<>>
  PROVE  /\ Head(q) \in Notices /\ Head(q) = q[1] /\ 1 \in 1..Len(q)
         /\ Tail(q) \in Seq(Notices)
         /\ \A i \in 1..Len(Tail(q)) : i + 1 \in 1..Len(q) /\ Tail(q)[i] = q[i + 1]
         /\ \A i \in 1..Len(q) : i = 1 \/ (i - 1 \in 1..Len(Tail(q)) /\ Tail(q)[i - 1] = q[i])
  OBVIOUS

(* Where a notice is, in the words of the properties.                       *)
LEMMA NoticedMeans ==
  ASSUME StreamTypes, NEW p \in Pools
  PROVE  Noticed(p) <=> \/ arrived = [pool |-> p, slot |-> stored[p].slot, change |-> stored[p].change]
                        \/ \E i \in 1..Len(channel) : channel[i].change = stored[p].change
<1>1. DOMAIN channel = 1..Len(channel)
  BY DEF StreamTypes
<1> QED
  BY <1>1 DEF Noticed

(* The dedup forgets a pool or remembers its slot.                          *)
LEMMA RememberType ==
  ASSUME RouterTypes, NEW notice \in Notices
  PROVE  /\ Remember(notice) \in [Pools -> Nat]
         /\ \A p \in Pools :
              Remember(notice)[p] \in {0, IF p = notice.pool THEN notice.slot ELSE recent[p]}
<1> DEFINE all == [recent EXCEPT ![notice.pool] = notice.slot]
<1>1. notice.pool \in Pools /\ notice.slot \in Nat
  BY EngineAssumption DEF Notices
<1>2. all \in [Pools -> Nat] /\ \A p \in Pools : all[p] = IF p = notice.pool THEN notice.slot ELSE recent[p]
  BY <1>1 DEF RouterTypes
<1>3. \/ Remember(notice) = all
      \/ Remember(notice) = [p \in Pools |-> IF notice.slot < all[p] + SlotsKept THEN all[p] ELSE 0]
  BY DEF Remember
<1> HIDE DEF all
<1> QED
  BY <1>2, <1>3

-----------------------------------------------------------------------------
(* What the router sees.                                                    *)

LEMMA InitSeen == Init => SeenInv
<1> SUFFICES ASSUME Init PROVE SeenInv
  OBVIOUS
<1>1. StreamTypes
  BY DEF Init, StreamTypes, Change
<1>2. RouterTypes
  BY DEF Init, RouterTypes, Change, Stages
<1>3. NoticesMatch /\ DedupMatches
  BY DEF Init, NoticesMatch, DedupMatches, NoChange
<1>4. ChangesSeen
  BY DEF Init, ChangesSeen
<1> QED
  BY <1>1, <1>2, <1>3, <1>4 DEF SeenInv

(* A pool is stored and its change arrives.                                 *)
LEMMA StoreSeen ==
  ASSUME SeenInv, NEW p \in Pools, NEW slot \in Slots, Store(p, slot)
  PROVE  SeenInv'
<1> DEFINE n == changes + 1
<1>i. StreamTypes /\ RouterTypes /\ NoticesMatch /\ DedupMatches /\ ChangesSeen
  BY DEF SeenInv
<1>n. n \in Nat /\ n # 0 /\ n > changes /\ changes \in Nat /\ slot \in Nat
  <2>1. changes \in Nat /\ slot \in Nat
    BY <1>i, EngineAssumption DEF StreamTypes
  <2> QED
    BY <2>1
<1>s. /\ changes' = n
      /\ stored' = [stored EXCEPT ![p] = [change |-> n, slot |-> slot]]
      /\ arrived' = [pool |-> p, slot |-> slot, change |-> n]
      /\ arrived = NoChange
      /\ channel' = channel
      /\ recent' = recent /\ router' = router /\ looked' = looked /\ passedOver' = passedOver
  BY DEF Store, routerVars, history
<1> HIDE DEF n
<1>c. /\ stored' \in [Pools -> Change]
      /\ stored'[p].change = n /\ stored'[p].slot = slot
      /\ \A q \in Pools : q # p => stored'[q] = stored[q]
  BY <1>i, <1>n, <1>s DEF StreamTypes, Change
<1>a. arrived' \in Notices /\ arrived'.pool = p /\ arrived'.slot = slot /\ arrived'.change = n
  BY <1>n, <1>s DEF Notices
<1>1. StreamTypes'
  BY <1>i, <1>n, <1>s, <1>c, <1>a DEF StreamTypes
<1>2. RouterTypes' /\ DedupMatches'
  BY <1>i, <1>s DEF RouterTypes, DedupMatches
<1>3. \A q \in Pools : stored[q].change <= changes /\ stored[q].change \in Nat
  BY <1>i DEF NoticesMatch, StreamTypes, Change
<1>4. \A q \in Pools : stored'[q].change <= n /\ (q # p => stored'[q].change # n)
  BY <1>n, <1>c, <1>3
<1>5. Of(arrived)'
  BY <1>s, <1>a, <1>c, <1>n, <1>4 DEF Of
<1>6. ASSUME NEW i \in 1..Len(channel) PROVE Of(channel[i])'
  <2>1. channel[i] \in Notices /\ channel[i].change \in Nat
    <3>1. channel[i] \in Notices
      BY <1>i DEF StreamTypes
    <3> QED
      BY <3>1 DEF Notices
  <2>2. Of(channel[i])
    BY <1>i DEF NoticesMatch
  <2>3. channel[i].change <= changes /\ channel[i].change # n
    BY <2>1, <2>2, <1>n DEF Of
  <2> QED
    BY <2>1, <2>2, <2>3, <1>s, <1>c, <1>n DEF Of
<1>7. NoticesMatch'
  BY <1>4, <1>5, <1>6, <1>s, <1>a, <1>c DEF NoticesMatch
<1>8. ASSUME NEW q \in Pools
      PROVE  \/ looked[q].change = stored'[q].change
             \/ Noticed(q)'
             \/ passedOver[q] = stored'[q].change
             \/ looked[q].slot = stored'[q].slot
  <2>1. CASE q = p
    <3>1. arrived' = [pool |-> q, slot |-> stored'[q].slot, change |-> stored'[q].change]
      BY <2>1, <1>s, <1>c
    <3> QED
      BY <3>1 DEF Noticed
  <2>2. CASE q # p
    <3>1. stored'[q] = stored[q]
      BY <2>2, <1>c
    <3>2. Noticed(q) => Noticed(q)'
      <4>1. arrived # [pool |-> q, slot |-> stored[q].slot, change |-> stored[q].change]
        BY <1>s, EngineAssumption DEF NoChange
      <4> QED
        BY <4>1, <3>1, <1>s DEF Noticed
    <3> QED
      BY <3>1, <3>2, <1>i DEF ChangesSeen
  <2> QED
    BY <2>1, <2>2
<1>9. ChangesSeen'
  BY <1>8, <1>s DEF ChangesSeen
<1> QED
  BY <1>1, <1>2, <1>7, <1>9 DEF SeenInv

(* The change that arrived leaves the stream: as a notice, or passed over.  *)
LEMMA LeavesSeen ==
  ASSUME SeenInv, arrived # NoChange, arrived' = NoChange,
         UNCHANGED <<stored, changes, recent, router, looked>>,
         \/ /\ channel' = channel
            /\ passedOver' = [passedOver EXCEPT ![arrived.pool] = arrived.change]
         \/ channel' = Append(channel, arrived) /\ passedOver' = passedOver
  PROVE  SeenInv'
<1>i. StreamTypes /\ RouterTypes /\ NoticesMatch /\ DedupMatches /\ ChangesSeen
  BY DEF SeenInv
<1>a. arrived \in Notices /\ arrived.pool \in Pools /\ arrived.change \in Nat
  BY <1>i DEF StreamTypes, Notices
<1>c. channel \in Seq(Notices)
  BY <1>i DEF StreamTypes
<1>o. /\ Of(arrived) /\ stored[arrived.pool].change = arrived.change
      /\ \A i \in 1..Len(channel) : Of(channel[i])
  BY <1>i DEF NoticesMatch
<1>1. /\ channel' \in Seq(Notices)
      /\ \A i \in 1..Len(channel) : i \in 1..Len(channel') /\ channel'[i] = channel[i]
      /\ \A i \in 1..Len(channel') :
           (i \in 1..Len(channel) /\ channel'[i] = channel[i]) \/ channel'[i] = arrived
  <2>1. CASE channel' = channel
    BY <2>1, <1>c
  <2>2. CASE channel' = Append(channel, arrived)
    BY <2>2, <1>a, <1>c, QueueAppend
  <2> QED
    BY <2>1, <2>2
<1>2. passedOver' \in [Pools -> Nat] /\ \A p \in Pools : p # arrived.pool => passedOver'[p] = passedOver[p]
  BY <1>i, <1>a DEF RouterTypes
<1>3. StreamTypes' /\ RouterTypes' /\ DedupMatches'
  BY <1>i, <1>1, <1>2 DEF StreamTypes, RouterTypes, DedupMatches
<1>4. \A n : Of(n) => Of(n)'
  BY DEF Of
<1>5. NoticesMatch'
  <2>1. \A i \in 1..Len(channel') : Of(channel'[i])
    BY <1>1, <1>o
  <2>2. \A i \in 1..Len(channel') : Of(channel[i])'
    BY <2>1 DEF Of
  <2>3. \A p \in Pools : stored[p].change <= changes
    BY <1>i DEF NoticesMatch
  <2> QED
    BY <2>2, <2>3 DEF NoticesMatch
<1>6. ASSUME NEW p \in Pools
      PROVE  \/ looked[p].change = stored[p].change
             \/ Noticed(p)'
             \/ passedOver'[p] = stored[p].change
             \/ looked[p].slot = stored[p].slot
  <2>1. CASE p = arrived.pool
    <3>1. CASE channel' = Append(channel, arrived)
      <4>1. Len(channel) + 1 \in 1..Len(channel') /\ channel'[Len(channel) + 1] = arrived
        BY <3>1, <1>a, <1>c, QueueAppend
      <4>2. \E i \in 1..Len(channel') : channel'[i].change = stored[p].change
        BY <4>1, <2>1, <1>o
      <4>3. DOMAIN channel' = 1..Len(channel')
        BY <1>1
      <4> QED
        BY <4>2, <4>3 DEF Noticed
    <3>2. CASE passedOver' = [passedOver EXCEPT ![arrived.pool] = arrived.change]
      <4>1. passedOver'[p] = arrived.change
        BY <3>2, <2>1, <1>i DEF RouterTypes
      <4> QED
        BY <4>1, <2>1, <1>o
    <3> QED
      BY <3>1, <3>2
  <2>2. CASE p # arrived.pool
    <3>1. passedOver'[p] = passedOver[p]
      BY <2>2, <1>2
    <3>2. Noticed(p) => Noticed(p)'
      <4>1. arrived # [pool |-> p, slot |-> stored[p].slot, change |-> stored[p].change]
        BY <2>2
      <4>2. DOMAIN channel = 1..Len(channel) /\ DOMAIN channel' = 1..Len(channel')
        BY <1>c, <1>1
      <4> QED
        BY <4>1, <4>2, <1>1 DEF Noticed
    <3> QED
      BY <3>1, <3>2, <1>i DEF ChangesSeen
  <2> QED
    BY <2>1, <2>2
<1>7. ChangesSeen'
  BY <1>6 DEF ChangesSeen
<1> QED
  BY <1>3, <1>5, <1>7 DEF SeenInv

(* The router takes a notice: one it has handled, one whose pool has waited *)
(* too long, or one it looks at.                                            *)
LEMMA TakeSeen == SeenInv /\ Take => SeenInv'
<1> SUFFICES ASSUME SeenInv, Take PROVE SeenInv'
  OBVIOUS
<1>i. StreamTypes /\ RouterTypes /\ NoticesMatch /\ DedupMatches /\ ChangesSeen
  BY DEF SeenInv
<1>c. channel \in Seq(Notices) /\ channel # <<>>
  BY <1>i DEF StreamTypes, Take
<1>h. PICK notice \in Notices : notice = Head(channel)
  BY <1>c, QueueTail
<1>n. notice.pool \in Pools /\ notice.slot \in Nat /\ notice.slot # 0 /\ notice = channel[1] /\ 1 \in 1..Len(channel)
  BY <1>h, <1>c, QueueTail, EngineAssumption DEF Notices
<1>s. /\ stored' = stored /\ arrived' = arrived /\ changes' = changes /\ channel' = Tail(channel)
  BY DEF Take, cacheVars
<1>o. Of(notice)
  BY <1>n, <1>i DEF NoticesMatch
<1>q. /\ channel' \in Seq(Notices)
      /\ \A i \in 1..Len(channel') : i + 1 \in 1..Len(channel) /\ channel'[i] = channel[i + 1]
      /\ \A i \in 1..Len(channel) : i = 1 \/ (i - 1 \in 1..Len(channel') /\ channel'[i - 1] = channel[i])
  BY <1>s, <1>c, QueueTail
<1>1. StreamTypes'
  BY <1>i, <1>s, <1>q DEF StreamTypes
<1>2. NoticesMatch'
  <2>1. \A n : Of(n) => Of(n)'
    BY <1>s DEF Of
  <2>2. \A i \in 1..Len(channel') : Of(channel'[i])
    BY <1>q, <1>i DEF NoticesMatch
  <2>3. \A i \in 1..Len(channel') : Of(channel[i])'
    BY <2>2, <1>s DEF Of
  <2> QED
    BY <2>1, <2>3, <1>s, <1>i DEF NoticesMatch
<1>3. ASSUME NEW p \in Pools, p # notice.pool
      PROVE  Noticed(p) => Noticed(p)'
  <2>1. channel[1].change # stored[p].change
    BY <1>3, <1>n, <1>o DEF Of
  <2>2. DOMAIN channel = 1..Len(channel) /\ DOMAIN channel' = 1..Len(channel')
    BY <1>c, <1>q
  <2>3. ASSUME NEW i \in 1..Len(channel), channel[i].change = stored[p].change
        PROVE  Noticed(p)'
    <3>1. i # 1
      BY <2>1, <2>3
    <3>2. PICK j \in 1..Len(channel') : channel'[j] = channel[i]
      BY <3>1, <1>q
    <3> QED
      BY <3>2, <2>2, <2>3, <1>s DEF Noticed
  <2> QED
    BY <2>2, <2>3, <1>s DEF Noticed
<1>4. CASE Handled(notice) /\ UNCHANGED <<recent, router, history>>
  <2>1. recent[notice.pool] = notice.slot /\ UNCHANGED <<recent, router, looked, passedOver>>
    BY <1>4 DEF Handled, history
  <2>2. looked[notice.pool].slot = notice.slot
    BY <2>1, <1>n, <1>i DEF DedupMatches
  <2>3. RouterTypes' /\ DedupMatches'
    BY <2>1, <1>i DEF RouterTypes, DedupMatches
  <2>4. CASE arrived # NoChange /\ arrived.pool = notice.pool
    <3>1. arrived = [pool |-> notice.pool, slot |-> stored[notice.pool].slot, change |-> stored[notice.pool].change]
      <4>1. arrived \in Notices /\ Of(arrived) /\ stored[arrived.pool].change = arrived.change
        BY <2>4, <1>i DEF StreamTypes, NoticesMatch
      <4>2. arrived.change = stored[notice.pool].change /\ stored[notice.pool].slot = arrived.slot
        BY <4>1, <2>4, <1>n DEF Of
      <4> QED
        BY <4>1, <4>2, <2>4 DEF Notices
    <3>2. Noticed(notice.pool)'
      BY <3>1, <1>s DEF Noticed
    <3> QED
      BY <3>2, <1>3, <2>1, <1>s, <1>1, <1>2, <2>3, <1>i DEF ChangesSeen, SeenInv
  <2>5. CASE ~(arrived # NoChange /\ arrived.pool = notice.pool)
    <3>1. arrived # [pool |-> notice.pool, slot |-> stored[notice.pool].slot, change |-> stored[notice.pool].change]
      BY <2>5, <1>n, EngineAssumption DEF NoChange
    <3>2. ASSUME Noticed(notice.pool), ~Noticed(notice.pool)'
          PROVE  looked[notice.pool].slot = stored[notice.pool].slot
      <4>1. DOMAIN channel = 1..Len(channel) /\ DOMAIN channel' = 1..Len(channel')
        BY <1>c, <1>q
      <4>2. PICK i \in 1..Len(channel) : channel[i].change = stored[notice.pool].change
        BY <3>1, <3>2, <4>1 DEF Noticed
      <4>3. i = 1
        <5>1. ASSUME i # 1 PROVE Noticed(notice.pool)'
          <6>1. PICK j \in 1..Len(channel') : channel'[j] = channel[i]
            BY <5>1, <1>q
          <6> QED
            BY <6>1, <4>1, <4>2, <1>s DEF Noticed
        <5> QED
          BY <5>1, <3>2
      <4>4. channel[1].change = stored[notice.pool].change
        BY <4>2, <4>3
      <4>5. stored[notice.pool].slot = notice.slot
        BY <4>4, <1>n, <1>o DEF Of
      <4> QED
        BY <4>5, <2>2
    <3> QED
      BY <3>2, <1>3, <2>1, <1>s, <1>1, <1>2, <2>3, <1>i DEF ChangesSeen, SeenInv
  <2> QED
    BY <2>4, <2>5
<1>r. ASSUME recent' = Remember(notice), looked'[notice.pool].slot = notice.slot,
             \A p \in Pools : p # notice.pool => looked'[p] = looked[p]
      PROVE  recent' \in [Pools -> Nat] /\ DedupMatches'
  <2>1. /\ recent' \in [Pools -> Nat]
        /\ \A p \in Pools : recent'[p] \in {0, IF p = notice.pool THEN notice.slot ELSE recent[p]}
    BY <1>r, <1>i, <1>h, RememberType
  <2> QED
    BY <2>1, <1>r, <1>i DEF DedupMatches
<1>5. CASE /\ recent' = Remember(notice)
           /\ passedOver' = [passedOver EXCEPT ![notice.pool] = stored[notice.pool].change]
           /\ looked' = [looked EXCEPT ![notice.pool].slot = notice.slot]
           /\ router' = router
  <2>1. /\ looked' \in [Pools -> Change] /\ looked'[notice.pool].slot = notice.slot
        /\ \A p \in Pools : p # notice.pool => looked'[p] = looked[p]
    BY <1>5, <1>n, <1>i DEF RouterTypes, Change
  <2>2. /\ passedOver' \in [Pools -> Nat] /\ passedOver'[notice.pool] = stored[notice.pool].change
        /\ \A p \in Pools : p # notice.pool => passedOver'[p] = passedOver[p]
    BY <1>5, <1>n, <1>i DEF RouterTypes, StreamTypes, Change
  <2>3. RouterTypes' /\ DedupMatches'
    BY <1>5, <1>r, <2>1, <2>2, <1>i DEF RouterTypes
  <2>4. ChangesSeen'
    BY <2>1, <2>2, <1>3, <1>s, <1>i DEF ChangesSeen
  <2> QED
    BY <2>3, <2>4, <1>1, <1>2 DEF SeenInv
<1>6. CASE /\ recent' = Remember(notice)
           /\ router' \in {Idle, [stage |-> "searching", pool |-> notice.pool]}
           /\ looked' = [looked EXCEPT ![notice.pool] = [change |-> stored[notice.pool].change,
                                                       slot   |-> notice.slot]]
           /\ passedOver' = passedOver
  <2>1. /\ looked' \in [Pools -> Change] /\ looked'[notice.pool].slot = notice.slot
        /\ looked'[notice.pool].change = stored[notice.pool].change
        /\ \A p \in Pools : p # notice.pool => looked'[p] = looked[p]
    BY <1>6, <1>n, <1>i DEF RouterTypes, StreamTypes, Change
  <2>2. router' \in Stages
    BY <1>6, <1>n DEF Stages
  <2>3. RouterTypes' /\ DedupMatches'
    BY <1>6, <1>r, <2>1, <2>2, <1>i DEF RouterTypes
  <2>4. ChangesSeen'
    BY <1>6, <2>1, <1>3, <1>s, <1>i DEF ChangesSeen
  <2> QED
    BY <2>3, <2>4, <1>1, <1>2 DEF SeenInv
<1> QED
  BY <1>4, <1>5, <1>6, <1>h DEF Take

(* A search looks at the pool as the cache holds it then.                   *)
LEMMA SearchSeen == SeenInv /\ Search => SeenInv'
<1> SUFFICES ASSUME SeenInv, Search PROVE SeenInv'
  OBVIOUS
<1>i. StreamTypes /\ RouterTypes /\ NoticesMatch /\ DedupMatches /\ ChangesSeen
  BY DEF SeenInv
<1>s. /\ stored' = stored /\ arrived' = arrived /\ changes' = changes /\ channel' = channel
      /\ recent' = recent /\ passedOver' = passedOver
  BY DEF Search, cacheVars
<1>1. PICK p \in Pools : p = router.pool
  BY <1>i DEF Search, RouterTypes, Stages, Idle
<1>2. looked' = [looked EXCEPT ![p].change = stored[p].change]
  BY <1>1 DEF Search
<1>3. /\ looked' \in [Pools -> Change] /\ looked'[p].change = stored[p].change
      /\ looked'[p].slot = looked[p].slot
      /\ \A q \in Pools : q # p => looked'[q] = looked[q]
  BY <1>1, <1>2, <1>i DEF RouterTypes, StreamTypes, Change
<1>4. router' \in Stages
  BY DEF Search, Stages
<1>5. StreamTypes' /\ RouterTypes' /\ NoticesMatch' /\ DedupMatches'
  BY <1>i, <1>s, <1>3, <1>4 DEF StreamTypes, RouterTypes, NoticesMatch, Of, DedupMatches
<1>6. ChangesSeen'
  BY <1>i, <1>s, <1>3 DEF ChangesSeen, Noticed
<1> QED
  BY <1>5, <1>6 DEF SeenInv

(* Every step of the engine keeps the invariant.                            *)
LEMMA NextSeen == SeenInv /\ [Next]_vars => SeenInv'
<1> SUFFICES ASSUME SeenInv, [Next]_vars PROVE SeenInv'
  OBVIOUS
<1>1. ASSUME NEW p \in Pools, NEW slot \in Slots, Store(p, slot) PROVE SeenInv'
  BY <1>1, StoreSeen
<1>2. CASE PassOverUnready
  BY <1>2, LeavesSeen DEF PassOverUnready, routerVars, history
<1>3. CASE Notice
  BY <1>3, LeavesSeen DEF Notice, routerVars, history
<1>s. ASSUME UNCHANGED <<cacheVars, channel, recent, history>>, router' \in {router, Idle} PROVE SeenInv'
  <2>1. UNCHANGED <<stored, arrived, changes, channel, recent, looked, passedOver>>
    BY <1>s DEF cacheVars, history
  <2>2. router' \in Stages
    BY <1>s DEF SeenInv, RouterTypes, Stages
  <2> QED
    BY <2>1, <2>2 DEF SeenInv, StreamTypes, RouterTypes, NoticesMatch, Of, DedupMatches, ChangesSeen, Noticed
<1>4. CASE StreamEnds \/ RouterEnds \/ Interrupt
  BY <1>4, <1>s DEF StreamEnds, RouterEnds, Interrupt, routerVars
<1>5. CASE Submit
  BY <1>5, <1>s DEF Submit
<1>6. CASE Tick
  BY <1>6, <1>s DEF Tick
<1>7. CASE UNCHANGED vars
  BY <1>7, <1>s DEF vars, routerVars
<1> QED
  BY <1>1, <1>2, <1>3, <1>4, <1>5, <1>6, <1>7, TakeSeen, SearchSeen DEF Next

(* No change of a pool goes unseen, but for those dropped on their way or   *)
(* taken for a notice handled before: whatever the pools, the capacity of   *)
(* the channel and the thinning of recent_pools.                            *)
THEOREM NothingUnseen == Spec => []ChangesSeen
<1>1. SeenInv => ChangesSeen
  BY DEF SeenInv
<1> QED
  BY InitSeen, NextSeen, <1>1, PTL DEF Spec

-----------------------------------------------------------------------------
(* Submissions in a window.                                                 *)

LEMMA InitWindow == Init => WindowInv
<1> SUFFICES ASSUME Init PROVE WindowInv
  OBVIOUS
<1>1. MaxSubs \in Nat \ {0} /\ Window \in Nat \ {0}
  BY EngineAssumption
<1>2. WindowTypes
  BY <1>1 DEF Init, WindowTypes, NoEntry, Last
<1>3. ASSUME NEW a \in Arbs PROVE WindowOf(a)
  <2>1. subs[a].count = 0 /\ subs[a].age = 0 /\ sent[a] = [i \in 1..Last |-> Window]
    BY DEF Init, NoEntry, Last
  <2>2. ~Counts(a) /\ \A i \in 1..Last : sent[a][i] >= 1 /\ sent[a][i] = Window
    BY <1>1, <2>1 DEF Counts
  <2> QED
    BY <2>1, <2>2 DEF WindowOf
<1> QED
  BY <1>2, <1>3 DEF WindowInv

(* An arb that nothing happens to, but that its entry may be dropped with   *)
(* the window.                                                              *)
LEMMA IdleWindow ==
  ASSUME WindowInv, NEW a \in Arbs, sent'[a] = sent[a], subs'[a] = Entry(a)
  PROVE  subs'[a] \in [count : 0..MaxSubs, age : 0..Window] /\ WindowOf(a)'
<1>1. MaxSubs \in Nat \ {0} /\ Window \in Nat \ {0}
  BY EngineAssumption
<1>2. subs[a] \in [count : 0..MaxSubs, age : 0..Window] /\ WindowOf(a)
  BY DEF WindowInv, WindowTypes
<1>3. CASE subs[a].age >= Window
  <2>1. subs'[a] = NoEntry /\ subs'[a].count = 0 /\ ~Counts(a)
    BY <1>1, <1>2, <1>3 DEF Entry, NoEntry, Counts
  <2>2. ~Counts(a)'
    BY <2>1 DEF Counts
  <2>3. \A i \in 1..Last : sent'[a][i] >= 1 /\ (i >= MaxSubs => sent'[a][i] = Window)
    BY <1>2, <2>1 DEF WindowOf
  <2> QED
    BY <1>1, <2>1, <2>2, <2>3 DEF WindowOf, NoEntry
<1>4. CASE ~(subs[a].age >= Window)
  <2>1. subs'[a] = subs[a]
    BY <1>4 DEF Entry
  <2> QED
    BY <1>2, <2>1 DEF WindowOf, Counts
<1> QED
  BY <1>3, <1>4

(* One more attempt for an arb that has attempts left, dispatched or not.   *)
LEMMA AttemptWindow ==
  ASSUME WindowInv, NEW a \in Arbs, Entry(a).count < MaxSubs,
         subs'[a] = [Entry(a) EXCEPT !.count = @ + 1],
         \/ sent'[a] = sent[a]
         \/ sent'[a] = [i \in 1..Last |-> IF i = 1 THEN 0 ELSE sent[a][i - 1]]
  PROVE  /\ subs'[a] \in [count : 0..MaxSubs, age : 0..Window]
         /\ sent'[a] \in [1..Last -> 0..Window]
         /\ WindowOf(a)'
<1> DEFINE n == Entry(a).count
           g == Entry(a).age
<1>1. MaxSubs \in Nat \ {0} /\ Window \in Nat \ {0} /\ Last \in Nat
  BY EngineAssumption DEF Last
<1>2. subs[a] \in [count : 0..MaxSubs, age : 0..Window] /\ WindowOf(a) /\ sent[a] \in [1..Last -> 0..Window]
  BY DEF WindowInv, WindowTypes
<1>3. Entry(a) \in [count : 0..MaxSubs, age : 0..Window] /\ n \in 0..MaxSubs /\ g \in 0..Window
  BY <1>1, <1>2 DEF Entry, NoEntry
<1>4. n < MaxSubs
  OBVIOUS
<1>5. /\ subs'[a] \in [count : 0..MaxSubs, age : 0..Window]
      /\ subs'[a].count = n + 1 /\ subs'[a].age = g
  BY <1>1, <1>3
<1>6. \/ n = 0 /\ g = 0 /\ ~Counts(a)
      \/ n = subs[a].count /\ g = subs[a].age /\ n >= 1 /\ g < Window /\ Counts(a)
  BY <1>1, <1>2 DEF Entry, NoEntry, Counts, WindowOf
<1>7. /\ sent'[a] \in [1..Last -> 0..Window]
      /\ \A i \in 1..Last :
           i = 1 \/ \E j \in 1..Last : (j = i \/ j = i - 1) /\ sent'[a][i] = sent[a][j]
  <2>1. CASE sent'[a] = sent[a]
    BY <2>1, <1>2
  <2>2. CASE sent'[a] = [i \in 1..Last |-> IF i = 1 THEN 0 ELSE sent[a][i - 1]]
    <3>1. \A i \in 1..Last : i = 1 \/ (i > 1 /\ i - 1 \in 1..Last)
      BY <1>1
    <3> QED
      BY <2>2, <3>1, <1>1, <1>2
  <2> QED
    BY <2>1, <2>2
<1> HIDE DEF n, g
<1>8. Counts(a)'
  BY <1>1, <1>3, <1>5, <1>6 DEF Counts
<1>10. ASSUME NEW i \in 1..Last,
              \/ i = 1
              \/ \E j \in 1..Last : (j = i \/ j = i - 1) /\ sent'[a][i] = sent[a][j]
       PROVE  /\ i >= n + 1 => sent'[a][i] >= g
              /\ i > n + 1 => sent'[a][i] > g
              /\ i >= MaxSubs + n + 1 => sent'[a][i] = Window
  <2>0. sent'[a][i] \in Nat
    BY <1>1, <1>7
  <2>1. CASE n = 0 /\ g = 0 /\ ~Counts(a)
    <3>1. \A j \in 1..Last : sent[a][j] >= 1 /\ (j >= MaxSubs => sent[a][j] = Window)
      BY <2>1, <1>2 DEF WindowOf
    <3>2. n = 0 /\ g = 0
      BY <2>1
    <3>3. CASE i = 1
      BY <1>1, <2>0, <3>2, <3>3
    <3>4. ASSUME NEW j \in 1..Last, j = i \/ j = i - 1, sent'[a][i] = sent[a][j]
          PROVE  /\ i >= n + 1 => sent'[a][i] >= g
                 /\ i > n + 1 => sent'[a][i] > g
                 /\ i >= MaxSubs + n + 1 => sent'[a][i] = Window
      <4>1. sent'[a][i] >= 1 /\ (j >= MaxSubs => sent'[a][i] = Window)
        BY <3>1, <3>4
      <4> QED
        BY <1>1, <2>0, <3>2, <3>4, <4>1
    <3> QED
      BY <1>10, <3>3, <3>4
  <2>2. CASE n = subs[a].count /\ g = subs[a].age /\ n >= 1 /\ g < Window /\ Counts(a)
    <3>1. \A j \in 1..Last : /\ j >= n => sent[a][j] >= g
                             /\ j > n => sent[a][j] > g
                             /\ j >= MaxSubs + n => sent[a][j] = Window
      BY <2>2, <1>2 DEF WindowOf
    <3>2. n >= 1
      BY <2>2
    <3>3. CASE i = 1
      BY <1>1, <1>3, <3>2, <3>3
    <3>4. ASSUME NEW j \in 1..Last, j = i \/ j = i - 1, sent'[a][i] = sent[a][j]
          PROVE  /\ i >= n + 1 => sent'[a][i] >= g
                 /\ i > n + 1 => sent'[a][i] > g
                 /\ i >= MaxSubs + n + 1 => sent'[a][i] = Window
      <4>1. /\ j >= n => sent'[a][i] >= g
            /\ j > n => sent'[a][i] > g
            /\ j >= MaxSubs + n => sent'[a][i] = Window
        BY <3>1, <3>4
      <4>2. j \in Nat /\ i \in Nat /\ j >= i - 1
        BY <1>1, <3>4
      <4>3. /\ i >= n + 1 => j >= n
            /\ i > n + 1 => j > n
            /\ i >= MaxSubs + n + 1 => j >= MaxSubs + n
        BY <1>1, <1>3, <4>2
      <4> QED
        BY <4>1, <4>3
    <3> QED
      BY <1>10, <3>3, <3>4
  <2> QED
    BY <1>6, <2>1, <2>2
<1>11. \A i \in 1..Last :
         /\ i >= n + 1 => sent'[a][i] >= g
         /\ i > n + 1 => sent'[a][i] > g
         /\ i >= MaxSubs + n + 1 => sent'[a][i] = Window
  BY <1>7, <1>10
<1>12. WindowOf(a)'
  BY <1>1, <1>3, <1>5, <1>8, <1>11 DEF WindowOf
<1> QED
  BY <1>5, <1>7, <1>12

(* A moment passes.                                                         *)
LEMMA TickWindow ==
  ASSUME WindowInv, Tick, NEW a \in Arbs
  PROVE  /\ subs'[a] \in [count : 0..MaxSubs, age : 0..Window]
         /\ sent'[a] \in [1..Last -> 0..Window]
         /\ WindowOf(a)'
<1>1. MaxSubs \in Nat \ {0} /\ Window \in Nat \ {0} /\ Last \in Nat
  BY EngineAssumption DEF Last
<1>2. subs[a] \in [count : 0..MaxSubs, age : 0..Window] /\ WindowOf(a) /\ sent[a] \in [1..Last -> 0..Window]
  BY DEF WindowInv, WindowTypes
<1>3. \A x \in 0..Window : /\ AtMost(x + 1, Window) \in 1..Window
                           /\ AtMost(x + 1, Window) = IF x = Window THEN x ELSE x + 1
  BY <1>1 DEF AtMost
<1>4. sent'[a] = [i \in 1..Last |-> AtMost(sent[a][i] + 1, Window)]
  BY <1>2 DEF Tick
<1>5. /\ sent'[a] \in [1..Last -> 1..Window]
      /\ \A i \in 1..Last : /\ sent[a][i] \in 0..Window
                            /\ sent'[a][i] = IF sent[a][i] = Window THEN Window ELSE sent[a][i] + 1
  <2>1. \A i \in 1..Last : sent[a][i] \in 0..Window /\ sent'[a][i] = AtMost(sent[a][i] + 1, Window)
    BY <1>2, <1>4
  <2>2. \A i \in 1..Last : sent'[a][i] \in 1..Window
    BY <2>1, <1>3
  <2>3. sent'[a] \in [1..Last -> 1..Window]
    BY <1>4, <2>2
  <2> QED
    BY <2>1, <2>3, <1>3
<1>6. subs'[a] = IF subs[a].count = 0 THEN NoEntry
                 ELSE [subs[a] EXCEPT !.age = AtMost(@ + 1, Window)]
  BY DEF Tick
<1>7. CASE subs[a].count = 0
  <2>1. subs'[a] = NoEntry /\ subs[a].count = 0
    BY <1>6, <1>7
  <2>2. \A i \in 1..Last : i >= MaxSubs => sent[a][i] = Window
    BY <1>2, <2>1 DEF WindowOf, Counts
  <2>3. subs'[a].count = 0 /\ subs'[a].age = 0 /\ subs'[a] \in [count : 0..MaxSubs, age : 0..Window]
    BY <1>1, <2>1 DEF NoEntry
  <2>4. \A i \in 1..Last : sent'[a][i] >= 1 /\ (i >= MaxSubs => sent'[a][i] = Window)
    BY <1>1, <1>5, <2>2
  <2>5. WindowOf(a)'
    BY <2>3, <2>4 DEF WindowOf, Counts
  <2> QED
    BY <1>1, <1>5, <2>3, <2>5
<1>8. CASE subs[a].count # 0
  <2> DEFINE c == subs[a].count
             g == subs[a].age
             h == IF g = Window THEN Window ELSE g + 1
  <2>1. c \in 1..MaxSubs /\ g \in 0..Window /\ h \in 1..Window
    BY <1>1, <1>2, <1>8
  <2>2. /\ subs'[a] \in [count : 0..MaxSubs, age : 0..Window]
        /\ subs'[a].count = c /\ subs'[a].age = h
    BY <1>1, <1>2, <1>3, <1>6, <1>8
  <2>3. /\ g < Window => \A i \in 1..Last : /\ i >= c => sent[a][i] >= g
                                            /\ i > c => sent[a][i] > g
                                            /\ i >= MaxSubs + c => sent[a][i] = Window
        /\ g = Window => \A i \in 1..Last : i >= MaxSubs => sent[a][i] = Window
    BY <2>1, <1>2 DEF WindowOf, Counts
  <2>4. (h < Window <=> Counts(a)') /\ (h < Window => g < Window /\ h = g + 1)
        /\ (h < Window \/ g >= Window - 1)
    BY <1>1, <2>1, <2>2 DEF Counts
  <2> HIDE DEF c, g, h
  <2>5. ASSUME Counts(a)', NEW i \in 1..Last
        PROVE  /\ i >= c => sent'[a][i] >= h
               /\ i > c => sent'[a][i] > h
               /\ i >= MaxSubs + c => sent'[a][i] = Window
    <3>1. g < Window /\ h < Window /\ h = g + 1
      BY <2>4, <2>5
    <3>2. PICK x \in 0..Window : x = sent[a][i]
      BY <1>5
    <3>3. /\ i >= c => x >= g
          /\ i > c => x > g
          /\ i >= MaxSubs + c => x = Window
      BY <2>3, <3>1, <3>2
    <3>4. sent'[a][i] = IF x = Window THEN Window ELSE x + 1
      BY <1>5, <3>2
    <3> QED
      BY <1>1, <2>1, <3>1, <3>3, <3>4
  <2>6. ASSUME ~Counts(a)', NEW i \in 1..Last
        PROVE  sent'[a][i] >= 1 /\ (i >= MaxSubs => sent'[a][i] = Window)
    <3>1. g >= Window - 1
      BY <1>1, <2>1, <2>4, <2>6
    <3>2. PICK x \in 0..Window : x = sent[a][i]
      BY <1>5
    <3>3. i >= MaxSubs => x >= Window - 1
      <4>1. CASE g = Window
        BY <1>1, <2>3, <3>2, <4>1
      <4>2. CASE g < Window
        BY <1>1, <2>1, <2>3, <3>1, <3>2, <4>2
      <4> QED
        BY <1>1, <2>1, <4>1, <4>2
    <3>4. sent'[a][i] = IF x = Window THEN Window ELSE x + 1
      BY <1>5, <3>2
    <3> QED
      BY <1>1, <3>3, <3>4
  <2>7. WindowOf(a)'
    BY <2>1, <2>2, <2>5, <2>6 DEF WindowOf
  <2> QED
    BY <1>1, <1>5, <2>2, <2>7
<1> QED
  BY <1>7, <1>8

(* Every step of the engine keeps the invariant.                            *)
LEMMA NextWindow == WindowInv /\ [Next]_vars => WindowInv'
<1> SUFFICES ASSUME WindowInv, [Next]_vars PROVE WindowInv'
  OBVIOUS
<1>i. WindowTypes /\ \A a \in Arbs : WindowOf(a)
  BY DEF WindowInv
<1>t. /\ DOMAIN subs = Arbs /\ DOMAIN sent = Arbs
      /\ \A a \in Arbs : sent[a] \in [1..Last -> 0..Window]
  BY <1>i DEF WindowTypes
<1>1. CASE Submit
  <2> DEFINE free == Entry(router.arb).count < MaxSubs
  <2>1. /\ subs' = [a \in Arbs |-> IF a = router.arb /\ free
                                   THEN [Entry(a) EXCEPT !.count = @ + 1] ELSE Entry(a)]
        /\ \/ sent' = sent
           \/ /\ free
              /\ sent' = [sent EXCEPT ![router.arb] = [i \in DOMAIN @ |-> IF i = 1 THEN 0 ELSE @[i - 1]]]
    BY <1>1 DEF Submit
  <2>2. ASSUME NEW a \in Arbs
        PROVE  /\ subs'[a] \in [count : 0..MaxSubs, age : 0..Window]
               /\ sent'[a] \in [1..Last -> 0..Window]
               /\ WindowOf(a)'
    <3>1. CASE a = router.arb /\ free
      <4>1. subs'[a] = [Entry(a) EXCEPT !.count = @ + 1] /\ Entry(a).count < MaxSubs
        BY <2>1, <3>1
      <4>2. \/ sent'[a] = sent[a]
            \/ sent'[a] = [i \in 1..Last |-> IF i = 1 THEN 0 ELSE sent[a][i - 1]]
        <5>1. DOMAIN sent[a] = 1..Last
          BY <1>t
        <5>2. CASE sent' = sent
          BY <5>2
        <5>3. CASE sent' = [sent EXCEPT ![router.arb] = [i \in DOMAIN @ |-> IF i = 1 THEN 0 ELSE @[i - 1]]]
          BY <5>1, <5>3, <3>1, <1>t
        <5> QED
          BY <2>1, <5>2, <5>3
      <4> QED
        BY <4>1, <4>2, AttemptWindow
    <3>2. CASE ~(a = router.arb /\ free)
      <4>1. subs'[a] = Entry(a) /\ sent'[a] = sent[a]
        BY <2>1, <3>2, <1>t
      <4> QED
        BY <4>1, <1>t, IdleWindow
    <3> QED
      BY <3>1, <3>2
  <2>3. /\ subs' = [a \in Arbs |-> subs'[a]]
        /\ sent' = [a \in Arbs |-> sent'[a]]
    BY <2>1, <1>t, <1>i DEF WindowTypes
  <2>4. WindowTypes'
    BY <2>2, <2>3 DEF WindowTypes
  <2> QED
    BY <2>2, <2>4 DEF WindowInv
<1>2. CASE Tick
  <2>1. ASSUME NEW a \in Arbs
        PROVE  /\ subs'[a] \in [count : 0..MaxSubs, age : 0..Window]
               /\ sent'[a] \in [1..Last -> 0..Window]
               /\ WindowOf(a)'
    BY <1>2, TickWindow
  <2>2. /\ subs' = [a \in Arbs |-> subs'[a]]
        /\ sent' = [a \in Arbs |-> sent'[a]]
    BY <1>2 DEF Tick
  <2>3. WindowTypes'
    BY <2>1, <2>2 DEF WindowTypes
  <2> QED
    BY <2>1, <2>3 DEF WindowInv
<1>s. ASSUME UNCHANGED <<subs, sent>> PROVE WindowInv'
  BY <1>s, <1>i DEF WindowInv, WindowTypes, WindowOf, Counts
<1>3. CASE \/ \E p \in Pools, slot \in Slots : Store(p, slot)
           \/ PassOverUnready \/ Notice \/ StreamEnds
  BY <1>3, <1>s DEF Store, PassOverUnready, Notice, StreamEnds, routerVars
<1>4. CASE Take \/ Search \/ RouterEnds \/ Interrupt
  BY <1>4, <1>s DEF Take, Search, RouterEnds, Interrupt, routerVars
<1>5. CASE UNCHANGED vars
  BY <1>5, <1>s DEF vars, routerVars
<1> QED
  BY <1>1, <1>2, <1>3, <1>4, <1>5 DEF Next

(* A window of DEDUP_WINDOW sees less than twice MAX_SUBS_PER_ARB           *)
(* dispatches of an arb, whatever the two constants.                        *)
THEOREM FewSubmissions == Spec => []SubmissionsPerWindow
<1>1. WindowInv => SubmissionsPerWindow
  <2> SUFFICES ASSUME WindowInv, NEW a \in Arbs PROVE sent[a][2 * MaxSubs] >= Window
    BY DEF SubmissionsPerWindow
  <2>1. MaxSubs \in Nat \ {0} /\ Window \in Nat \ {0} /\ Last \in 1..Last /\ Last = 2 * MaxSubs
    BY EngineAssumption DEF Last
  <2>2. subs[a] \in [count : 0..MaxSubs, age : 0..Window] /\ WindowOf(a)
    BY DEF WindowInv, WindowTypes
  <2>3. Last >= MaxSubs + subs[a].count /\ Last >= MaxSubs
    BY <2>1, <2>2
  <2>4. sent[a][Last] = Window
    BY <2>1, <2>2, <2>3 DEF WindowOf
  <2> QED
    BY <2>1, <2>4
<1> QED
  BY InitWindow, NextWindow, <1>1, PTL DEF Spec

-----------------------------------------------------------------------------
(* The blockhash that a bundle is built with (EngineFeeds).                  *)

(* While a blockhash can be used, it is no older than the time since it     *)
(* came and the longest request; a request has not lasted longer than that. *)
HashInv ==
  /\ hash \in [age : 0..HashStale, issued : Nat]
  /\ hash.age < HashStale => hash.issued <= hash.age + HashLimit
  /\ request \in [stage : {"sleeping", "asking", "ended"}, age : Nat]
  /\ request.stage = "asking" => request.age <= HashLimit

(* Either there is no blockhash yet or it is new.                           *)
LEMMA InitHash == FeedsInit => HashInv
<1>1. HashEvery \in Nat \ {0} /\ HashLimit \in Nat \ {0} /\ HashStale \in Nat \ {0}
  BY FeedsAssumption
<1> QED
  BY <1>1 DEF FeedsInit, NoHash, HashInv

(* Time makes both ages grow alike.                                         *)
LEMMA TickHash == ASSUME HashInv, FeedsTick PROVE HashInv'
<1>1. HashEvery \in Nat \ {0} /\ HashLimit \in Nat \ {0} /\ HashStale \in Nat \ {0}
  BY FeedsAssumption
<1> DEFINE age == IF request.stage = "ended" THEN 0
                  ELSE Capped(request.age + 1, HashEvery + HashLimit)
<1>2. /\ request.stage = "asking" => request.age < HashLimit
      /\ request' = [request EXCEPT !.age = age]
      /\ hash' = [age    |-> Capped(hash.age + 1, HashStale),
                  issued |-> Capped(hash.issued + 1, HashStale + HashLimit)]
  BY DEF FeedsTick
<1>3. /\ hash.age \in 0..HashStale /\ hash.issued \in Nat
      /\ hash.age < HashStale => hash.issued <= hash.age + HashLimit
      /\ request \in [stage : {"sleeping", "asking", "ended"}, age : Nat]
  BY DEF HashInv
<1>4. age \in Nat /\ (request.stage = "asking" => age <= request.age + 1)
  BY <1>1, <1>3 DEF Capped
<1>5. /\ request' \in [stage : {"sleeping", "asking", "ended"}, age : Nat]
      /\ request'.stage = "asking" => request'.age <= HashLimit
  <2> HIDE DEF age
  <2> QED
    BY <1>1, <1>2, <1>3, <1>4
<1>6. /\ hash'.age \in 0..HashStale /\ hash'.issued \in Nat
      /\ hash' = [age |-> hash'.age, issued |-> hash'.issued]
      /\ hash'.age < HashStale => hash.age < HashStale /\ hash'.age = hash.age + 1
      /\ hash'.issued <= hash.issued + 1
  BY <1>1, <1>2, <1>3 DEF Capped
<1>7. hash'.age < HashStale => hash'.issued <= hash'.age + HashLimit
  BY <1>1, <1>3, <1>6
<1> QED
  BY <1>5, <1>6, <1>7 DEF HashInv

(* Every step keeps the invariant.                                          *)
LEMMA NextHash == ASSUME HashInv, [FeedsNext]_feedsVars PROVE HashInv'
<1>1. HashEvery \in Nat \ {0} /\ HashLimit \in Nat \ {0} /\ HashStale \in Nat \ {0}
  BY FeedsAssumption
<1>2. CASE AskHash \/ HashFails \/ HashStops
  BY <1>1, <1>2 DEF AskHash, HashFails, HashStops, HashInv
<1>3. CASE HashArrives
  BY <1>1, <1>3 DEF HashArrives, HashInv
<1>4. CASE UNCHANGED hashVars
  BY <1>4 DEF hashVars, HashInv
<1>5. CASE TipStep \/ PriceStep \/ FeedsInterrupt \/ UNCHANGED feedsVars
  BY <1>4, <1>5 DEF TipStep, PriceStep, FeedsInterrupt, feedsVars
<1> QED
  BY <1>2, <1>3, <1>5, TickHash DEF FeedsNext

(* A blockhash that get returns is younger than its age limit and the       *)
(* longest request together, whatever the three durations and however many  *)
(* requests fail.                                                           *)
THEOREM FreshBlockhash == FeedsSpec => []BlockhashUsable
<1>1. HashInv => BlockhashUsable
  <2>1. HashLimit \in Nat \ {0} /\ HashStale \in Nat \ {0}
    BY FeedsAssumption
  <2> QED
    BY <2>1 DEF HashInv, BlockhashUsable
<1> QED
  BY InitHash, NextHash, <1>1, PTL DEF FeedsSpec
=============================================================================
