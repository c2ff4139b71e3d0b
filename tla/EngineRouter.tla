------------------------------ MODULE EngineRouter ------------------------------
(***************************************************************************)
(* The main engine (src/src/main.rs) from the notice that a pool has        *)
(* changed to the dispatch of a bundle, two tasks and a channel in between:  *)
(*                                                                          *)
(*   stream      stores a pool and notices the router, never waiting for it *)
(*   router      one thread: takes a notice, searches, submits              *)
(*                                                                          *)
(* What a search finds and a simulation says is any outcome here, module    *)
(* RouteSearch has it; whether there are a blockhash and a tip floor is     *)
(* left open, EngineFeeds has their tasks; what becomes of a dispatch is in *)
(* ConfirmationTracker, what an eviction does in PoolIndex.                 *)
(***************************************************************************)
EXTENDS Naturals, Sequences, FiniteSets

CONSTANTS Pools, Slots,
          Arbs,          \* keys of recent_arbs: the tokens a route passes through
          Capacity,      \* STATE_CHANGE_CHANNEL_CAPACITY, 256
          MaxRecent,     \* entries of recent_pools before it is thinned, 10_000
          SlotsKept,     \* slots it then keeps, 10
          MaxSubs,       \* MAX_SUBS_PER_ARB, 5
          Window,        \* DEDUP_WINDOW, 2 s
          Gains,         \* estimated profits that a best route may have
          Slippage,      \* slippage_tolerance, a fraction <<num, den>>
          TipFraction,   \* tip_fraction, a fraction <<num, den>>
          Floors,        \* dynamic tip floors, 0: none or a stale one
          MinTip, MinProfit,
          MaxSaneProfit, \* 10 SOL
          Modes,         \* [dry, skip, public]: DRY_RUN, SKIP_SIMULATOR, SEND_PUBLIC
          MaxChanges     \* bound: changes of pools

ASSUME EngineAssumption ==
  /\ "none" \notin Pools
  /\ Slots \subseteq Nat \ {0}
  /\ {Capacity, MaxSubs, Window} \subseteq Nat \ {0}
  /\ {MaxRecent, SlotsKept, MinTip, MinProfit, MaxSaneProfit, MaxChanges} \subseteq Nat
  /\ Gains \subseteq Nat /\ Floors \subseteq Nat
  /\ \A f \in {Slippage, TipFraction} : f[1] \in 0..f[2] /\ f[2] > 0
  /\ Modes \subseteq [dry : BOOLEAN, skip : BOOLEAN, public : BOOLEAN]

VARIABLES mode,
          stored,     \* per pool, the change the cache holds, [change, slot]
          arrived,    \* the change stored last, until the router is noticed
          changes,    \* changes so far
          channel,    \* notices on their way, [pool, slot, change]
          recent,     \* recent_pools: the slot of the notice handled last, or 0
          router,     \* where the router thread is
          subs,       \* recent_arbs: [count, age]
          publicSent,
          stopping,   \* the shutdown signal
          running,    \* of these two, the tasks still running
          looked,     \* history: per pool, the last change the router has looked at,
                      \* and the slot of the notice it handled last
          passedOver, \* history: per pool, the last change that was dropped or expired
          sent        \* history: per arb, the ages of its last 2 * MaxSubs dispatches, the
                      \* newest first; Window: that long ago, or none

cacheVars  == <<stored, arrived, changes>>
routerVars == <<recent, router, subs, publicSent, sent>>
taskVars   == <<mode, stopping, running>>
history    == <<looked, passedOver>>
vars == <<cacheVars, channel, routerVars, taskVars, history>>

Tasks    == {"stream", "router"}
NoEntry  == [count |-> 0, age |-> 0]
NoChange == [pool |-> "none", slot |-> 0, change |-> 0]
Idle     == [stage |-> "idle"]

-----------------------------------------------------------------------------
Init ==
  /\ mode \in Modes
  /\ stored = [p \in Pools |-> [change |-> 0, slot |-> 0]]
  /\ arrived = NoChange
  /\ changes = 0
  /\ channel = <<>>
  /\ recent = [p \in Pools |-> 0]
  /\ router = Idle
  /\ subs = [a \in Arbs |-> NoEntry]
  /\ publicSent = FALSE
  /\ stopping = FALSE
  /\ running = Tasks
  /\ looked = stored
  /\ passedOver = [p \in Pools |-> 0]
  /\ sent = [a \in Arbs |-> [i \in 1..(2 * MaxSubs) |-> Window]]

-----------------------------------------------------------------------------
(* Stream.                                                                  *)

\* A change is parsed and stored; replays bring any slot.
Store(p, slot) ==
  /\ "stream" \in running /\ arrived = NoChange
  /\ changes < MaxChanges
  /\ changes' = changes + 1
  /\ stored' = [stored EXCEPT ![p] = [change |-> changes + 1, slot |-> slot]]
  /\ arrived' = [pool |-> p, slot |-> slot, change |-> changes + 1]
  /\ UNCHANGED <<channel, routerVars, taskVars, history>>

\* The change goes unnoticed: a mint's program is not known yet.
PassOverUnready ==
  /\ "stream" \in running /\ arrived # NoChange
  /\ passedOver' = [passedOver EXCEPT ![arrived.pool] = arrived.change]
  /\ arrived' = NoChange
  /\ UNCHANGED <<stored, changes, channel, routerVars, taskVars, looked>>

\* try_send: a full channel, or one whose reader is gone, takes no notice.
Notice ==
  /\ "stream" \in running /\ arrived # NoChange
  /\ IF Len(channel) < Capacity /\ "router" \in running
       THEN channel' = Append(channel, arrived) /\ UNCHANGED passedOver
       ELSE /\ passedOver' = [passedOver EXCEPT ![arrived.pool] = arrived.change]
            /\ UNCHANGED channel
  /\ arrived' = NoChange
  /\ UNCHANGED <<stored, changes, routerVars, taskVars, looked>>

\* By the signal, between two updates, or because the stream has ended.
StreamEnds ==
  /\ "stream" \in running /\ arrived = NoChange
  /\ running' = running \ {"stream"}
  /\ UNCHANGED <<cacheVars, channel, routerVars, mode, stopping, history>>

-----------------------------------------------------------------------------
(* Router.                                                                  *)

\* Mutated form of the next definition: a pool is handled once.
HandledOnce(notice) == recent[notice.pool] # 0

\* The dedup by slot.
Handled(notice) == recent[notice.pool] = notice.slot

\* recent_pools with a notice, thinned when there are too many entries.
Remember(notice) ==
  LET all == [recent EXCEPT ![notice.pool] = notice.slot]
  IN  IF Cardinality({p \in Pools : all[p] # 0}) > MaxRecent
      THEN [p \in Pools |-> IF notice.slot < all[p] + SlotsKept THEN all[p] ELSE 0]
      ELSE all

Take ==
  /\ "router" \in running /\ router = Idle /\ ~stopping
  /\ channel # <<>>
  /\ channel' = Tail(channel)
  /\ LET notice == Head(channel) IN
       \/ Handled(notice) /\ UNCHANGED <<recent, router, history>>
       \/ \* the pool has waited for longer than pool_state_ttl
          /\ ~Handled(notice)
          /\ recent' = Remember(notice)
          /\ passedOver' = [passedOver EXCEPT ![notice.pool] = stored[notice.pool].change]
          /\ looked' = [looked EXCEPT ![notice.pool].slot = notice.slot]
          /\ UNCHANGED router
       \/ \* a pool with little SOL is not searched
          /\ ~Handled(notice)
          /\ recent' = Remember(notice)
          /\ router' \in {Idle, [stage |-> "searching", pool |-> notice.pool]}
          /\ looked' = [looked EXCEPT ![notice.pool] = [change |-> stored[notice.pool].change,
                                                       slot   |-> notice.slot]]
          /\ UNCHANGED passedOver
  /\ UNCHANGED <<cacheVars, subs, publicSent, sent, taskVars>>

Portion(x, f) == (x * f[1]) \div f[2]

\* What SKIP_SIMULATOR submits: the estimate, less the slippage, pays the tip.
Worthwhile(gain, floor) ==
  LET adjusted == Portion(gain, <<Slippage[2] - Slippage[1], Slippage[2]>>)
      least    == IF floor > MinTip THEN floor ELSE MinTip
      share    == Portion(adjusted, TipFraction)
      tip      == IF share > least THEN share ELSE least
  IN  gain <= MaxSaneProfit /\ tip < adjusted /\ adjusted - tip >= MinProfit

\* The search finds nothing worth submitting, or a route of an arb.
Search ==
  /\ router.stage = "searching"
  /\ looked' = [looked EXCEPT ![router.pool].change = stored[router.pool].change]
  /\ \/ router' = Idle
     \/ /\ ~mode.dry
        /\ \E gain \in Gains, floor \in Floors : ~mode.skip \/ gain = 0 \/ Worthwhile(gain, floor)
        /\ \E arb \in Arbs : router' = [stage |-> "submitting", arb |-> arb]
  /\ UNCHANGED <<cacheVars, channel, recent, subs, publicSent, sent, taskVars,
                 passedOver>>

\* Mutated form of the next definition: an entry is dropped too soon.
EntryShort(arb) == IF subs[arb].age >= 1 THEN NoEntry ELSE subs[arb]

\* The entry of an arb, once those of an earlier window are dropped.
Entry(arb) == IF subs[arb].age >= Window THEN NoEntry ELSE subs[arb]

\* An attempt counts whether or not there is a blockhash and the build succeeds.
Submit ==
  /\ router.stage = "submitting"
  /\ router' = Idle
  /\ LET arb  == router.arb
         free == Entry(arb).count < MaxSubs
     IN  /\ subs' = [a \in Arbs |-> IF a = arb /\ free
                                    THEN [Entry(a) EXCEPT !.count = @ + 1] ELSE Entry(a)]
         /\ \/ UNCHANGED <<publicSent, sent>>    \* no blockhash, or the build fails
            \/ /\ free
               /\ publicSent' = (publicSent \/ mode.public)
               /\ sent' = [sent EXCEPT ![arb] = [i \in DOMAIN @ |-> IF i = 1 THEN 0 ELSE @[i - 1]]]
  /\ UNCHANGED <<cacheVars, channel, recent, taskVars, history>>

\* The signal, or a channel that is empty and has no writer any more.
RouterEnds ==
  /\ "router" \in running /\ router = Idle
  /\ stopping \/ (channel = <<>> /\ "stream" \notin running)
  /\ running' = running \ {"router"}
  /\ UNCHANGED <<cacheVars, channel, routerVars, mode, stopping, history>>

-----------------------------------------------------------------------------
(* The signal, and time.                                                    *)

Interrupt ==
  /\ ~stopping
  /\ stopping' = TRUE
  /\ UNCHANGED <<cacheVars, channel, routerVars, mode, running, history>>

AtMost(x, most) == IF x > most THEN most ELSE x

Tick ==
  /\ subs' = [a \in Arbs |-> IF subs[a].count = 0 THEN NoEntry
                             ELSE [subs[a] EXCEPT !.age = AtMost(@ + 1, Window)]]
  /\ sent' = [a \in Arbs |-> [i \in DOMAIN sent[a] |-> AtMost(sent[a][i] + 1, Window)]]
  /\ UNCHANGED <<cacheVars, channel, recent, router, publicSent, taskVars, history>>

Next ==
  \/ \E p \in Pools, slot \in Slots : Store(p, slot)
  \/ PassOverUnready \/ Notice \/ StreamEnds
  \/ Take \/ Search \/ Submit \/ RouterEnds
  \/ Interrupt \/ Tick

Spec == Init /\ [][Next]_vars

-----------------------------------------------------------------------------
(* Properties.                                                              *)

Noticed(p) == \/ arrived = [pool |-> p, slot |-> stored[p].slot, change |-> stored[p].change]
              \/ \E i \in DOMAIN channel : channel[i].change = stored[p].change

\* What the cache holds of a pool is looked at by the router, or about to be,
\* with two exceptions only: the change was dropped on its way, because of a
\* mint, a full channel or its age, or the router had handled a notice of that
\* pool and that slot before.  Nothing else lets a change go unseen.
\* (process_update's try_send, the dedup by slot in main.rs)
ChangesSeen ==
  \A p \in Pools :
    \/ looked[p].change = stored[p].change
    \/ Noticed(p)
    \/ passedOver[p] = stored[p].change
    \/ looked[p].slot = stored[p].slot

\* Whatever the moment it starts at, a window of DEDUP_WINDOW sees less than
\* twice MAX_SUBS_PER_ARB dispatches of an arb; not MAX_SUBS_PER_ARB, as an
\* entry's window starts with its first attempt.  That is, of the last
\* 2 * MAX_SUBS_PER_ARB the oldest is a window ago.  (recent_arbs in main.rs)
SubmissionsPerWindow == \A a \in Arbs : sent[a][2 * MaxSubs] >= Window
================================================================================
