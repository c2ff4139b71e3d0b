------------------------------- MODULE PoolFeed -------------------------------
(***************************************************************************)
(* The life of one pool in the cache, from account updates of the Geyser    *)
(* stream (process_update in src/src/mempool/stream.rs) and the fetch tasks *)
(* they spawn.  An update holds what the pool's account holds; token        *)
(* programs, vault balances, the DLMM bitmap extension and the arrays of    *)
(* bins or ticks come from RPC calls that end in any order, and a task      *)
(* brings its answer into the cache by reading the whole entry, changing it *)
(* and writing it back.                                                     *)
(*                                                                          *)
(* Different pools share nothing but the programs of their mints, which may *)
(* become known at any time.  That an eviction needs ten minutes without an *)
(* update keeps it out of here; module PoolIndex has it.                    *)
(***************************************************************************)
EXTENDS Naturals

CONSTANTS Kinds,        \* kinds of pool to look at, out of AllKinds
          Areas,        \* bin or tick arrays the price may stand in
          MaxUpdates    \* bound: updates of the pool

(* raydium stands for AMM v4 and CP, clmm for Orca and Raydium CLMM.        *)
AllKinds == {"raydium", "pumpswap", "dlmm", "clmm"}
Mints    == {"a", "b"}
NoArea   == 0

ASSUME PoolFeedAssumption ==
  /\ Kinds \subseteq AllKinds
  /\ Areas # {} /\ Areas \subseteq Nat \ {NoArea}
  /\ MaxUpdates \in Nat

VARIABLES kind,
          seen,         \* updates the stream has stored
          arrived,      \* the update stored last is still being followed up
          entry,        \* the pool's entry in the cache
          known,        \* mints whose program is cached (mint_programs)
          cooling,      \* vault_last_fetch is less than VAULT_FETCH_COOLDOWN ago
          bitmap,       \* bitmap_checked: "unchecked", "false" or "true"
          marker,       \* bin_arrays_checked or tick_arrays_checked
          arrays,       \* the arrays in the cache: the area they were fetched around
          tasks,        \* vault, bitmap and array fetches under way
          announced,    \* number of the last update the router was told of
          spanned,      \* history: the last update fell into a task's read and write
          throttled,    \* history: the last update fell into a cooldown
          vaultFailed,  \* history: a vault fetch brought no balances
          crossed       \* history: two array fetches were under way together

caches  == <<entry, known, arrays>>
guards  == <<cooling, bitmap, marker>>
history == <<spanned, throttled, vaultFailed, crossed>>
vars    == <<kind, seen, arrived, caches, guards, tasks, announced, history>>

(* An entry: number and area of the update it was parsed from, and whether  *)
(* reserves and bitmap_extension are set.                                   *)
Entry == [update : 0..MaxUpdates, area : Areas, reserves : BOOLEAN, bitmap : BOOLEAN]

(* A task of update u: "calling" the RPC, or "writing" what it made of the  *)
(* entry it read.                                                           *)
Task(what, stage, copy) == [what |-> what, by |-> seen, stage |-> stage, copy |-> copy]

Tasks == [what : {"vaults", "bitmap", "arrays"}, by : 1..MaxUpdates,
          stage : {"calling", "writing"}, copy : Entry]

Cached == seen # 0

TypeOK ==
  /\ kind \in Kinds
  /\ seen \in 0..MaxUpdates /\ announced \in 0..seen
  /\ arrived \in BOOLEAN /\ cooling \in BOOLEAN
  /\ entry \in Entry
  /\ known \subseteq Mints
  /\ bitmap \in {"unchecked", "false", "true"}
  /\ marker \in Areas \cup {NoArea} /\ arrays \in Areas \cup {NoArea}
  /\ tasks \subseteq Tasks
  /\ spanned \in BOOLEAN /\ throttled \in BOOLEAN
  /\ vaultFailed \in BOOLEAN /\ crossed \in BOOLEAN

Parsed(u, area) == [update |-> u, area |-> area, reserves |-> FALSE, bitmap |-> FALSE]

Init ==
  /\ kind \in Kinds
  /\ seen = 0 /\ arrived = FALSE
  /\ \E area \in Areas : entry = Parsed(0, area)    \* no entry yet: ~Cached
  /\ known = {}
  /\ cooling = FALSE /\ bitmap = "unchecked" /\ marker = NoArea
  /\ arrays = NoArea
  /\ tasks = {}
  /\ announced = 0
  /\ spanned = FALSE /\ throttled = FALSE /\ vaultFailed = FALSE /\ crossed = FALSE

-----------------------------------------------------------------------------
(* process_update                                                           *)

(* These parsers read the token programs from the pool's account.           *)
ParserKnowsPrograms == kind \in {"raydium", "dlmm"}

(* Mutated form of the next action: an update in the cooldown is left out.  *)
ArriveThrottled(area) ==
  /\ ~arrived /\ seen < MaxUpdates
  /\ seen' = seen + 1
  /\ entry' = IF cooling THEN entry ELSE Parsed(seen + 1, area)
  /\ known' = IF ParserKnowsPrograms THEN Mints ELSE known
  /\ arrived' = TRUE
  /\ spanned' = \E t \in tasks : t.stage = "writing"
  /\ UNCHANGED <<kind, arrays, guards, tasks, announced, throttled, vaultFailed, crossed>>

(* An update is parsed and upserted.  The parsed state replaces the entry   *)
(* as a whole: no reserves for pools with vaults, no bitmap extension.      *)
Arrive(area) ==
  /\ ~arrived /\ seen < MaxUpdates
  /\ seen' = seen + 1
  /\ entry' = Parsed(seen + 1, area)
  /\ known' = IF ParserKnowsPrograms THEN Mints ELSE known
  /\ arrived' = TRUE
  /\ spanned' = \E t \in tasks : t.stage = "writing"
  /\ UNCHANGED <<kind, arrays, guards, tasks, announced, throttled, vaultFailed, crossed>>

(* Pools without reserves of their own need the vaults at every change, the *)
(* others until the programs are known.                                     *)
WantsVaults == kind \in {"raydium", "pumpswap"} \/ known # Mints

WantsBitmap == kind = "dlmm" /\ bitmap = "unchecked"

WantsArrays == kind \in {"dlmm", "clmm"} /\ marker # entry.area

Fetches ==
  (IF WantsVaults /\ ~cooling THEN {Task("vaults", "calling", entry)} ELSE {})
    \cup (IF WantsBitmap THEN {Task("bitmap", "calling", entry)} ELSE {})
    \cup (IF WantsArrays THEN {Task("arrays", "calling", entry)} ELSE {})

(* Mutated form: the flag is overwritten by the second mint.                *)
SecondMintReady == "b" \in known

MintsReady == known = Mints

(* Mutated form of the next action: an update that does not parse is        *)
(* followed up as well.                                                     *)
FollowUpUnparsed ==
  /\ arrived' = FALSE
  /\ tasks' = tasks \cup Fetches
  /\ cooling' = (cooling \/ WantsVaults)
  /\ bitmap' = IF WantsBitmap THEN "false" ELSE bitmap
  /\ marker' = IF WantsArrays THEN entry.area ELSE marker
  /\ announced' = IF MintsReady THEN seen ELSE announced
  /\ throttled' = (WantsVaults /\ cooling)
  /\ crossed' = IF WantsArrays THEN \E t \in tasks : t.what = "arrays" ELSE crossed
  /\ UNCHANGED <<kind, seen, caches, spanned, vaultFailed>>

(* ... after which the fetches are spawned, with their guards set first,    *)
(* and the router is told if both programs are known.  A program that is    *)
(* not is fetched too, see MintProgramFetched.                              *)
FollowUp ==
  /\ arrived
  /\ arrived' = FALSE
  /\ tasks' = tasks \cup Fetches
  /\ cooling' = (cooling \/ WantsVaults)
  /\ bitmap' = IF WantsBitmap THEN "false" ELSE bitmap
  /\ marker' = IF WantsArrays THEN entry.area ELSE marker
  /\ announced' = IF MintsReady THEN seen ELSE announced
  /\ throttled' = (WantsVaults /\ cooling)
  /\ crossed' = IF WantsArrays THEN \E t \in tasks : t.what = "arrays" ELSE crossed
  /\ UNCHANGED <<kind, seen, caches, spanned, vaultFailed>>

CooldownEnds ==
  /\ cooling
  /\ cooling' = FALSE
  /\ UNCHANGED <<kind, seen, arrived, caches, bitmap, marker, tasks, announced, history>>

-----------------------------------------------------------------------------
(* The fetch tasks                                                          *)

(* A fetch_mint_program answers: one for this pool, spawned with the update,*)
(* or one for another pool with that mint.                                  *)
MintProgramFetched(m) ==
  /\ known' = known \cup {m}
  /\ UNCHANGED <<kind, seen, arrived, entry, arrays, guards, tasks, announced, history>>

Calling(t, what) == t \in tasks /\ t.what = what /\ t.stage = "calling"

Reading(t, copy) == (tasks \ {t}) \cup {[t EXCEPT !.stage = "writing", !.copy = copy]}

(* Mutated form: the balances are stored for no kind of pool.               *)
VaultsAnswerOwners(t) ==
  /\ Calling(t, "vaults")
  /\ \E found \in BOOLEAN :
       /\ tasks' = Reading(t, entry)
       /\ known' = IF found THEN Mints ELSE known
       /\ vaultFailed' = (vaultFailed \/ ~found)
  /\ UNCHANGED <<kind, seen, arrived, entry, arrays, guards, announced, spanned, throttled,
                 crossed>>

(* fetch_vault_balances_for_pool: the answer holds the vaults or nulls; the *)
(* entry is read, the programs are stored at once, the balances for Raydium *)
(* pools only.                                                              *)
VaultsAnswer(t) ==
  /\ Calling(t, "vaults")
  /\ \E found \in BOOLEAN :
       /\ tasks' = Reading(t, IF kind = "raydium" THEN [entry EXCEPT !.reserves = found] ELSE entry)
       /\ known' = IF found THEN Mints ELSE known
       /\ vaultFailed' = (vaultFailed \/ ~found)
  /\ UNCHANGED <<kind, seen, arrived, entry, arrays, guards, announced, spanned, throttled,
                 crossed>>

VaultsFail(t) ==
  /\ Calling(t, "vaults")
  /\ tasks' = tasks \ {t}
  /\ vaultFailed' = TRUE
  /\ UNCHANGED <<kind, seen, arrived, caches, guards, announced, spanned, throttled, crossed>>

BitmapExists(t) ==
  /\ Calling(t, "bitmap")
  /\ tasks' = Reading(t, [entry EXCEPT !.bitmap = TRUE])
  /\ UNCHANGED <<kind, seen, arrived, caches, guards, announced, history>>

(* There is none, or the call failed: only then will it be repeated.        *)
BitmapMissing(t) ==
  /\ Calling(t, "bitmap")
  /\ tasks' = tasks \ {t}
  /\ bitmap' \in {"false", "unchecked"}
  /\ UNCHANGED <<kind, seen, arrived, caches, cooling, marker, announced, history>>

(* The changed copy is upserted, whatever the entry has become since.       *)
WriteBack(t) ==
  /\ t \in tasks /\ t.stage = "writing"
  /\ entry' = t.copy
  /\ tasks' = tasks \ {t}
  /\ bitmap' = IF t.what = "bitmap" THEN "true" ELSE bitmap
  /\ UNCHANGED <<kind, seen, arrived, known, arrays, cooling, marker, announced, history>>

ArraysFetched(t) ==
  /\ Calling(t, "arrays")
  /\ arrays' = t.copy.area
  /\ tasks' = tasks \ {t}
  /\ UNCHANGED <<kind, seen, arrived, entry, known, guards, announced, history>>

(* Mutated form: the marker stays after a failure.                          *)
ArraysFailMarked(t) ==
  /\ Calling(t, "arrays")
  /\ tasks' = tasks \ {t}
  /\ UNCHANGED <<kind, seen, arrived, caches, guards, announced, history>>

(* No answer, or an empty one: the marker goes, so the next update retries. *)
ArraysFail(t) ==
  /\ Calling(t, "arrays")
  /\ tasks' = tasks \ {t}
  /\ marker' = NoArea
  /\ UNCHANGED <<kind, seen, arrived, caches, cooling, bitmap, announced, history>>

-----------------------------------------------------------------------------
Stream == (\E area \in Areas : Arrive(area)) \/ FollowUp

FetchTask(t) ==
  \/ VaultsAnswer(t) \/ VaultsFail(t) \/ BitmapExists(t) \/ BitmapMissing(t)
  \/ ArraysFetched(t) \/ ArraysFail(t) \/ WriteBack(t)

Next ==
  \/ Stream
  \/ CooldownEnds
  \/ \E m \in Mints : MintProgramFetched(m)
  \/ \E t \in tasks : FetchTask(t)

Spec == Init /\ [][Next]_vars

(***************************************************************************)
(* Properties                                                               *)
(***************************************************************************)

NoTask(what) == \A t \in tasks : t.what # what

(* The router hears of no update before the programs of both mints are      *)
(* known, which the bundle builder takes for granted.                       *)
AnnouncedWithPrograms == announced # 0 => known = Mints

(* The entry is that of the last update, unless this update came between    *)
(* the read and the write of a fetch task: nothing else undoes an update.   *)
LatestUnlessSpanned == entry.update = seen \/ spanned

(* Once all array fetches are done, and unless two of them were under way   *)
(* together, the marker tells which arrays the cache holds: a failure never *)
(* leaves a marker that would keep the arrays from being fetched again.     *)
MarkerTellsArrays ==
  marker # NoArea /\ NoTask("arrays") /\ ~crossed => arrays = marker

Settled == Cached /\ ~arrived /\ NoTask("vaults") /\ ~vaultFailed

(* A Raydium pool is left without reserves by a failed fetch or by an       *)
(* update within the cooldown only.                                         *)
ReservesUnlessThrottled == kind = "raydium" /\ Settled /\ ~throttled => entry.reserves

=============================================================================
