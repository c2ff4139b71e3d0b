---------------------------- MODULE PoolFeedProofs ----------------------------
(***************************************************************************)
(* Theorems about the feed of one pool, for any kind of pool, any arrays    *)
(* and any number of updates.                                               *)
(***************************************************************************)
EXTENDS PoolFeed, TLAPS

USE PoolFeedAssumption

(* A follow-up has an update to follow, and each kind of task knows only    *)
(* its own stages.                                                          *)
TaskShape ==
  /\ arrived => Cached
  /\ \A t \in tasks : t.what = "arrays" => t.stage = "calling"

ShapeInv == TypeOK /\ TaskShape

(* Without an update between read and write, every copy is of the last one. *)
CopiesCurrent ==
  ~spanned => /\ entry.update = seen
              /\ \A t \in tasks : t.stage = "writing" => t.copy.update = seen

(* The one array fetch under way is the one that the marker stands for.     *)
MarkerInv ==
  ~crossed =>
    /\ \A t, u \in tasks : t.what = "arrays" /\ u.what = "arrays" => t = u
    /\ marker # NoArea =>
         /\ \A t \in tasks : t.what = "arrays" => t.copy.area = marker
         /\ NoTask("arrays") => arrays = marker

(* A Raydium pool without reserves has a vault fetch under way; fetches     *)
(* that find the balances never write back an entry without them.           *)
ReservesInv ==
  kind = "raydium" =>
    /\ \A t \in tasks : t.what = "vaults"
    /\ ~vaultFailed =>
         /\ \A t \in tasks : t.stage = "writing" => t.copy.reserves
         /\ Cached /\ ~arrived /\ ~throttled => entry.reserves \/ ~NoTask("vaults")

-----------------------------------------------------------------------------
LEMMA ParsedType == ASSUME NEW u \in 0..MaxUpdates, NEW area \in Areas
                    PROVE  Parsed(u, area) \in Entry
  BY DEF Parsed, Entry

LEMMA ReadingType ==
  ASSUME TypeOK, NEW t \in tasks, NEW copy \in Entry
  PROVE  /\ Reading(t, copy) \subseteq Tasks
         /\ tasks \ {t} \subseteq Reading(t, copy)
         /\ \A u \in Reading(t, copy) :
              u \in tasks \/ (u.what = t.what /\ u.stage = "writing" /\ u.copy = copy)
  BY DEF TypeOK, Reading, Tasks

LEMMA FetchesType ==
  ASSUME TypeOK, Cached
  PROVE  /\ Fetches \subseteq Tasks
         /\ \A u \in Fetches : u.stage = "calling" /\ u.copy = entry
         /\ \A u \in Fetches : u.what = "arrays" => WantsArrays /\ u = Task("arrays", "calling", entry)
  BY DEF TypeOK, Cached, Fetches, Task, Tasks

LEMMA InitShape == Init => ShapeInv
<1> SUFFICES ASSUME Init PROVE ShapeInv
  OBVIOUS
<1>0. NoArea \in Areas \cup {NoArea}
  OBVIOUS
<1>1. 0 \in 0..MaxUpdates
  OBVIOUS
<1>2. entry \in Entry
  BY <1>1, ParsedType DEF Init
<1>3. /\ kind \in Kinds /\ seen = 0 /\ announced = 0 /\ arrays = NoArea
      /\ bitmap = "unchecked" /\ marker = NoArea /\ known = {} /\ tasks = {}
  BY DEF Init
<1>4. /\ arrived = FALSE /\ cooling = FALSE /\ spanned = FALSE /\ throttled = FALSE
      /\ vaultFailed = FALSE /\ crossed = FALSE
  BY DEF Init
<1>5. TaskShape
  BY <1>3, <1>4 DEF TaskShape
<1>6. seen \in 0..MaxUpdates /\ announced \in 0..seen
  BY <1>1, <1>3
<1>7. marker \in Areas \cup {NoArea} /\ arrays \in Areas \cup {NoArea}
  BY <1>0, <1>3
<1>8. known \subseteq Mints /\ tasks \subseteq Tasks
  BY <1>3
<1>9. TypeOK
  BY <1>2, <1>3, <1>4, <1>6, <1>7, <1>8 DEF TypeOK
<1> QED
  BY <1>5, <1>9 DEF ShapeInv

LEMMA NextShape == ShapeInv /\ [Next]_vars => ShapeInv'
<1> SUFFICES ASSUME ShapeInv, [Next]_vars PROVE ShapeInv'
  OBVIOUS
<1>t. TypeOK /\ TaskShape
  BY DEF ShapeInv
<1> USE DEF ShapeInv, TypeOK, TaskShape, Cached
<1>1. ASSUME NEW area \in Areas, Arrive(area) PROVE ShapeInv'
  <2>1. seen + 1 \in 0..MaxUpdates
    BY <1>1 DEF Arrive
  <2>2. entry' \in Entry
    BY <1>1, <2>1, ParsedType DEF Arrive
  <2> QED
    BY <1>1, <2>1, <2>2 DEF Arrive, guards
<1>2. CASE FollowUp
  <2>1. Fetches \subseteq Tasks /\ \A u \in Fetches : u.stage = "calling"
    BY <1>2, FetchesType DEF FollowUp
  <2>2. entry.area \in Areas
    BY DEF Entry
  <2>3. /\ tasks' \subseteq Tasks
        /\ \A u \in tasks' : u.what = "arrays" => u.stage = "calling"
    BY <1>2, <2>1 DEF FollowUp
  <2>4. /\ bitmap' \in {"unchecked", "false", "true"}
        /\ marker' \in Areas \cup {NoArea}
        /\ announced' \in 0..seen
    BY <1>2, <2>2 DEF FollowUp
  <2>5. cooling' \in BOOLEAN /\ throttled' \in BOOLEAN /\ crossed' \in BOOLEAN
    BY <1>2 DEF FollowUp, WantsVaults
  <2>6. UNCHANGED <<kind, seen, entry, known, arrays, spanned, vaultFailed>> /\ arrived' = FALSE
    BY <1>2 DEF FollowUp, caches
  <2> QED
    BY <2>3, <2>4, <2>5, <2>6
<1>3. CASE CooldownEnds
  BY <1>3 DEF CooldownEnds, caches, history
<1>4. ASSUME NEW m \in Mints, MintProgramFetched(m) PROVE ShapeInv'
  BY <1>4 DEF MintProgramFetched, guards, history
<1>5. ASSUME NEW t \in tasks, VaultsAnswer(t) PROVE ShapeInv'
  <2>1. PICK found \in BOOLEAN :
          /\ tasks' = Reading(t, IF kind = "raydium" THEN [entry EXCEPT !.reserves = found] ELSE entry)
          /\ known' = IF found THEN Mints ELSE known
          /\ vaultFailed' = (vaultFailed \/ ~found)
    BY <1>5 DEF VaultsAnswer
  <2>2. (IF kind = "raydium" THEN [entry EXCEPT !.reserves = found] ELSE entry) \in Entry
    BY DEF Entry
  <2>3. tasks' \subseteq Tasks /\ \A u \in tasks' : u \in tasks \/ (u.what = t.what /\ u.stage = "writing")
    BY <2>1, <2>2, ReadingType
  <2> QED
    BY <1>5, <2>1, <2>3 DEF VaultsAnswer, Calling, guards
<1>6. ASSUME NEW t \in tasks, VaultsFail(t) PROVE ShapeInv'
  BY <1>6 DEF VaultsFail, caches, guards
<1>7. ASSUME NEW t \in tasks, BitmapExists(t) PROVE ShapeInv'
  <2>1. [entry EXCEPT !.bitmap = TRUE] \in Entry
    BY DEF Entry
  <2>2. tasks' \subseteq Tasks /\ \A u \in tasks' : u \in tasks \/ (u.what = t.what /\ u.stage = "writing")
    <3>1. PICK copy \in Entry : tasks' = Reading(t, copy)
      BY <1>7, <2>1 DEF BitmapExists
    <3> QED
      BY <3>1, ReadingType
  <2> QED
    BY <1>7, <2>2 DEF BitmapExists, Calling, caches, guards, history
<1>8. ASSUME NEW t \in tasks, BitmapMissing(t) PROVE ShapeInv'
  BY <1>8 DEF BitmapMissing, caches, history
<1>9. ASSUME NEW t \in tasks, WriteBack(t) PROVE ShapeInv'
  BY <1>9 DEF WriteBack, history, Tasks
<1>10. ASSUME NEW t \in tasks, ArraysFetched(t) PROVE ShapeInv'
  BY <1>10 DEF ArraysFetched, guards, history, Tasks, Entry
<1>11. ASSUME NEW t \in tasks, ArraysFail(t) PROVE ShapeInv'
  BY <1>11 DEF ArraysFail, caches, history
<1>12. CASE UNCHANGED vars
  BY <1>12 DEF vars, caches, guards, history
<1> QED
  BY <1>1, <1>2, <1>3, <1>4, <1>5, <1>6, <1>7, <1>8, <1>9, <1>10, <1>11, <1>12
     DEF Next, Stream, FetchTask

(* The variables keep their types in every behaviour.                       *)
THEOREM FeedTypeCorrect == Spec => []TypeOK
<1>1. ShapeInv => TypeOK
  BY DEF ShapeInv
<1> QED
  BY InitShape, NextShape, <1>1, PTL DEF Spec

-----------------------------------------------------------------------------
(* Programs become known for good, and a follow-up looks before it tells.   *)
LEMMA NextAnnounced ==
  ShapeInv /\ AnnouncedWithPrograms /\ [Next]_vars => AnnouncedWithPrograms'
<1> SUFFICES ASSUME ShapeInv, AnnouncedWithPrograms, [Next]_vars PROVE AnnouncedWithPrograms'
  OBVIOUS
<1>1. known \subseteq Mints
  BY DEF ShapeInv, TypeOK
<1>2. CASE FollowUp
  BY <1>2 DEF FollowUp, MintsReady, AnnouncedWithPrograms, caches
<1>3. ASSUME announced' = announced, known \subseteq known', known' \subseteq Mints
      PROVE  AnnouncedWithPrograms'
  BY <1>3 DEF AnnouncedWithPrograms
<1>4. CASE ~FollowUp
  BY <1>1, <1>3, <1>4
     DEF Next, Stream, FetchTask, Arrive, CooldownEnds, MintProgramFetched, VaultsAnswer,
         VaultsFail, BitmapExists, BitmapMissing, WriteBack, ArraysFetched, ArraysFail,
         vars, caches
<1> QED
  BY <1>2, <1>4

(* The router hears of no update before both token programs are known.      *)
THEOREM ProgramsFirst == Spec => []AnnouncedWithPrograms
<1>1. Init => AnnouncedWithPrograms
  BY DEF Init, AnnouncedWithPrograms
<1> QED
  BY InitShape, NextShape, NextAnnounced, <1>1, PTL DEF Spec

-----------------------------------------------------------------------------
(* A task that reads takes the entry of the last update, and only an update *)
(* that falls between a read and a write makes a copy old.                  *)
LEMMA NextCopies == ShapeInv /\ CopiesCurrent /\ [Next]_vars => CopiesCurrent'
<1> SUFFICES ASSUME ShapeInv, CopiesCurrent, [Next]_vars, ~spanned'
             PROVE  /\ entry'.update = seen'
                    /\ \A t \in tasks' : t.stage = "writing" => t.copy.update = seen'
  BY DEF CopiesCurrent
<1>t. TypeOK /\ TaskShape
  BY DEF ShapeInv
<1> DEFINE Goal == /\ entry'.update = seen'
                   /\ \A t \in tasks' : t.stage = "writing" => t.copy.update = seen'
<1>1. ASSUME NEW area \in Areas, Arrive(area) PROVE Goal
  <2>1. entry'.update = seen'
    BY <1>1 DEF Arrive, Parsed
  <2>2. \A t \in tasks : t.stage # "writing"
    BY <1>1 DEF Arrive
  <2> QED
    BY <1>1, <2>1, <2>2 DEF Arrive
<1>h. ASSUME UNCHANGED spanned
      PROVE  entry.update = seen /\ \A t \in tasks : t.stage = "writing" => t.copy.update = seen
  BY <1>h DEF CopiesCurrent
<1>2. CASE FollowUp
  <2>1. Cached /\ UNCHANGED spanned
    BY <1>2, <1>t DEF FollowUp, TaskShape
  <2>2. \A u \in Fetches : u.stage = "calling"
    BY <1>t, <2>1, FetchesType
  <2> QED
    BY <1>2, <1>h, <2>1, <2>2 DEF FollowUp, caches
<1>3. CASE CooldownEnds
  BY <1>3, <1>h DEF CooldownEnds, caches, history
<1>4. ASSUME NEW m \in Mints, MintProgramFetched(m) PROVE Goal
  BY <1>4, <1>h DEF MintProgramFetched, history
<1>5. ASSUME NEW t \in tasks, VaultsAnswer(t) PROVE Goal
  <2>1. PICK copy \in Entry : tasks' = Reading(t, copy) /\ copy.update = entry.update
    <3>1. PICK found \in BOOLEAN :
            tasks' = Reading(t, IF kind = "raydium" THEN [entry EXCEPT !.reserves = found] ELSE entry)
      BY <1>5 DEF VaultsAnswer
    <3>2. [entry EXCEPT !.reserves = found] \in Entry /\ entry \in Entry
          /\ [entry EXCEPT !.reserves = found].update = entry.update
      BY <1>t DEF TypeOK, Entry
    <3> QED
      BY <3>1, <3>2
  <2>2. \A u \in tasks' : u \in tasks \/ u.copy = copy
    BY <1>t, <2>1, ReadingType
  <2> QED
    BY <1>5, <1>h, <2>1, <2>2 DEF VaultsAnswer
<1>6. ASSUME NEW t \in tasks, VaultsFail(t) PROVE Goal
  BY <1>6, <1>h DEF VaultsFail, caches
<1>7. ASSUME NEW t \in tasks, BitmapExists(t) PROVE Goal
  <2>1. PICK copy \in Entry : tasks' = Reading(t, copy) /\ copy.update = entry.update
    <3>1. [entry EXCEPT !.bitmap = TRUE] \in Entry
          /\ [entry EXCEPT !.bitmap = TRUE].update = entry.update
      BY <1>t DEF TypeOK, Entry
    <3> QED
      BY <1>7, <3>1 DEF BitmapExists
  <2>2. \A u \in tasks' : u \in tasks \/ u.copy = copy
    BY <1>t, <2>1, ReadingType
  <2> QED
    BY <1>7, <1>h, <2>1, <2>2 DEF BitmapExists, caches, history
<1>8. ASSUME NEW t \in tasks, BitmapMissing(t) PROVE Goal
  BY <1>8, <1>h DEF BitmapMissing, caches, history
<1>9. ASSUME NEW t \in tasks, WriteBack(t) PROVE Goal
  BY <1>9, <1>h DEF WriteBack, history
<1>10. ASSUME NEW t \in tasks, ArraysFetched(t) PROVE Goal
  BY <1>10, <1>h DEF ArraysFetched, history
<1>11. ASSUME NEW t \in tasks, ArraysFail(t) PROVE Goal
  BY <1>11, <1>h DEF ArraysFail, caches, history
<1>12. CASE UNCHANGED vars
  BY <1>12, <1>h DEF vars, caches, history
<1> QED
  BY <1>1, <1>2, <1>3, <1>4, <1>5, <1>6, <1>7, <1>8, <1>9, <1>10, <1>11, <1>12
     DEF Next, Stream, FetchTask

(* The entry is of the last update unless that fell between a task's read   *)
(* and its write.                                                           *)
THEOREM NothingElseUndoesUpdates == Spec => []LatestUnlessSpanned
<1>1. Init => CopiesCurrent
  BY DEF Init, CopiesCurrent, Parsed
<1>2. ShapeInv /\ CopiesCurrent => LatestUnlessSpanned
  BY DEF ShapeInv, TypeOK, CopiesCurrent, LatestUnlessSpanned
<1> QED
  BY InitShape, NextShape, NextCopies, <1>1, <1>2, PTL DEF Spec

-----------------------------------------------------------------------------
(* The array fetch that sets the marker is the only one unless crossed says *)
(* so, and a failed one takes the marker back.                              *)
LEMMA NextMarker == ShapeInv /\ MarkerInv /\ [Next]_vars => MarkerInv'
<1> SUFFICES ASSUME ShapeInv, MarkerInv, [Next]_vars PROVE MarkerInv'
  OBVIOUS
<1>t. TypeOK /\ TaskShape
  BY DEF ShapeInv
(* Only the array fetches, the marker and the arrays matter.                *)
<1>u. ASSUME UNCHANGED <<crossed, marker, arrays>>,
             \A t : (t \in tasks /\ t.what = "arrays") <=> (t \in tasks' /\ t.what = "arrays")
      PROVE  MarkerInv'
  BY <1>u DEF MarkerInv, NoTask
<1>1. ASSUME NEW area \in Areas, Arrive(area) PROVE MarkerInv'
  BY <1>1, <1>u DEF Arrive, guards
<1>2. CASE FollowUp
  <2>1. Cached
    BY <1>2, <1>t DEF FollowUp, TaskShape
  <2>2. \A u \in Fetches : u.what = "arrays" => WantsArrays /\ u = Task("arrays", "calling", entry)
    BY <1>t, <2>1, FetchesType
  <2>3. CASE WantsArrays
    <3>1. \A t \in tasks : t.what = "arrays" => crossed'
      BY <1>2, <2>3 DEF FollowUp
    <3>2. ~crossed' => \A u \in tasks' : u.what = "arrays" => u = Task("arrays", "calling", entry)
      BY <1>2, <2>2, <3>1 DEF FollowUp
    <3>3. Task("arrays", "calling", entry) \in tasks'
          /\ Task("arrays", "calling", entry).what = "arrays"
          /\ Task("arrays", "calling", entry).copy.area = marker'
      BY <1>2, <2>3 DEF FollowUp, Fetches, Task
    <3> QED
      BY <3>2, <3>3 DEF MarkerInv, NoTask
  <2>4. CASE ~WantsArrays
    BY <1>2, <1>u, <2>2, <2>4 DEF FollowUp, caches
  <2> QED
    BY <2>3, <2>4
<1>3. CASE CooldownEnds
  BY <1>3, <1>u DEF CooldownEnds, caches, history
<1>4. ASSUME NEW m \in Mints, MintProgramFetched(m) PROVE MarkerInv'
  BY <1>4, <1>u DEF MintProgramFetched, guards, history
<1>5. ASSUME NEW t \in tasks, VaultsAnswer(t) PROVE MarkerInv'
  <2>1. PICK copy \in Entry : tasks' = Reading(t, copy)
    <3>1. PICK found \in BOOLEAN :
            tasks' = Reading(t, IF kind = "raydium" THEN [entry EXCEPT !.reserves = found] ELSE entry)
      BY <1>5 DEF VaultsAnswer
    <3>2. [entry EXCEPT !.reserves = found] \in Entry /\ entry \in Entry
      BY <1>t DEF TypeOK, Entry
    <3> QED
      BY <3>1, <3>2
  <2>2. t.what = "vaults" /\ UNCHANGED <<crossed, marker, arrays>>
    BY <1>5 DEF VaultsAnswer, Calling, guards
  <2>3. /\ tasks \ {t} \subseteq tasks'
        /\ \A u \in tasks' : u \in tasks \/ u.what = "vaults"
    BY <1>t, <2>1, <2>2, ReadingType
  <2> QED
    BY <1>u, <2>2, <2>3
<1>6. ASSUME NEW t \in tasks, VaultsFail(t) PROVE MarkerInv'
  BY <1>6, <1>u DEF VaultsFail, Calling, caches, guards
<1>7. ASSUME NEW t \in tasks, BitmapExists(t) PROVE MarkerInv'
  <2>1. PICK copy \in Entry : tasks' = Reading(t, copy)
    <3>1. [entry EXCEPT !.bitmap = TRUE] \in Entry
      BY <1>t DEF TypeOK, Entry
    <3> QED
      BY <1>7, <3>1 DEF BitmapExists
  <2>2. t.what = "bitmap" /\ UNCHANGED <<crossed, marker, arrays>>
    BY <1>7 DEF BitmapExists, Calling, caches, guards, history
  <2>3. /\ tasks \ {t} \subseteq tasks'
        /\ \A u \in tasks' : u \in tasks \/ u.what = "bitmap"
    BY <1>t, <2>1, <2>2, ReadingType
  <2> QED
    BY <1>u, <2>2, <2>3
<1>8. ASSUME NEW t \in tasks, BitmapMissing(t) PROVE MarkerInv'
  BY <1>8, <1>u DEF BitmapMissing, Calling, caches, history
<1>9. ASSUME NEW t \in tasks, WriteBack(t) PROVE MarkerInv'
  BY <1>9, <1>t, <1>u DEF WriteBack, TaskShape, history
<1>10. ASSUME NEW t \in tasks, ArraysFetched(t) PROVE MarkerInv'
  <2>1. ~crossed => \A u \in tasks : u.what = "arrays" => u = t
    BY <1>10 DEF ArraysFetched, Calling, MarkerInv
  <2>2. ~crossed /\ marker # NoArea => t.copy.area = marker
    BY <1>10 DEF ArraysFetched, Calling, MarkerInv
  <2>3. tasks' = tasks \ {t} /\ arrays' = t.copy.area /\ UNCHANGED <<marker, crossed>>
    BY <1>10 DEF ArraysFetched, guards, history
  <2> QED
    BY <2>1, <2>2, <2>3 DEF MarkerInv, NoTask
<1>11. ASSUME NEW t \in tasks, ArraysFail(t) PROVE MarkerInv'
  BY <1>11 DEF ArraysFail, MarkerInv, history
<1>12. CASE UNCHANGED vars
  BY <1>12, <1>u DEF vars, caches, guards, history
<1> QED
  BY <1>1, <1>2, <1>3, <1>4, <1>5, <1>6, <1>7, <1>8, <1>9, <1>10, <1>11, <1>12
     DEF Next, Stream, FetchTask

(* Once the array fetches are done the marker tells which arrays are cached.*)
THEOREM MarkerCorrect == Spec => []MarkerTellsArrays
<1>1. Init => MarkerInv
  BY DEF Init, MarkerInv
<1>2. ShapeInv /\ MarkerInv => MarkerTellsArrays
  BY DEF MarkerInv, MarkerTellsArrays, ShapeInv, TypeOK
<1> QED
  BY InitShape, NextShape, NextMarker, <1>1, <1>2, PTL DEF Spec

-----------------------------------------------------------------------------
(* A Raydium pool has vault fetches only, and one is spawned by every       *)
(* update that is not throttled.                                            *)
LEMMA NextReserves == ShapeInv /\ ReservesInv /\ [Next]_vars => ReservesInv'
<1> SUFFICES ASSUME ShapeInv, ReservesInv, [Next]_vars PROVE ReservesInv'
  OBVIOUS
<1>t. TypeOK /\ TaskShape
  BY DEF ShapeInv
<1>k. kind' = kind
  BY DEF Next, Stream, FetchTask, Arrive, FollowUp, CooldownEnds, MintProgramFetched, VaultsAnswer,
         VaultsFail, BitmapExists, BitmapMissing, WriteBack, ArraysFetched, ArraysFail, vars
<1> SUFFICES ASSUME kind = "raydium" PROVE ReservesInv'
  BY <1>k DEF ReservesInv
<1>r. \A t \in tasks : t.what = "vaults"
  BY DEF ReservesInv
<1>u. ASSUME UNCHANGED <<seen, arrived, throttled, vaultFailed, tasks, entry>> PROVE ReservesInv'
  BY <1>u, <1>k DEF ReservesInv, NoTask, Cached
<1>1. ASSUME NEW area \in Areas, Arrive(area) PROVE ReservesInv'
  BY <1>1, <1>k DEF Arrive, ReservesInv
<1>2. CASE FollowUp
  <2>1. Cached
    BY <1>2, <1>t DEF FollowUp, TaskShape
  <2>2. \A u \in Fetches : u.stage = "calling"
    BY <1>t, <2>1, FetchesType
  <2>3. WantsVaults
    BY DEF WantsVaults
  <2>4. Fetches \subseteq {Task("vaults", "calling", entry)}
    BY DEF Fetches, WantsBitmap, WantsArrays
  <2>5. ~throttled' => Task("vaults", "calling", entry) \in tasks'
    BY <1>2, <2>3 DEF FollowUp, Fetches
  <2>6. Task("vaults", "calling", entry).what = "vaults"
    BY DEF Task
  <2>7. ~throttled' => ~NoTask("vaults")'
    BY <2>5, <2>6 DEF NoTask
  <2>8. \A t \in tasks' : t.what = "vaults" /\ (t \in tasks \/ t.stage = "calling")
    BY <1>2, <1>r, <2>2, <2>4, <2>6 DEF FollowUp
  <2>9. vaultFailed' = vaultFailed
    BY <1>2 DEF FollowUp
  <2> QED
    BY <1>k, <2>7, <2>8, <2>9 DEF ReservesInv
<1>3. CASE CooldownEnds
  BY <1>3, <1>u DEF CooldownEnds, caches, history
<1>4. ASSUME NEW m \in Mints, MintProgramFetched(m) PROVE ReservesInv'
  BY <1>4, <1>u DEF MintProgramFetched, history
<1>5. ASSUME NEW t \in tasks, VaultsAnswer(t) PROVE ReservesInv'
  <2>1. PICK found \in BOOLEAN : /\ tasks' = Reading(t, [entry EXCEPT !.reserves = found])
                                 /\ vaultFailed' = (vaultFailed \/ ~found)
    BY <1>5 DEF VaultsAnswer
  <2> DEFINE copy == [entry EXCEPT !.reserves = found]
  <2>2. copy \in Entry /\ copy.reserves = found
    BY <1>t DEF TypeOK, Entry
  <2>3. \A u \in tasks' : u \in tasks \/ (u.what = t.what /\ u.stage = "writing" /\ u.copy = copy)
    BY <1>t, <2>1, <2>2, ReadingType
  <2>4. [t EXCEPT !.stage = "writing", !.copy = copy] \in tasks'
        /\ [t EXCEPT !.stage = "writing", !.copy = copy].what = "vaults"
    BY <1>r, <1>t, <2>1 DEF Reading, TypeOK, Tasks
  <2>5. ~NoTask("vaults")'
    BY <2>4 DEF NoTask
  <2>6. ~vaultFailed' => ~vaultFailed /\ found
    BY <2>1
  <2> HIDE DEF copy
  <2>7. ~vaultFailed' => \A u \in tasks' : u.stage = "writing" => u.copy.reserves
    BY <2>2, <2>3, <2>6 DEF ReservesInv
  <2> QED
    BY <1>k, <1>r, <2>3, <2>5, <2>7 DEF ReservesInv
<1>6. ASSUME NEW t \in tasks, VaultsFail(t) PROVE ReservesInv'
  BY <1>6, <1>k, <1>r DEF VaultsFail, ReservesInv
<1>7. ASSUME NEW t \in tasks, BitmapExists(t) PROVE ReservesInv'
  BY <1>7, <1>r DEF BitmapExists, Calling
<1>8. ASSUME NEW t \in tasks, BitmapMissing(t) PROVE ReservesInv'
  BY <1>8, <1>r DEF BitmapMissing, Calling
<1>9. ASSUME NEW t \in tasks, WriteBack(t) PROVE ReservesInv'
  <2>1. entry' = t.copy /\ tasks' = tasks \ {t} /\ UNCHANGED <<seen, arrived, vaultFailed, throttled>>
        /\ t.stage = "writing"
    BY <1>9 DEF WriteBack, history
  <2> QED
    BY <1>k, <1>r, <2>1 DEF ReservesInv
<1>10. ASSUME NEW t \in tasks, ArraysFetched(t) PROVE ReservesInv'
  BY <1>10, <1>r DEF ArraysFetched, Calling
<1>11. ASSUME NEW t \in tasks, ArraysFail(t) PROVE ReservesInv'
  BY <1>11, <1>r DEF ArraysFail, Calling
<1>12. CASE UNCHANGED vars
  BY <1>12, <1>u DEF vars, caches, history
<1> QED
  BY <1>1, <1>2, <1>3, <1>4, <1>5, <1>6, <1>7, <1>8, <1>9, <1>10, <1>11, <1>12
     DEF Next, Stream, FetchTask

(* Only a failed or throttled fetch leaves a Raydium pool without reserves. *)
THEOREM ReservesKept == Spec => []ReservesUnlessThrottled
<1>1. Init => ReservesInv
  BY DEF Init, ReservesInv, Cached
<1>2. ReservesInv => ReservesUnlessThrottled
  BY DEF ReservesInv, ReservesUnlessThrottled, Settled
<1> QED
  BY InitShape, NextShape, NextReserves, <1>1, <1>2, PTL DEF Spec

=============================================================================
