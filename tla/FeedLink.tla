-------------------------------- MODULE FeedLink --------------------------------
(***************************************************************************)
(* The loop that keeps a value up to date over a WebSocket: the prices of   *)
(* run_solusdc_loop (src/src/feed/binance.rs) and the tip floor of          *)
(* run_tip_floor_loop (src/src/state/tip_floor.rs), which are built alike.  *)
(* It connects, reads until the connection is closed, fails or is silent    *)
(* for WS_TIMEOUT, waits, and connects again.  A connection may die without *)
(* a word.  The value is stale some time after it arrived.                  *)
(***************************************************************************)
EXTENDS Naturals

CONSTANT Fallback   \* a failed connect asks a REST endpoint once

VARIABLES link,     \* what the loop is doing
          silent,   \* nothing arrives over the open connection any more
          value,    \* "none", "fresh" or "stale"
          stopping  \* the shutdown signal, sent by others

linkVars == <<link, silent, value>>

LinkInit(values) == link = "connecting" /\ silent = FALSE /\ value \in values

Connected ==
  /\ link = "connecting"
  /\ link' = "open"
  /\ silent' = FALSE
  /\ UNCHANGED value

\* The connect is refused, or takes more than ten seconds.
ConnectFails ==
  /\ link = "connecting"
  /\ link' = IF Fallback THEN "fallback" ELSE "waiting"
  /\ UNCHANGED <<silent, value>>

\* The REST endpoint answers, or fails to.
FallbackDone ==
  /\ link = "fallback"
  /\ link' = "waiting"
  /\ value' \in {"fresh", value}
  /\ UNCHANGED silent

\* A message that parses; any other text is ignored.
Message ==
  /\ link = "open" /\ ~silent
  /\ value' = "fresh"
  /\ UNCHANGED <<link, silent>>

GoesSilent ==
  /\ link = "open" /\ ~silent
  /\ silent' = TRUE
  /\ UNCHANGED <<link, value>>

\* The server closes the connection, or reading fails.
Closed ==
  /\ link = "open"
  /\ link' = "waiting"
  /\ silent' = FALSE
  /\ UNCHANGED value

\* Mutated form of the next action: only a connection that has delivered a
\* value is watched.
TimedOutOnceFed ==
  /\ link = "open" /\ silent /\ value = "fresh"
  /\ link' = "waiting"
  /\ silent' = FALSE
  /\ UNCHANGED value

\* Nothing for WS_TIMEOUT.
TimedOut ==
  /\ link = "open" /\ silent
  /\ link' = "waiting"
  /\ silent' = FALSE
  /\ UNCHANGED value

\* After the delay, the loop looks at the signal before it connects again.
Retry ==
  /\ link = "waiting"
  /\ link' = IF stopping THEN "ended" ELSE "connecting"
  /\ UNCHANGED <<silent, value>>

\* Mutated form of the next action: the reading loop does not look at the signal.
LinkStopsWaiting ==
  /\ stopping
  /\ link = "waiting"
  /\ link' = "ended"
  /\ UNCHANGED <<silent, value>>

\* The signal wakes the loop up where it reads and where it waits, not while it
\* connects or asks the REST endpoint.
LinkStops ==
  /\ stopping
  /\ link \in {"open", "waiting"}
  /\ link' = "ended"
  /\ silent' = FALSE
  /\ UNCHANGED value

Ages ==
  /\ value = "fresh"
  /\ value' = "stale"
  /\ UNCHANGED <<link, silent>>

\* What the task does of itself, and what happens to it.
LinkWorks   == ConnectFails \/ FallbackDone \/ TimedOut \/ Retry \/ LinkStops
LinkSuffers == GoesSilent \/ Closed \/ Ages
LinkNext    == LinkWorks \/ LinkSuffers \/ Connected \/ Message

(* The task is scheduled and its timers fire; a server that is asked again  *)
(* and again is reached at last, and one that is reached again and again    *)
(* delivers at last.                                                        *)
LinkFairness == WF_linkVars(LinkWorks) /\ SF_linkVars(Connected) /\ SF_linkVars(Message)
================================================================================
