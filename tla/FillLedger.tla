------------------------------ MODULE FillLedger ------------------------------
(***************************************************************************)
(* What the fan-out promises about one opportunity, with relays, nonces and *)
(* trackers hidden: it is opened once, filled on chain at most once however *)
(* many relays carry it, and its profit is booked at most once, after and   *)
(* only if it was filled.  A fill may go unbooked.                          *)
(***************************************************************************)
EXTENDS Naturals

CONSTANT Opps

VARIABLES fill,         \* fill[o]  : has o been opened, has it been filled
          booked        \* booked[o] : times its profit was added to the realized P&L

ledgerVars == <<fill, booked>>

LedgerInit ==
  /\ fill = [o \in Opps |-> "unopened"]
  /\ booked = [o \in Opps |-> 0]

Open(o) ==
  /\ fill[o] = "unopened"
  /\ fill' = [fill EXCEPT ![o] = "open"]
  /\ UNCHANGED booked

Fill(o) ==
  /\ fill[o] = "open"
  /\ \E outcome \in {"filled", "failed"} : fill' = [fill EXCEPT ![o] = outcome]
  /\ UNCHANGED booked

Book(o) ==
  /\ fill[o] = "filled"
  /\ booked[o] = 0
  /\ booked' = [booked EXCEPT ![o] = 1]
  /\ UNCHANGED fill

LedgerNext == \E o \in Opps : Open(o) \/ Fill(o) \/ Book(o)

LedgerSpec == LedgerInit /\ [][LedgerNext]_ledgerVars
=============================================================================
