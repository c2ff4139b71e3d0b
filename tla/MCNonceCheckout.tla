--------------------------- MODULE MCNonceCheckout ---------------------------
(* Three nonces: a winner, a better one read later, and a better one that   *)
(* changes behind the scan; four checkouts let the rotation wrap.           *)
EXTENDS NonceCheckout
=============================================================================
