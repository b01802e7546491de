----------------------------- MODULE MCBilling -----------------------------
(* Small instances of Billing for TLC. *)
EXTENDS Billing, TLC

CONSTANTS s1, c1, c2, h1, h2

\* Nothing orders the webhook requests.
AnyHandler == Permutations(Handler)
=============================================================================
