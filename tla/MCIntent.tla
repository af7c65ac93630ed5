------------------------------ MODULE MCIntent ------------------------------
(* Instances of IntentRelay for TLC. *)
EXTENDS IntentRelay, TLC

CONSTANTS order1, order2, relayer, other
=============================================================================
