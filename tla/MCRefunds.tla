------------------------------- MODULE MCRefunds -------------------------------
(* The instance of Refunds that TLC checks: two orders, two refunds, so that *)
(* they can be of one order or of two, two requests and the reconciler.      *)
EXTENDS Refunds
===============================================================================
