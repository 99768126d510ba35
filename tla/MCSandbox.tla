------------------------------ MODULE MCSandbox ------------------------------
(* The instance of Sandbox that TLC checks: two simulations that come to    *)
(* share an address, two deposits, one request at a time, and one retry     *)
(* more than failures.                                                      *)
EXTENDS Sandbox
===============================================================================
