----------------------------- MODULE MCPayoutOrders -----------------------------
(***************************************************************************)
(* PayoutOrders on small instances.                                        *)
(***************************************************************************)
EXTENDS PayoutOrders, TLC

Symmetry == Permutations(Client)
===============================================================================
