--------------------------- MODULE MCTradePassword ---------------------------
(* The instance of TradePassword that TLC checks: three requests at once.  *)
EXTENDS TradePassword, TLC

\* Requests are alike.
Symmetry == Permutations(Client)
===============================================================================
