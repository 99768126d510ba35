------------------------- MODULE MCMembershipPayments -------------------------
(***************************************************************************)
(* MembershipPayments on small instances.  A term of one day stands for    *)
(* the 30 to 365 of the plans: only sums and comparisons of days matter,   *)
(* and a subscription must be able to lapse before the last day.           *)
(***************************************************************************)
EXTENDS MembershipPayments, TLC

CONSTANTS o1, o2, u1, monthly

OneOwner == [o \in Order |-> u1]
OneOffer == [o \in Order |-> monthly]
OneDays == monthly :> 1

Symmetry == Permutations(Handler) \union Permutations(Order)
===============================================================================
