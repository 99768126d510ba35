------------------------------ MODULE Membership ------------------------------
(***************************************************************************)
(* What the membership shop promises, without orders tables, webhooks,     *)
(* pollers or locks: a paid order may be credited, once, and crediting it  *)
(* extends its owner's subscription by the plan's days, counted from the   *)
(* payment or from the current expiry, whichever is later.                 *)
(*                                                                         *)
(* MembershipPayments is shown to implement this specification.            *)
(***************************************************************************)
EXTENDS Naturals

CONSTANTS
  Order,    \* merchant orders
  User,     \* members
  Owner,    \* [Order -> User]
  Term,     \* [Order -> Nat]: duration_days of the order's plan
  Day       \* the days payments can be dated with

VARIABLES
  paid,     \* orders whose payment is complete
  credited, \* orders whose term has been added to a subscription
  expiry    \* [User -> Nat]: expires_at of the subscription, 0 when there is none

vars == <<paid, credited, expiry>>

(* base.AddDate(0, 0, durationDays), base the later of paidAt and expires_at *)
Extended(current, paidAt, days) ==
  (IF current > paidAt THEN current ELSE paidAt) + days

Init ==
  /\ paid = {}
  /\ credited = {}
  /\ expiry = [u \in User |-> 0]

Pay(o) ==
  /\ paid' = paid \union {o}
  /\ UNCHANGED <<credited, expiry>>

Credit(o, day) ==
  /\ o \in paid \ credited
  /\ credited' = credited \union {o}
  /\ expiry' = [expiry EXCEPT ![Owner[o]] = Extended(@, day, Term[o])]
  /\ UNCHANGED paid

Next == \E o \in Order : Pay(o) \/ \E day \in Day : Credit(o, day)

Spec == Init /\ [][Next]_vars
===============================================================================
