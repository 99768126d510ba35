------------------------------- MODULE Remittance -------------------------------
(***************************************************************************)
(* What the payout page promises a member about a remittance, without      *)
(* goroutines, pushes, polls, lost answers or restarts: what is shown has  *)
(* happened, nothing is done at UPay to an order that could not be         *)
(* followed, and the chain from password to money has no loose link.  One  *)
(* password entered for a quote is good for one confirmation of that       *)
(* quote, and one confirmation for one taking of the money.  A second      *)
(* password may well take it a second time: UPay refuses nothing.          *)
(*                                                                         *)
(* PayoutOrders is shown to implement this specification.                  *)
(***************************************************************************)
EXTENDS Naturals

CONSTANTS
  Order,    \* remittances
  Session,  \* where the member may be confirming something
  Quote     \* quote numbers, 0 for none

VARIABLES
  shown,    \* the status the member sees, "NONE" before the order exists
  known,    \* orders whose UPay number is known
  accepted, \* orders shown with a date of confirmation
  happened, \* [Order -> SUBSET Status]: what UPay's order has been
  mandate,  \* [Session -> SUBSET (Order \X Quote)]: what a request with the
            \* right password may confirm and has not yet
  ordered,  \* [Order -> Quote]: the quote UPay is to work off, 0 for none
  taken,    \* [Order -> Quote]: the quote the money was last taken for
  agreed    \* <<order, quote>>s the member confirmed with the password

pageVars == <<shown, known, accepted>>
moneyVars == <<mandate, ordered, taken, agreed>>
vars == <<pageVars, happened, moneyVars>>

\* What UPay may make of an order on its own, and after what
Follows ==
  ({"QUOTING"} \X {"AWAIT", "QUOTEFAILED"})
    \union ({"PROCESSING"} \X {"SUCCEEDED", "FAILED", "REFUNDING"})
    \union {<<"REFUNDING", "REFUNDED">>}

Init ==
  /\ shown = [o \in Order |-> "NONE"]
  /\ known = {} /\ accepted = {}
  /\ happened = [o \in Order |-> {}]
  /\ mandate = [r \in Session |-> {}]
  /\ ordered = [o \in Order |-> 0]
  /\ taken = [o \in Order |-> 0]
  /\ agreed = {}

\* UPay's order is now in this status as well.
Happens(o, st) == happened' = [happened EXCEPT ![o] = @ \union {st}]
-------------------------------------------------------------------------------
(* The order at UPay                                                       *)

Create(o) ==
  /\ shown[o] = "QUOTING" /\ o \notin known
  /\ Happens(o, "QUOTING")
  /\ UNCHANGED <<pageVars, moneyVars>>

\* A request uses up its mandate.
Confirm(o, quote, r) ==
  /\ o \in known /\ <<o, quote>> \in mandate[r]
  /\ mandate' = [mandate EXCEPT ![r] = {}]
  /\ ordered' = [ordered EXCEPT ![o] = quote]
  /\ Happens(o, "CONFIRMED")
  /\ UNCHANGED <<pageVars, taken, agreed>>

\* The order is not worked off any more: it is canceled, or its quote no longer
\* held and there is a new one, or none.
Drop(o, st) ==
  /\ o \in known
  /\ st = "CANCELED" \/ "CONFIRMED" \in happened[o]
  /\ ordered' = [ordered EXCEPT ![o] = 0]
  /\ Happens(o, st)
  /\ UNCHANGED <<pageVars, mandate, taken, agreed>>

\* UPay uses up the confirmation.
Take(o) ==
  /\ ordered[o] # 0 /\ <<o, ordered[o]>> \in agreed
  /\ ordered' = [ordered EXCEPT ![o] = 0]
  /\ taken' = [taken EXCEPT ![o] = ordered[o]]
  /\ Happens(o, "PROCESSING")
  /\ UNCHANGED <<pageVars, mandate, agreed>>

Advance(o, st) ==
  /\ \E before \in happened[o] : <<before, st>> \in Follows
  /\ Happens(o, st)
  /\ UNCHANGED <<pageVars, moneyVars>>
-------------------------------------------------------------------------------
(* The member's page                                                       *)

Open(o) ==
  /\ shown[o] = "NONE"
  /\ shown' = [shown EXCEPT ![o] = "QUOTING"]
  /\ UNCHANGED <<known, accepted, happened, moneyVars>>

\* UPay answered: from now on the order can be followed.
Learn(o) ==
  /\ shown[o] = "QUOTING" /\ happened[o] # {}
  /\ known' = known \union {o}
  /\ UNCHANGED <<shown, accepted, happened, moneyVars>>

\* The creation was answered with an error.
GiveUp(o) ==
  /\ shown[o] = "QUOTING" /\ o \notin known
  /\ shown' = [shown EXCEPT ![o] = "QUOTEFAILED"]
  /\ UNCHANGED <<known, accepted, happened, moneyVars>>

\* A status the order has had, not necessarily its latest
Show(o, st) ==
  /\ o \in known /\ st \in happened[o]
  /\ shown' = [shown EXCEPT ![o] = st]
  /\ UNCHANGED <<known, accepted, happened, moneyVars>>

\* The password was right: the request may confirm this quote.
Agree(o, quote, r) ==
  /\ o \in known
  /\ mandate' = [mandate EXCEPT ![r] = {<<o, quote>>}]
  /\ agreed' = agreed \union {<<o, quote>>}
  /\ UNCHANGED <<pageVars, happened, ordered, taken>>

\* Requests end without having confirmed anything.
Forget ==
  /\ \E left \in SUBSET Session :
       mandate' = [r \in Session |-> IF r \in left THEN mandate[r] ELSE {}]
  /\ UNCHANGED <<pageVars, happened, ordered, taken, agreed>>

Accept(o) ==
  /\ o \in known /\ "CONFIRMED" \in happened[o]
  /\ accepted' = accepted \union {o}
  /\ UNCHANGED <<shown, known, happened, moneyVars>>

Next ==
  \/ \E o \in Order :
       \/ Create(o) \/ Take(o) \/ Open(o) \/ Learn(o) \/ GiveUp(o) \/ Accept(o)
       \/ \E quote \in Quote, r \in Session : Confirm(o, quote, r) \/ Agree(o, quote, r)
       \/ \E st \in {"CANCELED", "REQUOTED", "QUOTEFAILED"} : Drop(o, st)
       \/ \E st \in {pair[2] : pair \in Follows} : Advance(o, st)
       \/ \E st \in happened[o] : Show(o, st)
  \/ Forget

Spec == Init /\ [][Next]_vars
===============================================================================
