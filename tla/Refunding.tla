-------------------------------- MODULE Refunding --------------------------------
(***************************************************************************)
(* What a member may rely on when a membership is refunded, without        *)
(* requests, syncs, polls, lost answers or restarts: a refund is asked for *)
(* while the order is paid, its row shows what UPay made of it, once it    *)
(* shows an outcome it keeps it, and the first confirmed outcome that a    *)
(* row comes to show closes its order.                                     *)
(*                                                                         *)
(* Refunds is shown to implement this specification.                       *)
(***************************************************************************)
CONSTANTS
  Order,    \* membership orders
  Refund,   \* refund ids
  None      \* the order of a refund nobody has asked for

VARIABLES
  status,   \* of an order: UNPAID, PAID, then REFUNDED
  of,       \* [Refund -> Order \union {None}]
  outcome,  \* what UPay has made of a refund, "NONE" before it knows of it
  shown     \* what the row says, "NONE" before there is one

vars == <<status, of, outcome, shown>>

Final == {"CONFIRMED", "FAILED"}

Init ==
  /\ status = [o \in Order |-> "UNPAID"]
  /\ of = [r \in Refund |-> None]
  /\ outcome = [r \in Refund |-> "NONE"] /\ shown = [r \in Refund |-> "NONE"]

Pay(o) ==
  /\ status[o] = "UNPAID"
  /\ status' = [status EXCEPT ![o] = "PAID"]
  /\ UNCHANGED <<of, outcome, shown>>

Ask(r, o) ==
  /\ of[r] = None /\ status[o] = "PAID"
  /\ of' = [of EXCEPT ![r] = o]
  /\ UNCHANGED <<status, outcome, shown>>

\* UPay takes the refund on, and settles it at once or later.
Open(r) ==
  /\ of[r] # None /\ outcome[r] = "NONE"
  /\ \E st \in {"PENDING"} \union Final : outcome' = [outcome EXCEPT ![r] = st]
  /\ UNCHANGED <<status, of, shown>>

Settle(r) ==
  /\ outcome[r] = "PENDING"
  /\ \E st \in Final : outcome' = [outcome EXCEPT ![r] = st]
  /\ UNCHANGED <<status, of, shown>>

\* A refund that is listed with its outcome leaves its order as it is.
List(r) ==
  /\ shown[r] = "NONE" /\ outcome[r] # "NONE"
  /\ \E st \in {"PENDING", outcome[r]} : shown' = [shown EXCEPT ![r] = st]
  /\ UNCHANGED <<status, of, outcome>>

Close(r) ==
  /\ shown[r] = "PENDING" /\ outcome[r] \in Final
  /\ shown' = [shown EXCEPT ![r] = outcome[r]]
  /\ status' = IF outcome[r] = "CONFIRMED"
               THEN [status EXCEPT ![of[r]] = "REFUNDED"] ELSE status
  /\ UNCHANGED <<of, outcome>>

Next ==
  \/ \E o \in Order : Pay(o) \/ \E r \in Refund : Ask(r, o)
  \/ \E r \in Refund : Open(r) \/ Settle(r) \/ List(r) \/ Close(r)

Spec == Init /\ [][Next]_vars
===============================================================================
