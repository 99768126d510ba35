-------------------------------- MODULE Refunds --------------------------------
(***************************************************************************)
(* Refunds of paid membership orders: the member's requests and syncs      *)
(* (handler/refunds.go), the reconciler's second list (tickRefunds in      *)
(* job/reconcile.go), their SQL (repo/repo.go) and UPay's refunds.         *)
(*                                                                         *)
(* A step is one database statement or one UPay call.  A refund's id is    *)
(* drawn by the request (randID), so of names the order of a refund from   *)
(* then on, whether or not it is ever stored.                              *)
(*                                                                         *)
(* Abstracted: the amount (always the order's), coin, chain and address;   *)
(* every refund status of UPay other than CONFIRMED and FAILED is PENDING; *)
(* an order's status before its activation is UNPAID.                      *)
(***************************************************************************)
EXTENDS Naturals, FiniteSets

CONSTANTS
  Order,    \* membership orders
  Refund,   \* refund ids that may be drawn
  Client,   \* goroutines serving requests
  Job,      \* the reconciler
  None,     \* no order, no refund
  MaxFaults \* bound on failures: database and UPay errors, crashes

Proc == Client \union {Job}

ASSUME ClientAssumption == IsFiniteSet(Client)
ASSUME JobAssumption == Job \notin Client
ASSUME NoneAssumption == None \notin Order \union Refund
ASSUME FaultAssumption == MaxFaults \in Nat

VARIABLES
  status,  \* orders.status
  applied, \* orders with applied_to_subscription
  row,     \* refunds.status, "NONE" before the row exists
  settled, \* refunds whose row ConfirmRefund has moved to CONFIRMED
  of,      \* the order a refund is for
  upay,    \* UPay's refund
  proc,    \* what each goroutine is at: its next step, the refund, a status read
  todo,    \* what is left of the reconciler's list
  faults   \* failures so far

orderVars == <<status, applied>>
refundVars == <<row, settled>>
vars == <<orderVars, refundVars, of, upay, proc, todo, faults>>

Final == {"CONFIRMED", "FAILED"}
RefundStatus == {"NONE", "PENDING"} \union Final
Label == {"idle", "create", "insert", "fetch", "confirm", "fail"}
Place(label, r, st) == [pc |-> label, r |-> r, st |-> st]
Idle == Place("idle", None, "NONE")

TypeOK ==
  /\ status \in [Order -> {"UNPAID", "PAID", "REFUNDED"}]
  /\ applied \subseteq Order
  /\ row \in [Refund -> RefundStatus]
  /\ settled \subseteq Refund
  /\ of \in [Refund -> Order \union {None}]
  /\ upay \in [Refund -> RefundStatus]
  /\ proc \in [Proc -> [pc : Label, r : Refund \union {None}, st : RefundStatus]]
  /\ todo \subseteq Refund
  /\ faults \in 0 .. MaxFaults

Init ==
  /\ status = [o \in Order |-> "UNPAID"] /\ applied = {}
  /\ row = [r \in Refund |-> "NONE"] /\ settled = {}
  /\ of = [r \in Refund |-> None]
  /\ upay = [r \in Refund |-> "NONE"]
  /\ proc = [p \in Proc |-> Idle]
  /\ todo = {} /\ faults = 0

Fault == faults < MaxFaults /\ faults' = faults + 1
Goto(p, label, r, st) == proc' = [proc EXCEPT ![p] = Place(label, r, st)]
Finish(p) == proc' = [proc EXCEPT ![p] = Idle]
-------------------------------------------------------------------------------
(* Orders and UPay                                                         *)

\* Mutant of Activate: the flag is not read before the order is set PAID.
ActivatesAgain(o) ==
  /\ status' = [status EXCEPT ![o] = "PAID"]
  /\ applied' = applied \union {o}
  /\ UNCHANGED <<refundVars, of, upay, proc, todo, faults>>

\* ActivateMembership, whose transaction is a step of its own here: a second
\* activation of the order finds it applied and changes nothing.
Activate(o) ==
  /\ o \notin applied
  /\ status' = [status EXCEPT ![o] = "PAID"]
  /\ applied' = applied \union {o}
  /\ UNCHANGED <<refundVars, of, upay, proc, todo, faults>>

UpaySettles(r) ==
  /\ upay[r] = "PENDING"
  /\ \E st \in Final : upay' = [upay EXCEPT ![r] = st]
  /\ UNCHANGED <<orderVars, refundVars, of, proc, todo, faults>>
-------------------------------------------------------------------------------
(* The member's requests                                                   *)

\* Mutant of RequestRefund: the check that the order is PAID is dropped.
RequestsUnchecked(c) ==
  /\ proc[c].pc = "idle"
  /\ \E o \in Order, r \in Refund :
       /\ of[r] = None
       /\ of' = [of EXCEPT ![r] = o]
       /\ Goto(c, "create", r, "NONE")
  /\ UNCHANGED <<orderVars, refundVars, upay, todo, faults>>

\* CreateRefund: the order is read once, and only a PAID one goes on.
RequestRefund(c) ==
  /\ proc[c].pc = "idle"
  /\ \E o \in Order, r \in Refund :
       /\ status[o] = "PAID" /\ of[r] = None
       /\ of' = [of EXCEPT ![r] = o]
       /\ Goto(c, "create", r, "NONE")
  /\ UNCHANGED <<orderVars, refundVars, upay, todo, faults>>

\* UPay refuses, or opens the refund in some status; its answer may be lost.
CallUpay(p) ==
  /\ proc[p].pc = "create"
  /\ \/ Finish(p) /\ UNCHANGED <<upay, faults>>
     \/ \E st \in RefundStatus \ {"NONE"} :
          /\ upay' = [upay EXCEPT ![proc[p].r] = st]
          /\ \/ Goto(p, "insert", proc[p].r, st) /\ UNCHANGED faults
             \/ Finish(p) /\ Fault
  /\ UNCHANGED <<orderVars, refundVars, of, todo>>

\* Mutant of InsertRefund: a unique key on order_id, and its conflict ignored.
InsertsOnePerOrder(p) ==
  /\ proc[p].pc = "insert"
  /\ LET r == proc[p].r IN
       row' = [row EXCEPT ![r] =
         IF \E q \in Refund : row[q] # "NONE" /\ of[q] = of[r]
         THEN @ ELSE proc[p].st]
  /\ Finish(p)
  /\ UNCHANGED <<orderVars, settled, of, upay, todo, faults>>

\* Mutant of InsertRefund: a status the other code does not know.
InsertsOpen(p) ==
  /\ proc[p].pc = "insert"
  /\ row' = [row EXCEPT ![proc[p].r] = "OPEN"]
  /\ Finish(p)
  /\ UNCHANGED <<orderVars, settled, of, upay, todo, faults>>

\* The row takes the status UPay answered with, whichever that is.
InsertRefund(p) ==
  /\ proc[p].pc = "insert"
  /\ row' = [row EXCEPT ![proc[p].r] = proc[p].st]
  /\ Finish(p)
  /\ UNCHANGED <<orderVars, settled, of, upay, todo, faults>>

\* GetRefund finds a row.
Stored(r) == row[r] # "NONE"

\* SyncRefund: a refund that is CONFIRMED or FAILED is skipped.
RequestSync(c) ==
  /\ proc[c].pc = "idle"
  /\ \E r \in Refund : Stored(r) /\ row[r] \notin Final /\ Goto(c, "fetch", r, "NONE")
  /\ UNCHANGED <<orderVars, refundVars, of, upay, todo, faults>>
-------------------------------------------------------------------------------
(* The reconciler, and what it shares with SyncRefund                      *)

\* Mutant of PendingRefunds: joined with the orders that are still PAID.
OfPaidOrders == {r \in Refund : row[r] = "PENDING" /\ status[of[r]] = "PAID"}

\* ListPendingRefunds
PendingRefunds == {r \in Refund : row[r] = "PENDING"}

Tick ==
  /\ proc[Job].pc = "idle" /\ todo = {}
  /\ todo' = PendingRefunds
  /\ UNCHANGED <<orderVars, refundVars, of, upay, proc, faults>>

Poll(r) ==
  /\ proc[Job].pc = "idle" /\ r \in todo
  /\ todo' = todo \ {r}
  /\ Goto(Job, "fetch", r, "NONE")
  /\ UNCHANGED <<orderVars, refundVars, of, upay, faults>>

\* Mutant of Outcome: whatever is not CONFIRMED has failed.
FailsPending(st) == IF st = "CONFIRMED" THEN "confirm" ELSE "fail"

\* The switch on the status UPay answered
Outcome(st) ==
  CASE st = "CONFIRMED" -> "confirm" [] st = "FAILED" -> "fail" [] OTHER -> "idle"

FetchRefund(p) ==
  /\ proc[p].pc = "fetch"
  /\ LET next == Outcome(upay[proc[p].r]) IN
       IF next = "idle" THEN Finish(p) ELSE Goto(p, next, proc[p].r, "NONE")
  /\ UNCHANGED <<orderVars, refundVars, of, upay, todo, faults>>

\* One statement: the refund, unless it is CONFIRMED, and its order if PAID
ConfirmRefund(p) ==
  /\ proc[p].pc = "confirm"
  /\ LET r == proc[p].r IN
       IF row[r] = "CONFIRMED" THEN UNCHANGED <<status, refundVars>>
       ELSE /\ row' = [row EXCEPT ![r] = "CONFIRMED"]
            /\ settled' = settled \union {r}
            /\ status' = [o \in Order |->
                 IF o = of[r] /\ status[o] = "PAID" THEN "REFUNDED" ELSE status[o]]
  /\ Finish(p)
  /\ UNCHANGED <<applied, of, upay, todo, faults>>

MarkRefundFailed(p) ==
  /\ proc[p].pc = "fail"
  /\ row' = [row EXCEPT ![proc[p].r] = "FAILED"]
  /\ Finish(p)
  /\ UNCHANGED <<orderVars, settled, of, upay, todo, faults>>
-------------------------------------------------------------------------------
\* A statement or a read at UPay returns an error and the goroutine gives up.
Fail(p) ==
  /\ proc[p].pc \in {"insert", "fetch", "confirm", "fail"}
  /\ Fault
  /\ Finish(p)
  /\ UNCHANGED <<orderVars, refundVars, of, upay, todo>>

\* The server stops and is started again.
Crash ==
  /\ Fault
  /\ proc' = [p \in Proc |-> Idle] /\ todo' = {}
  /\ UNCHANGED <<orderVars, refundVars, of, upay>>

Step(p) ==
  \/ CallUpay(p) \/ InsertRefund(p)
  \/ FetchRefund(p) \/ ConfirmRefund(p) \/ MarkRefundFailed(p)

Reconcile == Tick \/ \E r \in Refund : Poll(r)

Next ==
  \/ \E o \in Order : Activate(o)
  \/ \E r \in Refund : UpaySettles(r)
  \/ \E c \in Client : RequestRefund(c) \/ RequestSync(c)
  \/ \E p \in Proc : Step(p) \/ Fail(p)
  \/ Reconcile
  \/ Crash

Spec == Init /\ [][Next]_vars

\* The ticker never stops and goroutines that can run do run.  Nothing is
\* assumed of members or of UPay.
FairSpec ==
  /\ Spec
  /\ WF_vars(Reconcile)
  /\ \A p \in Proc : WF_vars(Step(p))
-------------------------------------------------------------------------------
(* Properties                                                              *)

\* A row is final only as UPay's refund is: no reading that was overtaken by
\* another sync is written as an outcome (handler/refunds.go:155,
\* MarkRefundFailed has no guard of its own).
OutcomeIsTrue ==
  \A r \in Refund : row[r] \in Final => row[r] = upay[r]

\* "if this is the first confirmed refund on the order, flips the order status
\* to REFUNDED" (repo/repo.go:587-588): an order is REFUNDED exactly when a
\* refund of it was settled as confirmed, however many of its refunds are
\* synced at once, and no late activation makes it PAID again.
RefundedIffSettled ==
  \A o \in Order :
    status[o] = "REFUNDED" <=> \E r \in settled : of[r] = o

Promise == INSTANCE Refunding WITH outcome <- upay, shown <- row

\* Behind requests that repeat, syncs that overtake each other, failures and
\* restarts, a refund is asked for, opened, listed and closed once, in this
\* order, and its order is closed in the step that closes it
\* (handler/refunds.go, tickRefunds in job/reconcile.go).
ImplementsRefunding == Promise!Spec

\* The two ends are final, whatever a sync that read earlier still has to write
\* and whatever is activated again: a stored outcome is not overwritten
\* (ConfirmRefund only excludes CONFIRMED rows, MarkRefundFailed none,
\* repo/repo.go:589-600 and 675-679), and a REFUNDED order is not paid again.
EndsStay ==
  /\ \A r \in Refund : row[r] \in Final => row'[r] = row[r]
  /\ \A o \in Order : status[o] = "REFUNDED" => status'[o] = "REFUNDED"
RefundIsFinal == [][EndsStay]_vars

\* A refund runs at UPay without a row only if an error or a crash cut its
\* request off (handler/refunds.go:67-85), at most one for every goroutine.
Untracked ==
  {r \in Refund : /\ upay[r] # "NONE" /\ row[r] = "NONE"
                  /\ \A p \in Proc : proc[p].pc = "insert" => proc[p].r # r}
UntrackedAreFaults == Cardinality(Untracked) <= faults * Cardinality(Client)

\* A stored refund that UPay settles is settled here by the reconciler alone,
\* and its order with it.
StoredRefundSettles ==
  \A r \in Refund :
    (row[r] = "PENDING" /\ upay[r] \in Final) ~>
      /\ row[r] = upay[r]
      /\ row[r] = "CONFIRMED" => status[of[r]] = "REFUNDED"
===============================================================================
