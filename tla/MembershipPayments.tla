--------------------------- MODULE MembershipPayments ---------------------------
(***************************************************************************)
(* Membership orders and their activation: POST /orders                    *)
(* (handler/account.go), the UPay webhook (handler/webhook.go), the        *)
(* reconcile job (job/reconcile.go), PaymentService (service/payment.go)   *)
(* and the SQL they run (repo/repo.go), against the UPay order service.    *)
(*                                                                         *)
(* A step is one database statement or one UPay call, together with the    *)
(* local computation after it.  ActivateMembership is a transaction of     *)
(* several statements and is split at its two locks; its writes become     *)
(* visible at the commit.  Any number of webhook handlers and the single   *)
(* reconcile goroutine interleave freely.                                  *)
(*                                                                         *)
(* Abstracted: amounts (only unpaid / partial / paid is kept), the columns *)
(* that are only displayed (payment_status, kyc_*, request and response    *)
(* bodies, webhook_events.processed), the raw webhook log, and signature   *)
(* checking (a delivery here is one that verified).  No guard reads them.  *)
(* Placeholder mode (no UPay configured) is not modelled.                  *)
(***************************************************************************)
EXTENDS Naturals, FiniteSets

CONSTANTS
  Order,     \* merchant_order_ids that requests may draw
  User,      \* users
  Owner,     \* [Order -> User]: the user whose request draws the id
  Offer,     \* plan_code together with send_uid, what ReuseOpenOrder matches on
  OfferOf,   \* [Order -> Offer]
  Days,      \* [Offer -> Nat]: membership_plans.duration_days
  Handler,   \* goroutines serving UPay webhooks
  Rec,       \* the reconcile goroutine
  NoJob,     \* what an idle process works on
  LastDay,   \* bound on the clock, in days
  MaxFaults  \* bound on failures: database and upstream errors, crashes

Proc == Handler \union {Rec}

ASSUME OwnerAssumption == Owner \in [Order -> User]
ASSUME OfferAssumption == OfferOf \in [Order -> Offer] /\ Days \in [Offer -> Nat \ {0}]
ASSUME RecAssumption == Rec \notin Handler
ASSUME BoundAssumption == LastDay \in Nat \ {0} /\ MaxFaults \in Nat

Term == [o \in Order |-> Days[OfferOf[o]]]
Day == 1 .. LastDay

VARIABLES
  status,    \* orders.status, "NONE" before the row exists
  attached,  \* orders whose row has its upay_payment_id and checkout_url
  applied,   \* orders with applied_to_subscription
  received,  \* received_amount of each order, as unpaid / partial / paid
  paidOn,    \* orders.paid_at, 0 when NULL
  expiry,    \* subscriptions.expires_at of each user, 0 when there is no row
  seen,      \* orders whose payment_order.paid event is in webhook_events
  stage,     \* where the CreateOrder request of each order stands
  pc, job, snap, cur, todo,  \* the handlers and the reconciler, see TypeOK
  upay,      \* UPay's order: [st, pay, at]
  now,       \* the clock
  faults     \* failures so far

orderVars == <<status, attached, applied, received, paidOn>>
procVars  == <<pc, job, snap, cur, todo>>
vars == <<orderVars, expiry, seen, stage, procVars, upay, now, faults>>

Pay == {"UNPAID", "PARTIAL", "PAID"}
UpayStatus == {"NONE", "OPEN", "COMPLETED", "CLOSED", "CANCELED", "REJECTED"}
UpayOrder == [st : UpayStatus, pay : Pay, at : 0 .. LastDay]
InTx == {"locked", "stacking"}   \* inside ActivateMembership's transaction
Stage == {"idle", "checked", "calling", "attach", "fail", "done", "dead"}

NoOrder == [st |-> "NONE", pay |-> "UNPAID", at |-> 0]
NewUpayOrder == [st |-> "OPEN", pay |-> "UNPAID", at |-> 0]

TypeOK ==
  /\ status \in [Order -> {"NONE", "PENDING", "PAID", "EXPIRED", "CANCELED", "FAILED"}]
  /\ attached \subseteq Order
  /\ applied \subseteq Order
  /\ received \in [Order -> Pay]
  /\ paidOn \in [Order -> 0 .. LastDay]
  /\ expiry \in [User -> Nat]
  /\ seen \subseteq Order
  /\ stage \in [Order -> Stage]
  /\ pc \in [Proc -> {"idle", "fetch", "apply", "expire"} \union InTx]
  /\ job \in [Proc -> Order \union {NoJob}]  \* the order a process works on
  /\ snap \in [Proc -> UpayOrder]  \* GetOrder's answer
  /\ cur \in [Proc -> Nat]         \* curExpires as the transaction read it
  /\ todo \subseteq Order          \* rest of the reconciler's pending list
  /\ upay \in [Order -> UpayOrder]
  /\ now \in Day
  /\ faults \in 0 .. MaxFaults

Init ==
  /\ status = [o \in Order |-> "NONE"]
  /\ attached = {} /\ applied = {}
  /\ received = [o \in Order |-> "UNPAID"]
  /\ paidOn = [o \in Order |-> 0]
  /\ expiry = [u \in User |-> 0]
  /\ seen = {}
  /\ stage = [o \in Order |-> "idle"]
  /\ pc = [p \in Proc |-> "idle"]
  /\ job = [p \in Proc |-> NoJob]
  /\ snap = [p \in Proc |-> NoOrder]
  /\ cur = [p \in Proc |-> 0]
  /\ todo = {}
  /\ upay = [o \in Order |-> NoOrder]
  /\ now = 1
  /\ faults = 0
-------------------------------------------------------------------------------
(* The clock and UPay's side.  UPay's order advances on its own and, once  *)
(* it is in a final status, stays there.                                   *)

NextDay ==
  /\ now < LastDay
  /\ now' = now + 1
  /\ UNCHANGED <<orderVars, expiry, seen, stage, procVars, upay, faults>>

\* The payer has the checkout_url only after AttachUpayResult.  A payment may
\* arrive in parts, and after the deadline.
UpayPaid(o, pay) ==
  /\ o \in attached
  /\ upay[o].st = "OPEN"
  /\ upay[o].pay # "PAID" /\ pay # upay[o].pay /\ pay # "UNPAID"
  /\ upay' = [upay EXCEPT ![o] =
       [st |-> "OPEN", pay |-> pay, at |-> IF pay = "PAID" THEN now ELSE 0]]
  /\ UNCHANGED <<orderVars, expiry, seen, stage, procVars, now, faults>>

\* COMPLETED only when paid, CANCELED only when not; KYC may reject either.
UpayMoves(o, st) ==
  /\ \/ /\ upay[o].st = "OPEN"
        /\ st \in {"CLOSED", "REJECTED",
                   IF upay[o].pay = "PAID" THEN "COMPLETED" ELSE "CANCELED"}
     \/ upay[o].st = "COMPLETED" /\ st = "CLOSED"
  /\ upay' = [upay EXCEPT ![o] = [st |-> st, pay |-> @.pay, at |-> @.at]]
  /\ UNCHANGED <<orderVars, expiry, seen, stage, procVars, now, faults>>
-------------------------------------------------------------------------------
(* CreateOrder, one request per order id.                                  *)

Fault == faults < MaxFaults /\ faults' = faults + 1

Reusable(o) ==
  {r \in attached : /\ status[r] = "PENDING"
                    /\ Owner[r] = Owner[o]
                    /\ OfferOf[r] = OfferOf[o]}

\* Mutant of CheckReuse: UPay is called before the row is inserted.
CallsBeforeInsert(o) ==
  /\ stage[o] = "idle"
  /\ stage' = [stage EXCEPT ![o] = "calling"]
  /\ UNCHANGED <<orderVars, expiry, seen, procVars, upay, now, faults>>

\* An order handed out again changes nothing.  The request goes on when there
\* is none, when expires_at has passed, and when the query fails.
CheckReuse(o) ==
  /\ stage[o] = "idle"
  /\ \E lapsed \in BOOLEAN :
       IF Reusable(o) = {} \/ lapsed THEN UNCHANGED faults ELSE Fault
  /\ stage' = [stage EXCEPT ![o] = "checked"]
  /\ UNCHANGED <<orderVars, expiry, seen, procVars, upay, now>>

\* The row of Repo.CreateOrder
CreateRow(o) == status' = [status EXCEPT ![o] = "PENDING"]

InsertOrder(o) ==
  /\ stage[o] = "checked"
  /\ CreateRow(o)
  /\ stage' = [stage EXCEPT ![o] = "calling"]
  /\ UNCHANGED <<attached, applied, received, paidOn>>
  /\ UNCHANGED <<expiry, seen, procVars, upay, now, faults>>

\* Client.CreateOrder, carried out
CreateOrder(o) == upay' = [upay EXCEPT ![o] = NewUpayOrder]

\* UPay creates the order and answers; or creates it and the answer is lost;
\* or refuses.
CallUpay(o) ==
  /\ stage[o] = "calling"
  /\ \E created \in BOOLEAN, answered \in BOOLEAN :
       /\ IF created THEN CreateOrder(o) ELSE UNCHANGED upay
       /\ IF created /\ answered
          THEN /\ stage' = [stage EXCEPT ![o] = "attach"]
               /\ UNCHANGED faults
          ELSE /\ stage' = [stage EXCEPT ![o] = "fail"]
               /\ Fault
  /\ UNCHANGED <<orderVars, expiry, seen, procVars, now>>

AttachUpay(o) ==
  /\ stage[o] = "attach"
  /\ attached' = attached \union {o}
  /\ stage' = [stage EXCEPT ![o] = "done"]
  /\ UNCHANGED <<status, applied, received, paidOn>>
  /\ UNCHANGED <<expiry, seen, procVars, upay, now, faults>>

\* Mutant of MarkFailed: a status the column's vocabulary does not have.
MarksError(o) ==
  /\ stage[o] = "fail"
  /\ status' = [status EXCEPT ![o] = "ERROR"]
  /\ stage' = [stage EXCEPT ![o] = "done"]
  /\ UNCHANGED <<attached, applied, received, paidOn>>
  /\ UNCHANGED <<expiry, seen, procVars, upay, now, faults>>

MarkFailed(o) ==
  /\ stage[o] = "fail"
  /\ status' = [status EXCEPT ![o] = IF @ = "PENDING" THEN "FAILED" ELSE @]
  /\ stage' = [stage EXCEPT ![o] = "done"]
  /\ UNCHANGED <<attached, applied, received, paidOn>>
  /\ UNCHANGED <<expiry, seen, procVars, upay, now, faults>>

\* A statement of the request fails: it answers 500 and is not resumed.
RequestFails(o) ==
  /\ stage[o] \in {"checked", "attach", "fail"}
  /\ Fault
  /\ stage' = [stage EXCEPT ![o] = "dead"]
  /\ UNCHANGED <<orderVars, expiry, seen, procVars, upay, now>>

-------------------------------------------------------------------------------
(* Control of a webhook handler or the reconciler.                         *)

Start(p, o) ==
  /\ pc' = [pc EXCEPT ![p] = "fetch"]
  /\ job' = [job EXCEPT ![p] = o]
  /\ UNCHANGED <<snap, cur>>

Goto(p, label) ==
  /\ pc' = [pc EXCEPT ![p] = label]
  /\ UNCHANGED <<job, todo>>

Release(p) ==
  /\ pc' = [pc EXCEPT ![p] = "idle"]
  /\ job' = [job EXCEPT ![p] = NoJob]
  /\ snap' = [snap EXCEPT ![p] = NoOrder]
  /\ cur' = [cur EXCEPT ![p] = 0]
  /\ UNCHANGED todo

\* Mutant of RowFree: SELECT without FOR UPDATE.
NoRowLock(p) == p \in Proc
\* Mutant of UserFree: no advisory lock.
NoUserLock(p) == p \in Proc

\* The row lock of SELECT ... FOR UPDATE and the advisory lock of the user
\* are held by whoever is past them in an open transaction.
RowFree(p) == \A q \in Proc \ {p} : pc[q] \in InTx => job[q] # job[p]
UserFree(p) ==
  \A q \in Proc \ {p} : pc[q] = "stacking" => Owner[job[q]] # Owner[job[p]]

\* ON CONFLICT DO NOTHING, and whether it inserted
InsertWebhookEvent(o) == o \notin seen /\ seen' = seen \union {o}

\* UpayWebhook up to the dedupe insert.  A known event id is answered 200 and
\* nothing more; any other kind of event is recorded and answered 200.
ReceivePaid(h, o) ==
  /\ pc[h] = "idle"
  /\ upay[o].pay = "PAID"
  /\ InsertWebhookEvent(o)
  /\ Start(h, o)
  /\ UNCHANGED <<orderVars, expiry, stage, todo, upay, now, faults>>

\* Mutant of Tick: orders whose paid event was recorded are left to the webhook.
TickSkipsSeen ==
  /\ pc[Rec] = "idle" /\ todo = {}
  /\ todo' = {o \in attached \ seen : status[o] = "PENDING"}
  /\ UNCHANGED <<pc, job, snap, cur>>
  /\ UNCHANGED <<orderVars, expiry, seen, stage, upay, now, faults>>

\* ListPendingOrders
Tick ==
  /\ pc[Rec] = "idle" /\ todo = {}
  /\ todo' = {o \in attached : status[o] = "PENDING"}
  /\ UNCHANGED <<pc, job, snap, cur>>
  /\ UNCHANGED <<orderVars, expiry, seen, stage, upay, now, faults>>

Poll(o) ==
  /\ pc[Rec] = "idle" /\ o \in todo
  /\ todo' = todo \ {o}
  /\ Start(Rec, o)
  /\ UNCHANGED <<orderVars, expiry, seen, stage, upay, now, faults>>
-------------------------------------------------------------------------------
(* ConfirmAndActivate and Sync                                             *)

\* Mutant of Classify: CLOSED activates whatever was paid.
ClosedActivates(o) ==
  IF o.st \in {"COMPLETED", "CLOSED"} \/ (o.st = "OPEN" /\ o.pay = "PAID")
  THEN "activate"
  ELSE IF o.st = "OPEN" THEN "wait" ELSE "terminal"

\* classify; "PAID" stands for PAID and OVERPAID, "OPEN" for INITED,
\* PENDING_APPROVAL, REJECTING and PROCESSING
Classify(o) ==
  IF o.st = "COMPLETED" \/ (o.st \in {"OPEN", "CLOSED"} /\ o.pay = "PAID")
  THEN "activate"
  ELSE IF o.st = "OPEN" THEN "wait" ELSE "terminal"

\* UPay's answers about an order: paid_at may be lacking.
Answers(o) ==
  {[st |-> upay[o].st, pay |-> upay[o].pay, at |-> at] : at \in {0, upay[o].at}}

GetOrder(p) ==
  /\ pc[p] = "fetch"
  /\ \E answer \in Answers(job[p]) : snap' = [snap EXCEPT ![p] = answer]
  /\ Goto(p, "apply")
  /\ UNCHANGED cur
  /\ UNCHANGED <<orderVars, expiry, seen, stage, upay, now, faults>>

\* actWait: SaveUpayOrderState, then UpdateReceived
ApplyWait(p) ==
  /\ pc[p] = "apply" /\ Classify(snap[p]) = "wait"
  /\ RowFree(p)
  /\ received' = [received EXCEPT ![job[p]] =
       IF status[job[p]] = "PENDING" THEN snap[p].pay ELSE @]
  /\ Release(p)
  /\ UNCHANGED <<status, attached, applied, paidOn>>
  /\ UNCHANGED <<expiry, seen, stage, upay, now, faults>>

\* Mutant of ApplyTerminal: the statement's condition on PENDING is dropped.
ClosesAnyStatus(p) ==
  /\ pc[p] = "apply" /\ Classify(snap[p]) = "terminal"
  /\ RowFree(p)
  /\ status' = [status EXCEPT ![job[p]] = "CANCELED"]
  /\ Release(p)
  /\ UNCHANGED <<attached, applied, received, paidOn>>
  /\ UNCHANGED <<expiry, seen, stage, upay, now, faults>>

\* actTerminal: SaveUpayOrderState, then MarkOrderTerminal
ApplyTerminal(p) ==
  /\ pc[p] = "apply" /\ Classify(snap[p]) = "terminal"
  /\ RowFree(p)
  /\ status' = [status EXCEPT ![job[p]] = IF @ = "PENDING" THEN "CANCELED" ELSE @]
  /\ Release(p)
  /\ UNCHANGED <<attached, applied, received, paidOn>>
  /\ UNCHANGED <<expiry, seen, stage, upay, now, faults>>

\* actActivate: SaveUpayOrderState, then ActivateMembership as far as the row
\* lock and the flag it reads under it
AlreadyApplied(p) ==
  /\ pc[p] = "apply" /\ Classify(snap[p]) = "activate"
  /\ RowFree(p)
  /\ job[p] \in applied
  /\ Release(p)
  /\ UNCHANGED <<orderVars, expiry, seen, stage, upay, now, faults>>

\* parseTime dates a payment without paid_at with the clock.
BeginActivation(p) ==
  /\ pc[p] = "apply" /\ Classify(snap[p]) = "activate"
  /\ RowFree(p)
  /\ job[p] \notin applied
  /\ snap' = [snap EXCEPT ![p] =
       [st |-> @.st, pay |-> @.pay, at |-> IF @.at = 0 THEN now ELSE @.at]]
  /\ Goto(p, "locked")
  /\ UNCHANGED cur
  /\ UNCHANGED <<orderVars, expiry, seen, stage, upay, now, faults>>

\* pg_advisory_xact_lock, then the subscription as it stands
ReadSubscription(p) ==
  /\ pc[p] = "locked"
  /\ UserFree(p)
  /\ cur' = [cur EXCEPT ![p] = expiry[Owner[job[p]]]]
  /\ Goto(p, "stacking")
  /\ UNCHANGED snap
  /\ UNCHANGED <<orderVars, expiry, seen, stage, upay, now, faults>>

NewExpiry(current, paidAt, days) ==
  (IF current > paidAt THEN current ELSE paidAt) + days

Commit(p) ==
  /\ pc[p] = "stacking"
  /\ LET o == job[p] IN
       /\ expiry' = [expiry EXCEPT ![Owner[o]] = NewExpiry(cur[p], snap[p].at, Term[o])]
       /\ status' = [status EXCEPT ![o] = "PAID"]
       /\ applied' = applied \union {o}
       /\ paidOn' = [paidOn EXCEPT ![o] = snap[p].at]
       /\ received' = [received EXCEPT ![o] = "PAID"]
  /\ Release(p)
  /\ UNCHANGED <<attached, seen, stage, upay, now, faults>>

-------------------------------------------------------------------------------
(* Failures                                                                *)

\* A call or statement returns an error: a handler answers 500, the
\* reconciler logs it and goes on; an open transaction rolls back.
Fail(p) ==
  /\ pc[p] \in {"fetch", "apply", "expire"} \union InTx
  /\ Fault
  /\ Release(p)
  /\ UNCHANGED <<orderVars, expiry, seen, stage, upay, now>>

\* GetOrder in the reconciler is answered with a non-2xx status.
ApiError ==
  /\ pc[Rec] = "fetch"
  /\ Fault
  /\ Goto(Rec, "expire")
  /\ UNCHANGED <<snap, cur>>
  /\ UNCHANGED <<orderVars, expiry, seen, stage, upay, now>>

\* Mutant of ExpireOnError: the UPDATE without AND status='PENDING'.
ExpiresAnyStatus ==
  /\ pc[Rec] = "expire"
  /\ RowFree(Rec)
  /\ status' = [status EXCEPT ![job[Rec]] = "EXPIRED"]
  /\ Release(Rec)
  /\ UNCHANGED <<attached, applied, received, paidOn>>
  /\ UNCHANGED <<expiry, seen, stage, upay, now, faults>>

\* MarkOrderExpiredWithError; a body that is not JSON does not fit
\* reconcile_err_body and the UPDATE fails
ExpireOnError ==
  /\ pc[Rec] = "expire"
  /\ RowFree(Rec)
  /\ \E isJson \in BOOLEAN :
       status' = [status EXCEPT ![job[Rec]] =
         IF isJson /\ @ = "PENDING" THEN "EXPIRED" ELSE @]
  /\ Release(Rec)
  /\ UNCHANGED <<attached, applied, received, paidOn>>
  /\ UNCHANGED <<expiry, seen, stage, upay, now, faults>>

\* The server stops and is started again.
Crash ==
  /\ Fault
  /\ pc' = [p \in Proc |-> "idle"]
  /\ job' = [p \in Proc |-> NoJob]
  /\ snap' = [p \in Proc |-> NoOrder]
  /\ cur' = [p \in Proc |-> 0]
  /\ todo' = {}
  /\ stage' = [o \in Order |->
       IF stage[o] \in {"idle", "done"} THEN stage[o] ELSE "dead"]
  /\ UNCHANGED <<orderVars, expiry, seen, upay, now>>

-------------------------------------------------------------------------------
Request(o) ==
  \/ CheckReuse(o) \/ InsertOrder(o) \/ CallUpay(o)
  \/ AttachUpay(o) \/ MarkFailed(o) \/ RequestFails(o)

\* What a handler or the reconciler does once it has an order, failures aside
Step(p) ==
  \/ GetOrder(p) \/ ApplyWait(p) \/ ApplyTerminal(p)
  \/ AlreadyApplied(p) \/ BeginActivation(p) \/ ReadSubscription(p) \/ Commit(p)

Reconcile == Tick \/ (\E o \in Order : Poll(o)) \/ ExpireOnError

Environment ==
  \/ NextDay
  \/ \E o \in Order :
       \/ \E pay \in Pay : UpayPaid(o, pay)
       \/ \E st \in UpayStatus : UpayMoves(o, st)
       \/ \E h \in Handler : ReceivePaid(h, o)
  \/ ApiError
  \/ Crash

Next ==
  \/ \E o \in Order : Request(o)
  \/ \E p \in Proc : Step(p) \/ Fail(p)
  \/ Reconcile
  \/ Environment

Spec == Init /\ [][Next]_vars

\* Goroutines that can run do run: the reconcile ticker never stops and a
\* handler carries a delivery it accepted to its end.  Nothing is assumed of
\* UPay, of the payer, of deliveries or of requests.
FairSpec ==
  /\ Spec
  /\ WF_vars(Reconcile)
  /\ \A p \in Proc : WF_vars(Step(p))
-------------------------------------------------------------------------------
(* Properties                                                              *)

M == INSTANCE Membership WITH paid <- {o \in Order : upay[o].pay = "PAID"},
                              credited <- applied

\* The whole machinery of deliveries, retries, polls and crashes credits an
\* order's term at most once, only when UPay has the full amount, and on top of
\* what the subscription holds at that moment ("每笔订单只触发一次",
\* docs/PRD-会员订阅与USDT支付.md:370).
ImplementsMembership == M!Spec

\* Refunds, where no refund is ever asked for and nothing fails
Activations ==
  INSTANCE Refunds WITH
    status <- [o \in Order |-> IF status[o] = "PAID" THEN "PAID" ELSE "UNPAID"],
    Refund <- {}, Client <- {}, Job <- Rec, None <- NoJob, MaxFaults <- 0,
    row <- <<>>, settled <- {}, of <- <<>>, upay <- <<>>,
    proc <- [p \in {Rec} |-> [pc |-> "idle", r |-> NoJob, st |-> "NONE"]],
    todo <- {}, faults <- 0

\* What Refunds takes for granted of an order until a refund touches it: all
\* that the statements of an activation, the polls and the write-offs come to
\* is one step, taken once, that makes the order PAID for good.
ImplementsActivations == Activations!Spec

\* Two orders of one member never overlap: the subscription covers both terms
\* from the earlier of the two payments on, however their activations
\* interleave (ActivateMembership's "expiry stacking is correct").
TermsStack ==
  \A o1, o2 \in applied :
    o1 # o2 /\ Owner[o1] = Owner[o2] =>
      \/ expiry[Owner[o1]] >= paidOn[o1] + Term[o1] + Term[o2]
      \/ expiry[Owner[o1]] >= paidOn[o2] + Term[o1] + Term[o2]

\* No day is invented: a subscription never reaches past one of its payments
\* plus the days granted by the orders activated for it, each order granting
\* its term once, whatever two activations read of one another.
Granted(S) == UNION {{o} \X (1 .. Term[o]) : o \in S}
TotalTerm(S) == Cardinality(Granted(S))
Mine(u) == {o \in applied : Owner[o] = u}
NoInventedDays ==
  \A u \in User :
    expiry[u] > 0 => \E o \in Mine(u) : expiry[u] <= paidOn[o] + TotalTerm(Mine(u))

\* An activated order is out of reach of every stale reading: no poll, error
\* or late verdict moves it out of PAID, re-dates it or lowers its amount.
ActivationKept ==
  \A o \in applied : /\ o \in applied'
                     /\ status'[o] = "PAID" /\ received'[o] = "PAID"
                     /\ paidOn'[o] = paidOn[o]
ActivationIsFinal == [][ActivationKept]_vars

\* "Persist the local order first (PENDING) so we never lose track of a
\* payment" (handler/account.go:163): money can only arrive for an order whose
\* row can be found by its payment id and was not written off as FAILED.
NoUntrackedPayment ==
  \A o \in Order :
    /\ upay[o].st # "NONE" => status[o] # "NONE"
    /\ upay[o].pay # "UNPAID" => o \in attached /\ status[o] # "FAILED"

\* Once UPay has the whole amount, the reconciler alone sees to it that the
\* order is activated, unless KYC rejects the payer or an error answer has made
\* it EXPIRED.
PaidIsActivated ==
  \A o \in Order :
    upay[o].pay = "PAID" ~>
      (o \in applied \/ upay[o].st = "REJECTED" \/ status[o] = "EXPIRED")

\* The reconciler "also repairs any COMPLETED order that missed its webhook"
\* (job/reconcile.go:14-16).
CompletedIsRepaired ==
  \A o \in Order : upay[o].st = "COMPLETED" ~> o \in applied

\* A failed activation is answered 500 "so UPay retries"
\* (handler/webhook.go:119): while an order is not activated, either a handler
\* is at it or a further delivery of its event is not taken for a duplicate.
RetryIsEffective ==
  \A o \in seen \ applied : \E h \in Handler : job[h] = o

\* A written-off order stays as it is but for a full payment that came late:
\* an EXPIRED or CANCELED one may then still become PAID (repo/repo.go:463-505
\* asks only for the flag), a FAILED one never does.
LatePaymentOnly ==
  \A o \in Order :
    status[o] \in {"EXPIRED", "CANCELED", "FAILED"} /\ status'[o] # status[o] =>
      status[o] # "FAILED" /\ status'[o] = "PAID" /\ upay[o].pay = "PAID"
WrittenOffStaysOff == [][LatePaymentOnly]_vars
===============================================================================
