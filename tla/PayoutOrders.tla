------------------------------ MODULE PayoutOrders ------------------------------
(***************************************************************************)
(* Payout (remittance) orders: create, quote, confirm, cancel and requote  *)
(* (service/payout.go), the UPay push handler (handler/payout_webhook.go), *)
(* the sync job (job/payout_sync.go) and their SQL (repo/payout.go),       *)
(* against UPay's payout service.                                          *)
(*                                                                         *)
(* A step is one database statement or one UPay call, together with the    *)
(* local computation after it.  Every request runs in a goroutine of its   *)
(* own and holds no lock, so a status read from UPay is written to the row *)
(* in a later step, and the last writer wins.                              *)
(*                                                                         *)
(* Statuses carry names: QUOTING is 0 and 1, AWAIT 2, CONFIRMED 3,         *)
(* QUOTEFAILED 4, PROCESSING 5 and 6, SUCCEEDED 7, FAILED 8, CANCELED 9,   *)
(* REFUNDING 10, REFUNDED 11, REQUOTED 12.  An order's quotes are numbered *)
(* from 1.                                                                 *)
(*                                                                         *)
(* Abstracted: payer, recipient and amounts (checked before anything is    *)
(* stored), last_info, last_error, the event timeline's dates, and how the *)
(* trade password is checked (only whether it was right).                  *)
(***************************************************************************)
EXTENDS Naturals, FiniteSets

CONSTANTS
  Order,     \* payout orders that may be created
  Client,    \* goroutines serving the member's requests
  Pusher,    \* goroutines serving UPay's pushes
  Job,       \* the sync job
  NoOrder,   \* what a goroutine that has no order works on
  Outcome,   \* what UPay makes of an order it works off
  MaxQuote,  \* bound on the quotes of an order
  MaxPushes, \* bound on the pushes that are delivered
  MaxOld,    \* bound on the orders that grow older than 7 days
  MaxFaults  \* bound on failures: database and UPay errors, crashes

Proc == Client \union Pusher \union {Job}

ASSUME ProcAssumption ==
  Client \intersect Pusher = {} /\ Job \notin Client \union Pusher
ASSUME NoOrderAssumption == NoOrder \notin Order
ASSUME OutcomeAssumption == Outcome \subseteq {"SUCCEEDED", "FAILED", "REFUNDING"}
ASSUME BoundAssumption ==
  MaxQuote \in Nat \ {0} /\ MaxPushes \in Nat /\ MaxOld \in Nat /\ MaxFaults \in Nat

VARIABLES
  row,        \* payout_orders.status, "NONE" before the row exists
  attached,   \* orders whose row has its order_no
  confirmed,  \* orders with confirmed_at
  recorded,   \* payout_webhook_events, a push being the order and its new status
  processed,  \* those with processed_at
  proc,       \* what each goroutine is at, see Place
  phase, todo, replay,  \* the job: which list it walks and what is left of it
  old,        \* orders created more than 7 days ago, which the job leaves alone
  upay,       \* UPay's order: status, latest quote, whether that is still
              \* valid, and the quote the money was last taken for
  hist,       \* statuses UPay's order has been in
  agreed,     \* <<order, quote>>s the member confirmed with the right password
  faults      \* failures so far

dbVars == <<row, attached, confirmed, recorded, processed>>
jobVars == <<phase, todo, replay, old>>
upayVars == <<upay, hist>>
vars == <<dbVars, proc, jobVars, upayVars, agreed, faults>>

Confirmable == {"AWAIT", "REQUOTED"}
Cancelable == {"QUOTING", "AWAIT", "REQUOTED"}
Polled == {"CONFIRMED", "PROCESSING", "REFUNDING"}
Terminal == {"QUOTEFAILED", "SUCCEEDED", "FAILED", "CANCELED", "REFUNDED"}
Settled == {"SUCCEEDED", "FAILED", "REFUNDED"}  \* UPay is through with the order
Status == {"NONE"} \union Cancelable \union Polled \union Terminal
Quote == 0 .. MaxQuote

Op == {"quote", "confirm", "cancel", "requote", "create", "push", "sync"}
Label == {"idle", "ask", "record", "password", "confirm", "accepted", "recheck",
          "cancel", "apply", "insert", "create", "attach",
          "lookup", "sync", "store", "mark"}

\* What a goroutine is at: the label of its next step, the operation and the
\* order, the quote it holds, the quote the member named, a status it has read,
\* and the status a push announced
Place(label, op, o, quote, named, st, note) ==
  [pc |-> label, op |-> op, o |-> o, quote |-> quote, named |-> named,
   st |-> st, note |-> note]
Idle == Place("idle", "sync", NoOrder, 0, 0, "NONE", "NONE")
NoUpayOrder == [st |-> "NONE", quote |-> 0, valid |-> FALSE, taken |-> 0]

TypeOK ==
  /\ row \in [Order -> Status]
  /\ attached \subseteq Order
  /\ confirmed \subseteq Order
  /\ recorded \subseteq Order \X Status
  /\ processed \subseteq recorded
  /\ proc \in [Proc -> [pc : Label, op : Op, o : Order \union {NoOrder},
                        quote : Quote, named : Quote, st : Status, note : Status]]
  /\ phase \in {"orders", "pushes"}
  /\ todo \subseteq Order
  /\ replay \subseteq recorded
  /\ old \subseteq Order
  /\ upay \in [Order -> [st : Status, quote : Quote, valid : BOOLEAN, taken : Quote]]
  /\ hist \in [Order -> SUBSET Status]
  /\ agreed \subseteq Order \X Quote
  /\ faults \in 0 .. MaxFaults

Init ==
  /\ row = [o \in Order |-> "NONE"]
  /\ attached = {} /\ confirmed = {}
  /\ recorded = {} /\ processed = {}
  /\ proc = [p \in Proc |-> Idle]
  /\ phase = "pushes" /\ todo = {} /\ replay = {} /\ old = {}
  /\ upay = [o \in Order |-> NoUpayOrder]
  /\ hist = [o \in Order |-> {}]
  /\ agreed = {}
  /\ faults = 0

Fault == faults < MaxFaults /\ faults' = faults + 1

Begin(p, op, label, o, named, note) ==
  proc' = [proc EXCEPT ![p] = Place(label, op, o, 0, named, "NONE", note)]
Goto(p, label, quote, st) ==
  proc' = [proc EXCEPT ![p] =
    Place(label, @.op, @.o, quote, @.named, st, @.note)]
Finish(p) == proc' = [proc EXCEPT ![p] = Idle]
-------------------------------------------------------------------------------
(* UPay                                                                    *)

Becomes(o, st, quote, valid, taken) ==
  /\ upay' = [upay EXCEPT ![o] =
       [st |-> st, quote |-> quote, valid |-> valid, taken |-> taken]]
  /\ hist' = [hist EXCEPT ![o] = @ \union {st}]

UpayStep(o) ==
  /\ LET u == upay[o] IN
     \/ \* the first quote, or none
        /\ u.st = "QUOTING"
        /\ \/ Becomes(o, "AWAIT", 1, TRUE, u.taken)
           \/ Becomes(o, "QUOTEFAILED", 0, FALSE, u.taken)
     \/ \* validUntil passes; the status stays
        u.valid /\ Becomes(o, u.st, u.quote, FALSE, u.taken)
     \/ \* a confirmation is worked off: the money is taken if the quote still
        \* holds, otherwise there is a new quote, or none
        /\ u.st = "CONFIRMED"
        /\ \/ u.valid /\ Becomes(o, "PROCESSING", u.quote, u.valid, u.quote)
           \/ /\ ~u.valid /\ u.quote < MaxQuote
              /\ Becomes(o, "REQUOTED", u.quote + 1, TRUE, u.taken)
           \/ ~u.valid /\ Becomes(o, "QUOTEFAILED", u.quote, FALSE, u.taken)
     \/ /\ u.st = "PROCESSING"
        /\ \E st \in Outcome : Becomes(o, st, u.quote, u.valid, u.taken)
     \/ u.st = "REFUNDING" /\ Becomes(o, "REFUNDED", u.quote, u.valid, u.taken)
  /\ UNCHANGED <<dbVars, proc, jobVars, agreed, faults>>

\* UPay looks the quote up among the order's latest and asks for nothing else,
\* neither for the order's status nor for the quote's: a canceled order is
\* confirmed again, and so is one the money was taken for, which is then worked
\* off a second time (docs/UPAY-汇款接口问题清单.md:122-123, 340-342).
UpayAccepts(o, quote) == upay[o].quote = quote

UpayGivesUp(o) == upay[o].st \in Cancelable \union {"CONFIRMED"}

\* The calls of the client that change UPay's order, when they are carried out
CallCreate(o) == Becomes(o, "QUOTING", 0, FALSE, 0)
CallConfirm(o, quote) ==
  /\ UpayAccepts(o, quote)
  /\ Becomes(o, "CONFIRMED", quote, upay[o].valid, upay[o].taken)
CallCancel(o) ==
  /\ UpayGivesUp(o)
  /\ Becomes(o, "CANCELED", upay[o].quote, upay[o].valid, upay[o].taken)

\* What its other two calls answer: the status an order is in, and a quote,
\* which UPay lists while the order waits for one to be confirmed
OrderInfo(o) == upay[o].st
QuoteInfo(o) == IF upay[o].st \in Confirmable THEN upay[o].quote ELSE 0
-------------------------------------------------------------------------------
(* The statements of repo/payout.go over the rows                          *)

\* CreatePayoutOrder: a new row takes the column's default status.
CreateRow(o) ==
  /\ row[o] = "NONE"
  /\ row' = [row EXCEPT ![o] = "QUOTING"]

\* ApplyPayoutOrderStatus; its callers ignore an error.
ApplyStatus(o, st) ==
  \/ row' = [row EXCEPT ![o] = st] /\ UNCHANGED faults
  \/ UNCHANGED row /\ Fault

SetPayoutOrderCreated(o) == attached' = attached \union {o}

\* It asks for no status.
SetPayoutOrderConfirmed(o) == confirmed' = confirmed \union {o}

\* GetPayoutOrderByOrderNo finds a row.
HasRow(o) == o \in attached

\* A push that is known already is not inserted.
InsertPayoutWebhookEvent(o, st) ==
  /\ <<o, st>> \notin recorded
  /\ recorded' = recorded \union {<<o, st>>}
-------------------------------------------------------------------------------
(* The member's requests                                                   *)

\* CreateOrder begins; Order bounds how many are created.
CreateRequest(c) ==
  /\ \E o \in Order : row[o] = "NONE"
  /\ Begin(c, "create", "insert", NoOrder, 0, "NONE")

\* order() and the status checks of Quote, Confirm, Cancel and Requote
QuoteRequest(c, o) ==
  /\ row[o] \notin Terminal /\ o \notin confirmed
  /\ Begin(c, "quote", "ask", o, 0, "NONE")

ConfirmRequest(c, o) ==
  /\ row[o] \in Confirmable
  /\ \E quote \in 1 .. MaxQuote : Begin(c, "confirm", "ask", o, quote, "NONE")

CancelRequest(c, o) ==
  /\ row[o] \in Cancelable
  /\ Begin(c, "cancel", "cancel", o, 0, "NONE")

\* A failed order is not canceled, only created again.
RequoteRequest(c, o) ==
  \/ row[o] \in Confirmable /\ Begin(c, "requote", "ask", o, 0, "NONE")
  \/ row[o] = "QUOTEFAILED" /\ CreateRequest(c)

\* Mutant of Request: order() does not look for an order_no.
RequestsAnyOrder(c) ==
  /\ proc[c].pc = "idle"
  /\ \/ CreateRequest(c)
     \/ \E o \in Order :
          /\ row[o] # "NONE"
          /\ \/ QuoteRequest(c, o) \/ ConfirmRequest(c, o)
             \/ CancelRequest(c, o) \/ RequoteRequest(c, o)
  /\ UNCHANGED <<dbVars, jobVars, upayVars, agreed, faults>>

Request(c) ==
  /\ proc[c].pc = "idle"
  /\ \/ CreateRequest(c)
     \/ \E o \in attached :
          \/ QuoteRequest(c, o) \/ ConfirmRequest(c, o)
          \/ CancelRequest(c, o) \/ RequoteRequest(c, o)
  /\ UNCHANGED <<dbVars, jobVars, upayVars, agreed, faults>>

\* Mutant of Usable: the quote named by the request is not compared.
AnyQuote(here, quote) == here.op # "quote" /\ quote # 0

\* Confirm goes on only with the quote the request named; Requote takes any.
Usable(here, quote) ==
  \/ here.op = "confirm" /\ quote = here.named
  \/ here.op = "requote"

AskQuote(p) ==
  /\ proc[p].pc = "ask"
  /\ LET quote == QuoteInfo(proc[p].o) IN
       Goto(p, "record", IF Usable(proc[p], quote) THEN quote ELSE 0,
            OrderInfo(proc[p].o))
  /\ UNCHANGED <<dbVars, jobVars, upayVars, agreed, faults>>

\* More than 5 s are left for Confirm, any time at all for Requote.
StillValid(o, quote) == quote # 0 /\ upay[o].quote = quote /\ upay[o].valid

\* The rest of currentQuote, and what its caller concludes
RecordQuote(p) ==
  /\ proc[p].pc = "record"
  /\ LET here == proc[p]
         valid == StillValid(here.o, here.quote)
     IN /\ ApplyStatus(here.o, here.st)
        /\ \/ /\ here.op = "confirm" /\ valid
              /\ Goto(p, "password", here.quote, "NONE")
           \/ /\ here.op = "requote" /\ ~valid
              /\ Goto(p, "recheck", 0, "NONE")
           \/ /\ \/ here.op = "quote"
                 \/ here.op = "confirm" /\ ~valid
                 \/ here.op = "requote" /\ valid
              /\ Finish(p)
  /\ UNCHANGED <<attached, confirmed, recorded, processed>>
  /\ UNCHANGED <<jobVars, upayVars, agreed>>

\* Mutant of CheckPassword: only a password that was set is asked for.
SkipsPassword(p) ==
  /\ proc[p].pc = "password"
  /\ Goto(p, "confirm", proc[p].quote, "NONE")
  /\ UNCHANGED <<dbVars, jobVars, upayVars, agreed, faults>>

\* CheckTradePassword
CheckPassword(p) ==
  /\ proc[p].pc = "password"
  /\ \/ /\ agreed' = agreed \union {<<proc[p].o, proc[p].named>>}
        /\ Goto(p, "confirm", proc[p].quote, "NONE")
     \/ Finish(p) /\ UNCHANGED agreed
  /\ UNCHANGED <<dbVars, jobVars, upayVars, faults>>

\* Mutant of ConfirmOrder: a call that was not answered is made again.
ConfirmsAgain(p) ==
  /\ proc[p].pc = "confirm"
  /\ LET o == proc[p].o
         quote == proc[p].quote
     IN \/ /\ CallConfirm(o, quote)
           /\ \/ Begin(p, "confirm", "accepted", o, 0, "NONE") /\ UNCHANGED faults
              \/ UNCHANGED proc /\ Fault
        \/ Finish(p) /\ UNCHANGED <<upayVars, faults>>
  /\ UNCHANGED <<dbVars, jobVars, agreed>>

\* UPay refuses, for the quote or for want of balance, or carries the call out;
\* its answer may be lost.
ConfirmOrder(p) ==
  /\ proc[p].pc = "confirm"
  /\ LET o == proc[p].o
         quote == proc[p].quote
     IN \/ /\ CallConfirm(o, quote)
           /\ \/ Begin(p, "confirm", "accepted", o, 0, "NONE") /\ UNCHANGED faults
              \/ Finish(p) /\ Fault
        \/ Finish(p) /\ UNCHANGED <<upayVars, faults>>
  /\ UNCHANGED <<dbVars, jobVars, agreed>>

SetConfirmed(p) ==
  /\ proc[p].pc = "accepted"
  /\ SetPayoutOrderConfirmed(proc[p].o)
  /\ Goto(p, "apply", 0, "CONFIRMED")
  /\ UNCHANGED <<row, attached, recorded, processed>>
  /\ UNCHANGED <<jobVars, upayVars, agreed, faults>>

\* Requote cancels through Cancel, which reads the row anew.
Recheck(p) ==
  /\ proc[p].pc = "recheck"
  /\ IF row[proc[p].o] \in Cancelable THEN Goto(p, "cancel", 0, "NONE") ELSE Finish(p)
  /\ UNCHANGED <<dbVars, jobVars, upayVars, agreed, faults>>

\* Mutant of CancelOrder: a refusal is taken for a success.
CancelsAnyway(p) ==
  /\ proc[p].pc = "cancel"
  /\ LET o == proc[p].o
     IN IF UpayGivesUp(o)
        THEN Becomes(o, "CANCELED", upay[o].quote, upay[o].valid, upay[o].taken)
        ELSE UNCHANGED upayVars
  /\ Goto(p, "apply", 0, "CANCELED")
  /\ UNCHANGED <<dbVars, jobVars, agreed, faults>>

\* UPay refuses, or carries the call out; its answer may be lost.
CancelOrder(p) ==
  /\ proc[p].pc = "cancel"
  /\ LET o == proc[p].o
     IN \/ /\ CallCancel(o)
           /\ \/ Goto(p, "apply", 0, "CANCELED") /\ UNCHANGED faults
              \/ Finish(p) /\ Fault
        \/ /\ ~UpayGivesUp(o)
           /\ Finish(p)
           /\ UNCHANGED <<upayVars, faults>>
  /\ UNCHANGED <<dbVars, jobVars, agreed>>

\* Mutant of InsertOrder: a status the column's vocabulary does not have.
InsertsDraft(p) ==
  /\ proc[p].pc = "insert"
  /\ \E o \in Order :
       /\ row[o] = "NONE"
       /\ row' = [row EXCEPT ![o] = "DRAFT"]
       /\ Begin(p, "create", "create", o, 0, "NONE")
  /\ UNCHANGED <<attached, confirmed, recorded, processed>>
  /\ UNCHANGED <<jobVars, upayVars, agreed, faults>>

\* CreateOrder: the row first, then UPay
InsertOrder(p) ==
  /\ proc[p].pc = "insert"
  /\ \E o \in Order :
       /\ CreateRow(o)
       /\ Begin(p, "create", "create", o, 0, "NONE")
  /\ UNCHANGED <<attached, confirmed, recorded, processed>>
  /\ UNCHANGED <<jobVars, upayVars, agreed, faults>>

\* An error, also when only the answer is lost, closes the row as QUOTEFAILED.
CreateOrder(p) ==
  /\ proc[p].pc = "create"
  /\ \E created \in BOOLEAN, answered \in BOOLEAN :
       /\ IF created THEN CallCreate(proc[p].o) ELSE UNCHANGED upayVars
       /\ IF created /\ answered
          THEN Goto(p, "attach", 0, "QUOTING") /\ UNCHANGED faults
          ELSE Goto(p, "apply", 0, "QUOTEFAILED") /\ Fault
  /\ UNCHANGED <<dbVars, jobVars, agreed>>

AttachOrderNo(p) ==
  /\ proc[p].pc = "attach"
  /\ SetPayoutOrderCreated(proc[p].o)
  /\ Goto(p, "apply", 0, proc[p].st)
  /\ UNCHANGED <<row, confirmed, recorded, processed>>
  /\ UNCHANGED <<jobVars, upayVars, agreed, faults>>

\* Mutant of ApplyAnswer: an accepted confirmation is shown as PROCESSING.
AppliesAhead(p) ==
  /\ proc[p].pc = "apply"
  /\ ApplyStatus(proc[p].o, IF proc[p].op = "confirm" THEN "PROCESSING" ELSE proc[p].st)
  /\ \/ proc[p].op = "confirm" /\ Begin(p, "sync", "sync", proc[p].o, 0, "NONE")
     \/ proc[p].op = "requote" /\ Begin(p, "create", "insert", NoOrder, 0, "NONE")
     \/ proc[p].op \in {"cancel", "create"} /\ Finish(p)
  /\ UNCHANGED <<attached, confirmed, recorded, processed>>
  /\ UNCHANGED <<jobVars, upayVars, agreed>>

\* The status a call was answered with goes into the row.  A confirmation then
\* leaves a goroutine behind that synchronizes the order, and a requote creates
\* the new order.
ApplyAnswer(p) ==
  /\ proc[p].pc = "apply"
  /\ ApplyStatus(proc[p].o, proc[p].st)
  /\ \/ proc[p].op = "confirm" /\ Begin(p, "sync", "sync", proc[p].o, 0, "NONE")
     \/ proc[p].op = "requote" /\ Begin(p, "create", "insert", NoOrder, 0, "NONE")
     \/ proc[p].op \in {"cancel", "create"} /\ Finish(p)
  /\ UNCHANGED <<attached, confirmed, recorded, processed>>
  /\ UNCHANGED <<jobVars, upayVars, agreed>>
-------------------------------------------------------------------------------
(* Pushes, the sync job, and SyncOrder, which they share                   *)

\* PayoutWebhook: an unknown push is recorded and answered at once.
ReceivePush(w, o, st) ==
  /\ proc[w].pc = "idle"
  /\ st \in hist[o] /\ Cardinality(recorded) < MaxPushes
  /\ InsertPayoutWebhookEvent(o, st)
  /\ Begin(w, "push", "lookup", o, 0, st)
  /\ UNCHANGED <<row, attached, confirmed, processed>>
  /\ UNCHANGED <<jobVars, upayVars, agreed, faults>>

\* SyncByOrderNo: a push for an order_no no row has is done with.
LookUp(p) ==
  /\ proc[p].pc = "lookup"
  /\ Goto(p, IF HasRow(proc[p].o) THEN "sync" ELSE "mark", 0, "NONE")
  /\ UNCHANGED <<dbVars, jobVars, upayVars, agreed, faults>>

\* SyncOrder: OrderInfo
ReadInfo(p) ==
  /\ proc[p].pc = "sync"
  /\ Goto(p, "store", 0, OrderInfo(proc[p].o))
  /\ UNCHANGED <<dbVars, jobVars, upayVars, agreed, faults>>

\* SyncOrder: SetPayoutOrderInfo and ApplyPayoutOrderStatus
StoreInfo(p) ==
  /\ proc[p].pc = "store"
  /\ row' = [row EXCEPT ![proc[p].o] = proc[p].st]
  /\ IF proc[p].op = "push" THEN Goto(p, "mark", 0, "NONE") ELSE Finish(p)
  /\ UNCHANGED <<attached, confirmed, recorded, processed>>
  /\ UNCHANGED <<jobVars, upayVars, agreed, faults>>

\* MarkPayoutWebhookProcessed
MarkProcessed(p) ==
  /\ proc[p].pc = "mark"
  /\ processed' = processed \union {<<proc[p].o, proc[p].note>>}
  /\ Finish(p)
  /\ UNCHANGED <<row, attached, confirmed, recorded>>
  /\ UNCHANGED <<jobVars, upayVars, agreed, faults>>

\* Mutant of ToSync: refunds are not followed.
NoRefunds == {o \in attached \ old : row[o] \in Polled \ {"REFUNDING"}}

\* ListPayoutOrdersToSync, of fewer orders than its limit
ToSync == {o \in attached \ old : row[o] \in Polled}

JobIdle == proc[Job].pc = "idle" /\ todo = {} /\ replay = {}

\* Seven days have passed since the order was created.  An order may be that old
\* before it is polled, but until then nothing asks for its age.
GrowsOld(o) ==
  /\ row[o] \in Polled /\ o \notin old /\ Cardinality(old) < MaxOld
  /\ old' = old \union {o}
  /\ UNCHANGED <<dbVars, proc, phase, todo, replay, upayVars, agreed, faults>>

ListOrders ==
  /\ JobIdle /\ phase = "pushes"
  /\ phase' = "orders" /\ todo' = ToSync
  /\ UNCHANGED <<dbVars, proc, replay, old, upayVars, agreed, faults>>

SyncNext(o) ==
  /\ proc[Job].pc = "idle" /\ o \in todo
  /\ todo' = todo \ {o}
  /\ Begin(Job, "sync", "sync", o, 0, "NONE")
  /\ UNCHANGED <<dbVars, phase, replay, old, upayVars, agreed, faults>>


\* ListUnprocessedPayoutWebhooks: after a minute no handler is still at it.
Unprocessed ==
  {n \in recorded \ processed :
     \A w \in Pusher : proc[w].pc = "idle" \/ <<proc[w].o, proc[w].note>> # n}

ListPushes ==
  /\ JobIdle /\ phase = "orders"
  /\ phase' = "pushes" /\ replay' = Unprocessed
  /\ UNCHANGED <<dbVars, proc, todo, old, upayVars, agreed, faults>>

ReplayNext(n) ==
  /\ proc[Job].pc = "idle" /\ n \in replay
  /\ replay' = replay \ {n}
  /\ Begin(Job, "push", "lookup", n[1], 0, n[2])
  /\ UNCHANGED <<dbVars, phase, todo, old, upayVars, agreed, faults>>
-------------------------------------------------------------------------------
\* A call or statement returns an error and the goroutine gives up.
Fail(p) ==
  /\ proc[p].pc \notin {"idle", "record", "create", "apply"}
  /\ Fault
  /\ Finish(p)
  /\ UNCHANGED <<dbVars, jobVars, upayVars, agreed>>

\* The server stops and is started again.
Crash ==
  /\ Fault
  /\ proc' = [p \in Proc |-> Idle]
  /\ phase' = "pushes" /\ todo' = {} /\ replay' = {}
  /\ UNCHANGED <<dbVars, old, upayVars, agreed>>

Step(p) ==
  \/ AskQuote(p) \/ RecordQuote(p) \/ CheckPassword(p) \/ ConfirmOrder(p)
  \/ SetConfirmed(p) \/ Recheck(p) \/ CancelOrder(p) \/ InsertOrder(p)
  \/ CreateOrder(p) \/ AttachOrderNo(p) \/ ApplyAnswer(p)
  \/ LookUp(p) \/ ReadInfo(p) \/ StoreInfo(p) \/ MarkProcessed(p)

JobStep ==
  \/ ListOrders \/ ListPushes
  \/ \E o \in Order : SyncNext(o)
  \/ \E n \in Order \X Status : ReplayNext(n)

Next ==
  \/ \E o \in Order : UpayStep(o) \/ GrowsOld(o)
  \/ \E c \in Client : Request(c)
  \/ \E w \in Pusher, o \in Order, st \in Status : ReceivePush(w, o, st)
  \/ \E p \in Proc : Step(p) \/ Fail(p)
  \/ JobStep
  \/ Crash

Spec == Init /\ [][Next]_vars

\* Goroutines that can run do run and the job's ticker never stops.  Nothing is
\* assumed of the member, of UPay or of deliveries.
FairSpec ==
  /\ Spec
  /\ WF_vars(JobStep)
  /\ \A p \in Proc : WF_vars(Step(p))
-------------------------------------------------------------------------------
(* Properties                                                              *)

\* What UPay's order has been confirmed for and not worked off yet, the quote
\* the money was last taken for, and what every goroutine past the password is
\* about to confirm.
Ordered == [o \in Order |-> IF upay[o].st = "CONFIRMED" THEN upay[o].quote ELSE 0]
Takings == [o \in Order |-> upay[o].taken]
Mandates == [p \in Proc |->
  IF proc[p].pc = "confirm" THEN {<<proc[p].o, proc[p].quote>>} ELSE {}]
R == INSTANCE Remittance WITH Session <- Proc, shown <- row, known <- attached,
                              accepted <- confirmed, happened <- hist,
                              mandate <- Mandates, ordered <- Ordered,
                              taken <- Takings

\* Goroutines, polls, lost answers and restarts are not noticed: only an order
\* whose number is known is confirmed or canceled; every time the money is taken
\* it is for a confirmation of its own, and every confirmation for a password of
\* its own, entered for that quote; and the page shows nothing but what has
\* happened ("UPay itself does not check", service/payout.go:853).
ImplementsRemittance == R!Spec

\* A row that shows money on its way or arrived, or on its way back, is about
\* money that was taken, for a quote the member agreed to, whichever stale
\* answer or poll wrote the status last (ApplyPayoutOrderStatus compares
\* nothing, repo/payout.go:254-273).
Paid == {"PROCESSING", "SUCCEEDED", "FAILED", "REFUNDING", "REFUNDED"}
ShownMoneyWasTaken ==
  \A o \in Order :
    row[o] \in Paid => upay[o].taken # 0 /\ <<o, upay[o].taken>> \in agreed

\* Money is only ever taken for the quote the member named and confirmed with
\* the trade password, whatever was quoted, requoted, canceled or retried in
\* between (Confirm's QUOTE_CHANGED check, service/payout.go:862).
OnlyAgreedQuotesAreTaken ==
  \A o \in Order : upay[o].taken # 0 => <<o, upay[o].taken>> \in agreed

\* The row never shows what has not happened: its status is one UPay's order
\* has had, save for a creation that was answered with an error, and
\* confirmed_at means UPay accepted a confirmation.
RowIsTrue ==
  \A o \in Order :
    /\ \/ row[o] \in hist[o] \union {"NONE", "QUOTING"}
       \/ row[o] = "QUOTEFAILED" /\ o \notin attached
    /\ o \in confirmed => "CONFIRMED" \in hist[o]

\* An order UPay has and whose order_no is not stored, because its answer is on
\* the way, was lost or could not be saved, is neither confirmed nor canceled by
\* anyone: what is charged is always an order the row can follow, and the pushes
\* that find no row (service/payout.go:962) announce no more than a quote.
UnattachedIsUntouched ==
  \A o \in Order :
    o \notin attached => hist[o] \subseteq {"QUOTING", "AWAIT", "QUOTEFAILED"}

\* An order the job polls does not stay behind once UPay is through with it,
\* unless it is more than 7 days old by then (repo/payout.go:315) or confirmed
\* once more.
PolledSettles ==
  \A o \in Order :
    (row[o] \in Polled /\ upay[o].st \in Settled) ~>
      (row[o] \notin Polled \/ o \in old \/ upay[o].st \notin Settled)


\* "confirmed non-terminal orders are polled" (job/payout_sync.go:12-14): a
\* confirmed order whose pushes are lost still learns of its outcome.
ConfirmedSettles ==
  \A o \in Order :
    (o \in confirmed /\ upay[o].st \in Settled) ~> row[o] = upay[o].st

\* "Only orders we hold in 2/12 are confirmable - UPay itself does not check (a
\* canceled order can be revived ...)" (service/payout.go:853-854): an order
\* that was canceled is not paid out.
CanceledIsNotTaken ==
  \A o \in Order : "CANCELED" \in hist[o] => upay[o].taken = 0
===============================================================================
