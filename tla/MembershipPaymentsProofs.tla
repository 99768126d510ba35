----------------------- MODULE MembershipPaymentsProofs -----------------------
(***************************************************************************)
(* Proofs about MembershipPayments, for any orders, users, plans, number   *)
(* of handlers, clock and number of failures.                              *)
(***************************************************************************)
EXTENDS MembershipPayments, FiniteSetTheorems, TLAPS

(* What a process works on, and where money can be, is a row that UPay's   *)
(* payment id leads to.                                                    *)
Reached ==
  /\ \A p \in Proc : pc[p] # "idle" => job[p] \in attached
  /\ todo \subseteq attached
  /\ applied \subseteq attached
  /\ \A o \in Order : upay[o].pay # "UNPAID" => o \in attached

(* A request's progress and the row it writes                              *)
Requested ==
  \A o \in Order :
    /\ stage[o] \in {"idle", "checked"} => status[o] = "NONE"
    /\ stage[o] \in {"calling", "attach", "fail"} => status[o] = "PENDING"
    /\ o \in attached => stage[o] = "done" /\ status[o] \notin {"NONE", "FAILED"}
    /\ upay[o].st # "NONE" => status[o] # "NONE"

(* At most one open transaction per order, at most one past the advisory   *)
(* lock per user.                                                          *)
RowExclusive ==
  \A p, q \in Proc :
    p # q /\ pc[p] \in InTx /\ pc[q] \in InTx => job[p] # job[q]
UserExclusive ==
  \A p, q \in Proc :
    p # q /\ pc[p] = "stacking" /\ pc[q] = "stacking"
      => Owner[job[p]] # Owner[job[q]]

(* An open transaction works on an order that is not applied yet, and past *)
(* the advisory lock what it read of the subscription is still true.       *)
Fresh ==
  \A p \in Proc :
    /\ pc[p] \in InTx => job[p] \notin applied /\ snap[p].at \in Day
    /\ pc[p] = "stacking" => cur[p] = expiry[Owner[job[p]]]

(* Readings of UPay are old but never wrong about money; an activation has *)
(* money behind it.                                                        *)
Backed ==
  /\ \A o \in Order : upay[o].st = "COMPLETED" => upay[o].pay = "PAID"
  /\ \A p \in Proc :
       /\ pc[p] \notin {"apply"} \union InTx => snap[p] = NoOrder
       /\ snap[p].pay = "PAID" => upay[job[p]].pay = "PAID"
       /\ snap[p].st = "COMPLETED" => snap[p].pay = "PAID"
       /\ pc[p] \in InTx => upay[job[p]].pay = "PAID"
  /\ \A o \in applied :
       upay[o].pay = "PAID" /\ status[o] = "PAID" /\ received[o] = "PAID"

(* An applied order's own term fits under the subscription.                *)
Covered ==
  \A o \in applied : expiry[Owner[o]] >= paidOn[o] + Term[o]

IInv ==
  /\ TypeOK /\ Reached /\ Requested
  /\ RowExclusive /\ UserExclusive /\ Fresh
  /\ Backed /\ Covered /\ TermsStack

-------------------------------------------------------------------------------
\* UPay's order appears, or nothing happens there.
LEMMA CallCreates ==
  ASSUME NEW o \in Order, CallUpay(o)
  PROVE  UNCHANGED upay \/ upay' = [upay EXCEPT ![o] = NewUpayOrder]
BY DEF CallUpay, CreateOrder

\* Every step keeps the variables' types and the processes on attached orders.
LEMMA TypeStep == TypeOK /\ Reached /\ [Next]_vars => (TypeOK /\ Reached)'
<1> SUFFICES ASSUME TypeOK, Reached, [Next]_vars PROVE (TypeOK /\ Reached)'
  OBVIOUS
<1> USE OwnerAssumption, OfferAssumption, RecAssumption, BoundAssumption
    DEF Reached, TypeOK, orderVars, procVars, Pay, UpayStatus, UpayOrder, NoOrder, Stage, InTx, Proc, Day
<1>1. CASE NextDay
  BY <1>1 DEF NextDay
<1>2. ASSUME NEW o \in Order, NEW pay \in Pay, UpayPaid(o, pay) PROVE (TypeOK /\ Reached)'
  BY <1>2 DEF UpayPaid
<1>3. ASSUME NEW o \in Order, NEW st \in UpayStatus, UpayMoves(o, st) PROVE (TypeOK /\ Reached)'
  BY <1>3 DEF UpayMoves
<1>4. ASSUME NEW o \in Order, CheckReuse(o) PROVE (TypeOK /\ Reached)'
  BY <1>4 DEF CheckReuse, Fault
<1>5. ASSUME NEW o \in Order, InsertOrder(o) PROVE (TypeOK /\ Reached)'
  BY <1>5 DEF InsertOrder, CreateRow
<1>6. ASSUME NEW o \in Order, CallUpay(o) PROVE (TypeOK /\ Reached)'
  <2>1. upay' \in [Order -> UpayOrder]
    BY <1>6 DEF CallUpay, NewUpayOrder, CreateOrder
  <2>4. stage' \in [Order -> Stage] /\ faults' \in 0 .. MaxFaults
    <3>1. stage' = [stage EXCEPT ![o] = "attach"] \/ stage' = [stage EXCEPT ![o] = "fail"]
      BY <1>6 DEF CallUpay, CreateOrder
    <3>2. UNCHANGED faults \/ Fault
      BY <1>6 DEF CallUpay, CreateOrder
    <3>. QED BY <3>1, <3>2 DEF Fault
  <2>2. \A x \in Order : upay'[x].pay # "UNPAID" => upay[x].pay # "UNPAID"
    <3>1. UNCHANGED upay \/ upay' = [upay EXCEPT ![o] = NewUpayOrder]
      BY <1>6, CallCreates
    <3> QED
      BY <3>1 DEF NewUpayOrder
  <2>3. UNCHANGED <<orderVars, expiry, seen, procVars, now>>
    BY <1>6 DEF CallUpay, CreateOrder
  <2>. QED BY <2>1, <2>2, <2>3, <2>4
<1>7. ASSUME NEW o \in Order, AttachUpay(o) PROVE (TypeOK /\ Reached)'
  BY <1>7 DEF AttachUpay
<1>8. ASSUME NEW o \in Order, MarkFailed(o) PROVE (TypeOK /\ Reached)'
  BY <1>8 DEF MarkFailed
<1>9. ASSUME NEW o \in Order, RequestFails(o) PROVE (TypeOK /\ Reached)'
  BY <1>9 DEF RequestFails, Fault
<1>10. ASSUME NEW h \in Handler, NEW o \in Order, ReceivePaid(h, o) PROVE (TypeOK /\ Reached)'
  BY <1>10 DEF ReceivePaid, Start, InsertWebhookEvent
<1>11. CASE Tick
  BY <1>11 DEF Tick
<1>12. ASSUME NEW o \in Order, Poll(o) PROVE (TypeOK /\ Reached)'
  BY <1>12 DEF Poll, Start
<1>13. ASSUME NEW p \in Proc, GetOrder(p) PROVE (TypeOK /\ Reached)'
  BY <1>13 DEF GetOrder, Answers, Goto
<1>14. ASSUME NEW p \in Proc, ApplyWait(p) PROVE (TypeOK /\ Reached)'
  BY <1>14 DEF ApplyWait, Release
<1>15. ASSUME NEW p \in Proc, ApplyTerminal(p) PROVE (TypeOK /\ Reached)'
  BY <1>15 DEF ApplyTerminal, Release
<1>16. ASSUME NEW p \in Proc, AlreadyApplied(p) PROVE (TypeOK /\ Reached)'
  BY <1>16 DEF AlreadyApplied, Release
<1>17. ASSUME NEW p \in Proc, BeginActivation(p) PROVE (TypeOK /\ Reached)'
  BY <1>17 DEF BeginActivation, Goto
<1>18. ASSUME NEW p \in Proc, ReadSubscription(p) PROVE (TypeOK /\ Reached)'
  BY <1>18 DEF ReadSubscription, Goto
<1>19. ASSUME NEW p \in Proc, Commit(p) PROVE (TypeOK /\ Reached)'
  BY <1>19 DEF Commit, Release, NewExpiry, Term
<1>20. ASSUME NEW p \in Proc, Fail(p) PROVE (TypeOK /\ Reached)'
  BY <1>20 DEF Fail, Fault, Release
<1>21. CASE ApiError
  BY <1>21 DEF ApiError, Fault, Goto
<1>22. CASE ExpireOnError
  BY <1>22 DEF ExpireOnError, Release
<1>23. CASE Crash
  BY <1>23 DEF Crash, Fault
<1>24. CASE UNCHANGED vars
  BY <1>24 DEF vars
<1> QED
  BY <1>1, <1>2, <1>3, <1>4, <1>5, <1>6, <1>7, <1>8, <1>9, <1>10, <1>11, <1>12,
     <1>13, <1>14, <1>15, <1>16, <1>17, <1>18, <1>19, <1>20, <1>21, <1>22, <1>23, <1>24
  DEF Next, Request, Step, Reconcile, Environment

\* Every step keeps a request and its row in line with each other.
LEMMA RequestStep == TypeOK /\ Reached /\ Requested /\ [Next]_vars => Requested'
<1> SUFFICES ASSUME TypeOK, Reached, Requested, [Next]_vars PROVE Requested'
  OBVIOUS
<1> USE OwnerAssumption, OfferAssumption, RecAssumption, BoundAssumption
    DEF Reached, Requested, TypeOK, orderVars, procVars, Pay, UpayStatus, UpayOrder, NoOrder, Stage, InTx, Proc, Day
<1>1. CASE NextDay
  BY <1>1 DEF NextDay
<1>2. ASSUME NEW o \in Order, NEW pay \in Pay, UpayPaid(o, pay) PROVE Requested'
  BY <1>2 DEF UpayPaid
<1>3. ASSUME NEW o \in Order, NEW st \in UpayStatus, UpayMoves(o, st) PROVE Requested'
  BY <1>3 DEF UpayMoves
<1>4. ASSUME NEW o \in Order, CheckReuse(o) PROVE Requested'
  BY <1>4 DEF CheckReuse, Fault
<1>5. ASSUME NEW o \in Order, InsertOrder(o) PROVE Requested'
  BY <1>5 DEF InsertOrder, CreateRow
<1>6. ASSUME NEW o \in Order, CallUpay(o) PROVE Requested'
  BY <1>6 DEF CallUpay, Fault, NewUpayOrder, CreateOrder
<1>7. ASSUME NEW o \in Order, AttachUpay(o) PROVE Requested'
  BY <1>7 DEF AttachUpay
<1>8. ASSUME NEW o \in Order, MarkFailed(o) PROVE Requested'
  BY <1>8 DEF MarkFailed
<1>9. ASSUME NEW o \in Order, RequestFails(o) PROVE Requested'
  BY <1>9 DEF RequestFails, Fault
<1>10. ASSUME NEW h \in Handler, NEW o \in Order, ReceivePaid(h, o) PROVE Requested'
  BY <1>10 DEF ReceivePaid, Start, InsertWebhookEvent
<1>11. CASE Tick
  BY <1>11 DEF Tick
<1>12. ASSUME NEW o \in Order, Poll(o) PROVE Requested'
  BY <1>12 DEF Poll, Start
<1>13. ASSUME NEW p \in Proc, GetOrder(p) PROVE Requested'
  BY <1>13 DEF GetOrder, Answers, Goto
<1>14. ASSUME NEW p \in Proc, ApplyWait(p) PROVE Requested'
  BY <1>14 DEF ApplyWait, Release
<1>15. ASSUME NEW p \in Proc, ApplyTerminal(p) PROVE Requested'
  BY <1>15 DEF ApplyTerminal, Release
<1>16. ASSUME NEW p \in Proc, AlreadyApplied(p) PROVE Requested'
  BY <1>16 DEF AlreadyApplied, Release
<1>17. ASSUME NEW p \in Proc, BeginActivation(p) PROVE Requested'
  BY <1>17 DEF BeginActivation, Goto
<1>18. ASSUME NEW p \in Proc, ReadSubscription(p) PROVE Requested'
  BY <1>18 DEF ReadSubscription, Goto
<1>19. ASSUME NEW p \in Proc, Commit(p) PROVE Requested'
  BY <1>19 DEF Commit, Release
<1>20. ASSUME NEW p \in Proc, Fail(p) PROVE Requested'
  BY <1>20 DEF Fail, Fault, Release
<1>21. CASE ApiError
  BY <1>21 DEF ApiError, Fault, Goto
<1>22. CASE ExpireOnError
  BY <1>22 DEF ExpireOnError, Release
<1>23. CASE Crash
  BY <1>23 DEF Crash, Fault
<1>24. CASE UNCHANGED vars
  BY <1>24 DEF vars
<1> QED
  BY <1>1, <1>2, <1>3, <1>4, <1>5, <1>6, <1>7, <1>8, <1>9, <1>10, <1>11, <1>12,
     <1>13, <1>14, <1>15, <1>16, <1>17, <1>18, <1>19, <1>20, <1>21, <1>22, <1>23, <1>24
  DEF Next, Request, Step, Reconcile, Environment

\* The two locks exclude: one open transaction per order, and one activation
\* between reading and writing a member's subscription.
LEMMA LockStep == TypeOK /\ RowExclusive /\ UserExclusive /\ [Next]_vars => (RowExclusive /\ UserExclusive)'
<1> SUFFICES ASSUME TypeOK, RowExclusive, UserExclusive, [Next]_vars PROVE (RowExclusive /\ UserExclusive)'
  OBVIOUS
<1> USE OwnerAssumption, OfferAssumption, RecAssumption, BoundAssumption
    DEF RowExclusive, UserExclusive, TypeOK, orderVars, procVars, Pay, UpayStatus, UpayOrder, NoOrder, Stage, InTx, Proc, Day
<1>1. CASE NextDay
  BY <1>1 DEF NextDay
<1>2. ASSUME NEW o \in Order, NEW pay \in Pay, UpayPaid(o, pay) PROVE (RowExclusive /\ UserExclusive)'
  BY <1>2 DEF UpayPaid
<1>3. ASSUME NEW o \in Order, NEW st \in UpayStatus, UpayMoves(o, st) PROVE (RowExclusive /\ UserExclusive)'
  BY <1>3 DEF UpayMoves
<1>4. ASSUME NEW o \in Order, CheckReuse(o) PROVE (RowExclusive /\ UserExclusive)'
  BY <1>4 DEF CheckReuse, Fault
<1>5. ASSUME NEW o \in Order, InsertOrder(o) PROVE (RowExclusive /\ UserExclusive)'
  BY <1>5 DEF InsertOrder, CreateRow
<1>6. ASSUME NEW o \in Order, CallUpay(o) PROVE (RowExclusive /\ UserExclusive)'
  BY <1>6 DEF CallUpay, Fault, CreateOrder
<1>7. ASSUME NEW o \in Order, AttachUpay(o) PROVE (RowExclusive /\ UserExclusive)'
  BY <1>7 DEF AttachUpay
<1>8. ASSUME NEW o \in Order, MarkFailed(o) PROVE (RowExclusive /\ UserExclusive)'
  BY <1>8 DEF MarkFailed
<1>9. ASSUME NEW o \in Order, RequestFails(o) PROVE (RowExclusive /\ UserExclusive)'
  BY <1>9 DEF RequestFails, Fault
<1>10. ASSUME NEW h \in Handler, NEW o \in Order, ReceivePaid(h, o) PROVE (RowExclusive /\ UserExclusive)'
  BY <1>10 DEF ReceivePaid, Start, InsertWebhookEvent
<1>11. CASE Tick
  BY <1>11 DEF Tick
<1>12. ASSUME NEW o \in Order, Poll(o) PROVE (RowExclusive /\ UserExclusive)'
  BY <1>12 DEF Poll, Start
<1>13. ASSUME NEW p \in Proc, GetOrder(p) PROVE (RowExclusive /\ UserExclusive)'
  BY <1>13 DEF GetOrder, Answers, Goto
<1>14. ASSUME NEW p \in Proc, ApplyWait(p) PROVE (RowExclusive /\ UserExclusive)'
  BY <1>14 DEF ApplyWait, Release
<1>15. ASSUME NEW p \in Proc, ApplyTerminal(p) PROVE (RowExclusive /\ UserExclusive)'
  BY <1>15 DEF ApplyTerminal, Release
<1>16. ASSUME NEW p \in Proc, AlreadyApplied(p) PROVE (RowExclusive /\ UserExclusive)'
  BY <1>16 DEF AlreadyApplied, Release
<1>17. ASSUME NEW p \in Proc, BeginActivation(p) PROVE (RowExclusive /\ UserExclusive)'
  BY <1>17 DEF BeginActivation, Goto, RowFree
<1>18. ASSUME NEW p \in Proc, ReadSubscription(p) PROVE (RowExclusive /\ UserExclusive)'
  BY <1>18 DEF ReadSubscription, Goto, UserFree
<1>19. ASSUME NEW p \in Proc, Commit(p) PROVE (RowExclusive /\ UserExclusive)'
  BY <1>19 DEF Commit, Release
<1>20. ASSUME NEW p \in Proc, Fail(p) PROVE (RowExclusive /\ UserExclusive)'
  BY <1>20 DEF Fail, Fault, Release
<1>21. CASE ApiError
  BY <1>21 DEF ApiError, Fault, Goto
<1>22. CASE ExpireOnError
  BY <1>22 DEF ExpireOnError, Release
<1>23. CASE Crash
  BY <1>23 DEF Crash, Fault
<1>24. CASE UNCHANGED vars
  BY <1>24 DEF vars
<1> QED
  BY <1>1, <1>2, <1>3, <1>4, <1>5, <1>6, <1>7, <1>8, <1>9, <1>10, <1>11, <1>12,
     <1>13, <1>14, <1>15, <1>16, <1>17, <1>18, <1>19, <1>20, <1>21, <1>22, <1>23, <1>24
  DEF Next, Request, Step, Reconcile, Environment

\* What a transaction read stays true until it commits.
LEMMA FreshStep == TypeOK /\ Reached /\ RowExclusive /\ UserExclusive /\ Fresh /\ [Next]_vars => Fresh'
<1> SUFFICES ASSUME TypeOK, Reached, RowExclusive, UserExclusive, Fresh, [Next]_vars PROVE Fresh'
  OBVIOUS
<1> USE OwnerAssumption, OfferAssumption, RecAssumption, BoundAssumption
    DEF Reached, RowExclusive, UserExclusive, Fresh, TypeOK, orderVars, procVars, Pay, UpayStatus, UpayOrder, NoOrder, Stage, InTx, Proc, Day
<1>1. CASE NextDay
  BY <1>1 DEF NextDay
<1>2. ASSUME NEW o \in Order, NEW pay \in Pay, UpayPaid(o, pay) PROVE Fresh'
  BY <1>2 DEF UpayPaid
<1>3. ASSUME NEW o \in Order, NEW st \in UpayStatus, UpayMoves(o, st) PROVE Fresh'
  BY <1>3 DEF UpayMoves
<1>4. ASSUME NEW o \in Order, CheckReuse(o) PROVE Fresh'
  BY <1>4 DEF CheckReuse, Fault
<1>5. ASSUME NEW o \in Order, InsertOrder(o) PROVE Fresh'
  BY <1>5 DEF InsertOrder, CreateRow
<1>6. ASSUME NEW o \in Order, CallUpay(o) PROVE Fresh'
  BY <1>6 DEF CallUpay, Fault, CreateOrder
<1>7. ASSUME NEW o \in Order, AttachUpay(o) PROVE Fresh'
  BY <1>7 DEF AttachUpay
<1>8. ASSUME NEW o \in Order, MarkFailed(o) PROVE Fresh'
  BY <1>8 DEF MarkFailed
<1>9. ASSUME NEW o \in Order, RequestFails(o) PROVE Fresh'
  BY <1>9 DEF RequestFails, Fault
<1>10. ASSUME NEW h \in Handler, NEW o \in Order, ReceivePaid(h, o) PROVE Fresh'
  BY <1>10 DEF ReceivePaid, Start, InsertWebhookEvent
<1>11. CASE Tick
  BY <1>11 DEF Tick
<1>12. ASSUME NEW o \in Order, Poll(o) PROVE Fresh'
  BY <1>12 DEF Poll, Start
<1>13. ASSUME NEW p \in Proc, GetOrder(p) PROVE Fresh'
  BY <1>13 DEF GetOrder, Answers, Goto
<1>14. ASSUME NEW p \in Proc, ApplyWait(p) PROVE Fresh'
  BY <1>14 DEF ApplyWait, Release
<1>15. ASSUME NEW p \in Proc, ApplyTerminal(p) PROVE Fresh'
  BY <1>15 DEF ApplyTerminal, Release
<1>16. ASSUME NEW p \in Proc, AlreadyApplied(p) PROVE Fresh'
  BY <1>16 DEF AlreadyApplied, Release
<1>17. ASSUME NEW p \in Proc, BeginActivation(p) PROVE Fresh'
  BY <1>17 DEF BeginActivation, Goto
<1>18. ASSUME NEW p \in Proc, ReadSubscription(p) PROVE Fresh'
  BY <1>18 DEF ReadSubscription, Goto
<1>19. ASSUME NEW p \in Proc, Commit(p) PROVE Fresh'
  BY <1>19 DEF Commit, Release, NewExpiry, Term
<1>20. ASSUME NEW p \in Proc, Fail(p) PROVE Fresh'
  BY <1>20 DEF Fail, Fault, Release
<1>21. CASE ApiError
  BY <1>21 DEF ApiError, Fault, Goto
<1>22. CASE ExpireOnError
  BY <1>22 DEF ExpireOnError, Release
<1>23. CASE Crash
  BY <1>23 DEF Crash, Fault
<1>24. CASE UNCHANGED vars
  BY <1>24 DEF vars
<1> QED
  BY <1>1, <1>2, <1>3, <1>4, <1>5, <1>6, <1>7, <1>8, <1>9, <1>10, <1>11, <1>12,
     <1>13, <1>14, <1>15, <1>16, <1>17, <1>18, <1>19, <1>20, <1>21, <1>22, <1>23, <1>24
  DEF Next, Request, Step, Reconcile, Environment

\* An activation always has the full amount behind it, and nothing undoes it.
LEMMA BackedStep == TypeOK /\ Reached /\ Requested /\ Fresh /\ Backed /\ [Next]_vars => Backed'
<1> SUFFICES ASSUME TypeOK, Reached, Requested, Fresh, Backed, [Next]_vars PROVE Backed'
  OBVIOUS
<1> USE OwnerAssumption, OfferAssumption, RecAssumption, BoundAssumption
    DEF Reached, Requested, Fresh, Backed, TypeOK, orderVars, procVars, Pay, UpayStatus, UpayOrder, NoOrder, Stage, InTx, Proc, Day
<1>1. CASE NextDay
  BY <1>1 DEF NextDay
<1>2. ASSUME NEW o \in Order, NEW pay \in Pay, UpayPaid(o, pay) PROVE Backed'
  BY <1>2 DEF UpayPaid
<1>3. ASSUME NEW o \in Order, NEW st \in UpayStatus, UpayMoves(o, st) PROVE Backed'
  BY <1>3 DEF UpayMoves
<1>4. ASSUME NEW o \in Order, CheckReuse(o) PROVE Backed'
  BY <1>4 DEF CheckReuse, Fault
<1>5. ASSUME NEW o \in Order, InsertOrder(o) PROVE Backed'
  BY <1>5 DEF InsertOrder, CreateRow
<1>6. ASSUME NEW o \in Order, CallUpay(o) PROVE Backed'
  <2>1. UNCHANGED <<orderVars, procVars>> /\ stage[o] = "calling" /\ o \notin attached
    BY <1>6 DEF CallUpay
  <2>2. upay[o].pay = "UNPAID"
    BY <2>1
  <2>3. UNCHANGED upay \/ upay' = [upay EXCEPT ![o] = NewUpayOrder]
    BY <1>6, CallCreates
  <2>4. \A x \in Order : /\ upay'[x].st = "COMPLETED" => upay'[x].pay = "PAID"
                         /\ upay[x].pay = "PAID" => upay'[x].pay = "PAID"
    BY <2>2, <2>3 DEF NewUpayOrder
  <2>5. /\ \A q \in Proc : pc[q] # "idle" => job[q] \in Order
        /\ applied \subseteq Order
    OBVIOUS
  <2> QED
    BY <2>1, <2>4, <2>5
<1>7. ASSUME NEW o \in Order, AttachUpay(o) PROVE Backed'
  BY <1>7 DEF AttachUpay
<1>8. ASSUME NEW o \in Order, MarkFailed(o) PROVE Backed'
  BY <1>8 DEF MarkFailed
<1>9. ASSUME NEW o \in Order, RequestFails(o) PROVE Backed'
  BY <1>9 DEF RequestFails, Fault
<1>10. ASSUME NEW h \in Handler, NEW o \in Order, ReceivePaid(h, o) PROVE Backed'
  BY <1>10 DEF ReceivePaid, Start, InsertWebhookEvent
<1>11. CASE Tick
  BY <1>11 DEF Tick
<1>12. ASSUME NEW o \in Order, Poll(o) PROVE Backed'
  BY <1>12 DEF Poll, Start
<1>13. ASSUME NEW p \in Proc, GetOrder(p) PROVE Backed'
  BY <1>13 DEF GetOrder, Answers, Goto
<1>14. ASSUME NEW p \in Proc, ApplyWait(p) PROVE Backed'
  BY <1>14 DEF ApplyWait, Release, Classify
<1>15. ASSUME NEW p \in Proc, ApplyTerminal(p) PROVE Backed'
  BY <1>15 DEF ApplyTerminal, Release
<1>16. ASSUME NEW p \in Proc, AlreadyApplied(p) PROVE Backed'
  BY <1>16 DEF AlreadyApplied, Release
<1>17. ASSUME NEW p \in Proc, BeginActivation(p) PROVE Backed'
  BY <1>17 DEF BeginActivation, Goto, Classify
<1>18. ASSUME NEW p \in Proc, ReadSubscription(p) PROVE Backed'
  BY <1>18 DEF ReadSubscription, Goto
<1>19. ASSUME NEW p \in Proc, Commit(p) PROVE Backed'
  BY <1>19 DEF Commit, Release
<1>20. ASSUME NEW p \in Proc, Fail(p) PROVE Backed'
  BY <1>20 DEF Fail, Fault, Release
<1>21. CASE ApiError
  BY <1>21 DEF ApiError, Fault, Goto
<1>22. CASE ExpireOnError
  BY <1>22 DEF ExpireOnError, Release
<1>23. CASE Crash
  BY <1>23 DEF Crash, Fault
<1>24. CASE UNCHANGED vars
  BY <1>24 DEF vars
<1> QED
  BY <1>1, <1>2, <1>3, <1>4, <1>5, <1>6, <1>7, <1>8, <1>9, <1>10, <1>11, <1>12,
     <1>13, <1>14, <1>15, <1>16, <1>17, <1>18, <1>19, <1>20, <1>21, <1>22, <1>23, <1>24
  DEF Next, Request, Step, Reconcile, Environment

\* A plan's term is a number of days.
LEMMA TermNat == Term \in [Order -> Nat]
BY OfferAssumption DEF Term

\* Only a commit touches what is activated, dated or granted.
LEMMA OnlyCommitActivates ==
  [Next]_vars => (\E p \in Proc : Commit(p)) \/ UNCHANGED <<applied, paidOn, expiry>>
<1> SUFFICES ASSUME [Next]_vars, \A p \in Proc : ~Commit(p)
             PROVE  UNCHANGED <<applied, paidOn, expiry>>
  OBVIOUS
<1> USE DEF orderVars
<1>1. CASE NextDay
  BY <1>1 DEF NextDay
<1>2. ASSUME NEW o \in Order, NEW pay \in Pay, UpayPaid(o, pay) PROVE UNCHANGED <<applied, paidOn, expiry>>
  BY <1>2 DEF UpayPaid
<1>3. ASSUME NEW o \in Order, NEW st \in UpayStatus, UpayMoves(o, st) PROVE UNCHANGED <<applied, paidOn, expiry>>
  BY <1>3 DEF UpayMoves
<1>4. ASSUME NEW o \in Order, CheckReuse(o) PROVE UNCHANGED <<applied, paidOn, expiry>>
  BY <1>4 DEF CheckReuse
<1>5. ASSUME NEW o \in Order, InsertOrder(o) PROVE UNCHANGED <<applied, paidOn, expiry>>
  BY <1>5 DEF InsertOrder, CreateRow
<1>6. ASSUME NEW o \in Order, CallUpay(o) PROVE UNCHANGED <<applied, paidOn, expiry>>
  BY <1>6 DEF CallUpay, CreateOrder
<1>7. ASSUME NEW o \in Order, AttachUpay(o) PROVE UNCHANGED <<applied, paidOn, expiry>>
  BY <1>7 DEF AttachUpay
<1>8. ASSUME NEW o \in Order, MarkFailed(o) PROVE UNCHANGED <<applied, paidOn, expiry>>
  BY <1>8 DEF MarkFailed
<1>9. ASSUME NEW o \in Order, RequestFails(o) PROVE UNCHANGED <<applied, paidOn, expiry>>
  BY <1>9 DEF RequestFails
<1>10. ASSUME NEW h \in Handler, NEW o \in Order, ReceivePaid(h, o) PROVE UNCHANGED <<applied, paidOn, expiry>>
  BY <1>10 DEF ReceivePaid, InsertWebhookEvent
<1>11. CASE Tick
  BY <1>11 DEF Tick
<1>12. ASSUME NEW o \in Order, Poll(o) PROVE UNCHANGED <<applied, paidOn, expiry>>
  BY <1>12 DEF Poll
<1>13. ASSUME NEW p \in Proc, GetOrder(p) PROVE UNCHANGED <<applied, paidOn, expiry>>
  BY <1>13 DEF GetOrder, Answers
<1>14. ASSUME NEW p \in Proc, ApplyWait(p) PROVE UNCHANGED <<applied, paidOn, expiry>>
  BY <1>14 DEF ApplyWait
<1>15. ASSUME NEW p \in Proc, ApplyTerminal(p) PROVE UNCHANGED <<applied, paidOn, expiry>>
  BY <1>15 DEF ApplyTerminal
<1>16. ASSUME NEW p \in Proc, AlreadyApplied(p) PROVE UNCHANGED <<applied, paidOn, expiry>>
  BY <1>16 DEF AlreadyApplied
<1>17. ASSUME NEW p \in Proc, BeginActivation(p) PROVE UNCHANGED <<applied, paidOn, expiry>>
  BY <1>17 DEF BeginActivation
<1>18. ASSUME NEW p \in Proc, ReadSubscription(p) PROVE UNCHANGED <<applied, paidOn, expiry>>
  BY <1>18 DEF ReadSubscription
<1>19. ASSUME NEW p \in Proc, Fail(p) PROVE UNCHANGED <<applied, paidOn, expiry>>
  BY <1>19 DEF Fail
<1>20. CASE ApiError
  BY <1>20 DEF ApiError
<1>21. CASE ExpireOnError
  BY <1>21 DEF ExpireOnError
<1>22. CASE Crash
  BY <1>22 DEF Crash
<1>23. CASE UNCHANGED vars
  BY <1>23 DEF vars
<1> QED
  BY <1>1, <1>2, <1>3, <1>4, <1>5, <1>6, <1>7, <1>8, <1>9, <1>10, <1>11, <1>12,
     <1>13, <1>14, <1>15, <1>16, <1>17, <1>18, <1>19, <1>20, <1>21, <1>22, <1>23
  DEF Next, Request, Step, Reconcile, Environment

\* A commit extends the member's subscription by the term of one more order.
LEMMA CommitExtends ==
  ASSUME TypeOK, Reached, Fresh, NEW p \in Proc, Commit(p)
  PROVE  LET o == job[p] IN
         /\ o \in Order \ applied /\ Owner[o] \in User /\ snap[p].at \in Day
         /\ applied' = applied \union {o}
         /\ paidOn' = [paidOn EXCEPT ![o] = snap[p].at]
         /\ expiry' = [expiry EXCEPT
              ![Owner[o]] = NewExpiry(expiry[Owner[o]], snap[p].at, Term[o])]
<1>1. pc[p] = "stacking" /\ job[p] \in Order \ applied /\ snap[p].at \in Day
  BY DEF Commit, TypeOK, Reached, Fresh, InTx
<1>2. cur[p] = expiry[Owner[job[p]]]
  BY <1>1 DEF Fresh
<1>3. Owner[job[p]] \in User
  BY <1>1, OwnerAssumption
<1> QED
  BY <1>1, <1>2, <1>3 DEF Commit

\* An extension never takes a day away and covers the new term.
LEMMA NewExpiryGrows ==
  ASSUME NEW c \in Nat, NEW at \in Nat, NEW d \in Nat
  PROVE  /\ NewExpiry(c, at, d) \in Nat
         /\ NewExpiry(c, at, d) >= c + d
         /\ NewExpiry(c, at, d) >= at + d
BY DEF NewExpiry

\* Terms never overlap, whatever the order of the activations.
LEMMA StackStep ==
  TypeOK /\ Reached /\ Fresh /\ Covered /\ TermsStack /\ [Next]_vars
    => (Covered /\ TermsStack)'
<1> SUFFICES ASSUME TypeOK, Reached, Fresh, Covered, TermsStack, [Next]_vars
             PROVE  (Covered /\ TermsStack)'
  OBVIOUS
<1>1. CASE UNCHANGED <<applied, paidOn, expiry>>
  BY <1>1 DEF Covered, TermsStack
<1>2. ASSUME NEW p \in Proc, Commit(p) PROVE (Covered /\ TermsStack)'
  <2> DEFINE o == job[p]
             u == Owner[o]
             at == snap[p].at
             new == NewExpiry(expiry[u], at, Term[o])
  <2>1. /\ o \in Order \ applied /\ u \in User /\ at \in Nat
        /\ applied' = applied \union {o}
        /\ paidOn' = [paidOn EXCEPT ![o] = at]
        /\ expiry' = [expiry EXCEPT ![u] = new]
    BY <1>2, CommitExtends DEF Day
  <2>2. /\ expiry \in [User -> Nat] /\ applied \subseteq Order
        /\ paidOn \in [Order -> Nat] /\ Term \in [Order -> Nat]
    BY TermNat, BoundAssumption DEF TypeOK
  <2>3. new \in Nat /\ new >= expiry[u] + Term[o] /\ new >= at + Term[o]
    BY <2>1, <2>2, NewExpiryGrows
  <2> HIDE DEF new, o, u, at
  <2>4. /\ paidOn'[o] = at
        /\ \A x \in applied : paidOn'[x] = paidOn[x]
        /\ expiry'[u] = new
        /\ \A v \in User : v # u => expiry'[v] = expiry[v]
    BY <2>1, <2>2
  <2>5. \A x \in applied : Owner[x] \in User
    BY <2>2, OwnerAssumption
  <2>6. \A x \in applied : Owner[x] = u => new >= paidOn[x] + Term[x] + Term[o]
    BY <2>1, <2>2, <2>3 DEF Covered
  <2>7. \A x \in applied : expiry'[Owner[x]] >= expiry[Owner[x]]
    BY <2>1, <2>2, <2>3, <2>4, <2>5
  <2>8. Covered'
    <3> SUFFICES ASSUME NEW x \in applied'
                 PROVE  expiry'[Owner[x]] >= paidOn'[x] + Term[x]
      BY DEF Covered
    <3>1. CASE x = o
      BY <3>1, <2>3, <2>4 DEF u
    <3>2. CASE x \in applied
      <4>1. expiry[Owner[x]] >= paidOn[x] + Term[x]
        BY <3>2 DEF Covered
      <4> QED
        BY <3>2, <4>1, <2>1, <2>2, <2>3, <2>4, <2>5, <2>7
    <3> QED
      BY <3>1, <3>2, <2>1
  <2>9. TermsStack'
    <3> SUFFICES ASSUME NEW x \in applied', NEW y \in applied',
                        x # y, Owner[x] = Owner[y]
                 PROVE  \/ expiry'[Owner[x]] >= paidOn'[x] + Term[x] + Term[y]
                        \/ expiry'[Owner[x]] >= paidOn'[y] + Term[x] + Term[y]
      BY DEF TermsStack
    <3>1. CASE x = o
      <4>1. y \in applied /\ Owner[y] = u
        BY <3>1, <2>1 DEF u
      <4>2. Term[x] \in Nat /\ Term[y] \in Nat /\ paidOn[y] \in Nat
        BY <4>1, <3>1, <2>1, <2>2
      <4> QED
        BY <3>1, <4>1, <4>2, <2>4, <2>6 DEF u
    <3>2. CASE y = o
      <4>1. x \in applied /\ Owner[x] = u
        BY <3>2, <2>1 DEF u
      <4>2. Term[x] \in Nat /\ Term[y] \in Nat /\ paidOn[x] \in Nat
        BY <4>1, <3>2, <2>1, <2>2
      <4> QED
        BY <3>2, <4>1, <4>2, <2>4, <2>6
    <3>3. CASE x \in applied /\ y \in applied
      <4>1. \/ expiry[Owner[x]] >= paidOn[x] + Term[x] + Term[y]
            \/ expiry[Owner[x]] >= paidOn[y] + Term[x] + Term[y]
        BY <3>3 DEF TermsStack
      <4>2. /\ Term[x] \in Nat /\ Term[y] \in Nat
            /\ paidOn[x] \in Nat /\ paidOn[y] \in Nat
            /\ expiry[Owner[x]] \in Nat /\ expiry'[Owner[x]] \in Nat
        BY <3>3, <2>1, <2>2, <2>3, <2>4, <2>5
      <4> QED
        BY <3>3, <4>1, <4>2, <2>4, <2>7
    <3> QED
      BY <3>1, <3>2, <3>3, <2>1
  <2> QED
    BY <2>8, <2>9
<1> QED
  BY <1>1, <1>2, OnlyCommitActivates

LEMMA InitIInv == Init => IInv
<1> SUFFICES ASSUME Init PROVE IInv
  OBVIOUS
<1> USE OwnerAssumption, OfferAssumption, BoundAssumption
    DEF Init, Proc, NoOrder
<1>1. TypeOK
  BY DEF TypeOK, Pay, UpayStatus, UpayOrder, Stage, InTx, Day
<1>2. Reached /\ Requested
  BY DEF Reached, Requested
<1>3. RowExclusive /\ UserExclusive /\ Fresh
  BY DEF RowExclusive, UserExclusive, Fresh, InTx
<1>4. Backed /\ Covered /\ TermsStack
  BY DEF Backed, Covered, TermsStack, InTx
<1> QED
  BY <1>1, <1>2, <1>3, <1>4 DEF IInv

LEMMA IInvStep == IInv /\ [Next]_vars => IInv'
BY TypeStep, RequestStep, LockStep, FreshStep, BackedStep, StackStep DEF IInv

\* The inductive invariant of the activation machinery.
THEOREM Invariance == Spec => []IInv
BY InitIInv, IInvStep, PTL DEF Spec

\* Type correctness, for any number of orders, users and webhook handlers.
THEOREM TypeCorrect == Spec => []TypeOK
<1>1. IInv => TypeOK
  BY DEF IInv
<1> QED
  BY <1>1, Invariance, PTL

\* The terms of one member's orders never overlap.
THEOREM TermsNeverOverlap == Spec => []TermsStack
<1>1. IInv => TermsStack
  BY DEF IInv
<1> QED
  BY <1>1, Invariance, PTL

\* Money only arrives for orders that can be found again.
THEOREM PaymentsAreTracked == Spec => []NoUntrackedPayment
<1>1. IInv => NoUntrackedPayment
  BY DEF IInv, Reached, Requested, NoUntrackedPayment
<1> QED
  BY <1>1, Invariance, PTL

\* No poll, error or late verdict touches an order that was activated.
THEOREM ActivationsAreFinal == Spec => ActivationIsFinal
<1>1. IInv /\ [Next]_vars => ActivationKept
  <2> SUFFICES ASSUME IInv, [Next]_vars PROVE ActivationKept
    OBVIOUS
  <2>1. applied \subseteq applied' /\ \A o \in applied : paidOn'[o] = paidOn[o]
    <3>1. CASE UNCHANGED <<applied, paidOn, expiry>>
      BY <3>1
    <3>2. ASSUME NEW p \in Proc, Commit(p)
          PROVE  applied \subseteq applied' /\ \A o \in applied : paidOn'[o] = paidOn[o]
      <4>1. /\ job[p] \notin applied
            /\ applied' = applied \union {job[p]}
            /\ paidOn' = [paidOn EXCEPT ![job[p]] = snap[p].at]
        BY <3>2, CommitExtends DEF IInv
      <4>2. paidOn \in [Order -> 0 .. LastDay] /\ applied \subseteq Order
        BY DEF IInv, TypeOK
      <4> QED
        BY <4>1, <4>2
    <3> QED
      BY <3>1, <3>2, OnlyCommitActivates
  <2>2. \A o \in applied' : status'[o] = "PAID" /\ received'[o] = "PAID"
    BY IInvStep DEF IInv, Backed
  <2> QED
    BY <2>1, <2>2 DEF ActivationKept
<1> QED
  BY <1>1, Invariance, PTL DEF Spec, ActivationIsFinal

\* An order that was written off is only revived by a full payment, and never
\* when its request at UPay had failed.
THEOREM WrittenOff == Spec => WrittenOffStaysOff
<1>1. IInv /\ [Next]_vars => LatePaymentOnly
  <2> SUFFICES ASSUME IInv, [Next]_vars PROVE LatePaymentOnly
    OBVIOUS
  <2> USE DEF LatePaymentOnly, orderVars
  <2>1. CASE NextDay
    BY <2>1 DEF NextDay
  <2>2. ASSUME NEW o \in Order, NEW pay \in Pay, UpayPaid(o, pay) PROVE LatePaymentOnly
    BY <2>2 DEF UpayPaid
  <2>3. ASSUME NEW o \in Order, NEW st \in UpayStatus, UpayMoves(o, st) PROVE LatePaymentOnly
    BY <2>3 DEF UpayMoves
  <2>4. ASSUME NEW o \in Order, CheckReuse(o) PROVE LatePaymentOnly
    BY <2>4 DEF CheckReuse
  <2>5. ASSUME NEW o \in Order, InsertOrder(o) PROVE LatePaymentOnly
    BY <2>5 DEF InsertOrder, IInv, Requested, TypeOK, CreateRow
  <2>6. ASSUME NEW o \in Order, CallUpay(o) PROVE LatePaymentOnly
    BY <2>6 DEF CallUpay, CreateOrder
  <2>7. ASSUME NEW o \in Order, AttachUpay(o) PROVE LatePaymentOnly
    BY <2>7 DEF AttachUpay
  <2>8. ASSUME NEW o \in Order, MarkFailed(o) PROVE LatePaymentOnly
    BY <2>8 DEF MarkFailed, IInv, TypeOK
  <2>9. ASSUME NEW o \in Order, RequestFails(o) PROVE LatePaymentOnly
    BY <2>9 DEF RequestFails
  <2>10. ASSUME NEW h \in Handler, NEW o \in Order, ReceivePaid(h, o) PROVE LatePaymentOnly
    BY <2>10 DEF ReceivePaid, InsertWebhookEvent
  <2>11. CASE Tick
    BY <2>11 DEF Tick
  <2>12. ASSUME NEW o \in Order, Poll(o) PROVE LatePaymentOnly
    BY <2>12 DEF Poll
  <2>13. ASSUME NEW p \in Proc, GetOrder(p) PROVE LatePaymentOnly
    BY <2>13 DEF GetOrder, Answers
  <2>14. ASSUME NEW p \in Proc, ApplyWait(p) PROVE LatePaymentOnly
    BY <2>14 DEF ApplyWait
  <2>15. ASSUME NEW p \in Proc, ApplyTerminal(p) PROVE LatePaymentOnly
    BY <2>15 DEF ApplyTerminal, IInv, TypeOK
  <2>16. ASSUME NEW p \in Proc, AlreadyApplied(p) PROVE LatePaymentOnly
    BY <2>16 DEF AlreadyApplied
  <2>17. ASSUME NEW p \in Proc, BeginActivation(p) PROVE LatePaymentOnly
    BY <2>17 DEF BeginActivation
  <2>18. ASSUME NEW p \in Proc, ReadSubscription(p) PROVE LatePaymentOnly
    BY <2>18 DEF ReadSubscription
  <2>19. ASSUME NEW p \in Proc, Commit(p) PROVE LatePaymentOnly
    <3>1. job[p] \in attached /\ upay[job[p]].pay = "PAID"
      BY <2>19 DEF Commit, IInv, Reached, Backed, InTx
    <3>2. status[job[p]] # "FAILED"
      BY <3>1 DEF IInv, Requested, TypeOK
    <3>3. status' = [status EXCEPT ![job[p]] = "PAID"]
      BY <2>19 DEF Commit
    <3> QED
      BY <3>1, <3>2, <3>3 DEF IInv, TypeOK
  <2>20. ASSUME NEW p \in Proc, Fail(p) PROVE LatePaymentOnly
    BY <2>20 DEF Fail
  <2>21. CASE ApiError
    BY <2>21 DEF ApiError
  <2>22. CASE ExpireOnError
    BY <2>22 DEF ExpireOnError, IInv, TypeOK
  <2>23. CASE Crash
    BY <2>23 DEF Crash
  <2>24. CASE UNCHANGED vars
    BY <2>24 DEF vars
  <2> QED
    BY <2>1, <2>2, <2>3, <2>4, <2>5, <2>6, <2>7, <2>8, <2>9, <2>10, <2>11, <2>12,
       <2>13, <2>14, <2>15, <2>16, <2>17, <2>18, <2>19, <2>20, <2>21, <2>22, <2>23, <2>24
    DEF Next, Request, Step, Reconcile, Environment
<1> QED
  BY <1>1, Invariance, PTL DEF Spec, WrittenOffStaysOff

-------------------------------------------------------------------------------
\* One more order grants its own term on top.
LEMMA TermIsAdded ==
  ASSUME NEW S \in SUBSET Order, NEW o \in Order \ S, IsFiniteSet(Granted(S))
  PROVE  /\ IsFiniteSet(Granted(S \union {o}))
         /\ TotalTerm(S \union {o}) = TotalTerm(S) + Term[o]
<1> DEFINE n == Term[o]
           own == {o} \X (1 .. n)
           f == [i \in 1 .. n |-> <<o, i>>]
<1>1. n \in Nat
  BY TermNat
<1>2. IsFiniteSet(1 .. n) /\ Cardinality(1 .. n) = n
  BY <1>1, FS_Interval
<1>3. f \in Bijection(1 .. n, own)
  <2>1. f \in [1 .. n -> own]
    OBVIOUS
  <2>2. \A i, j \in 1 .. n : f[i] = f[j] => i = j
    OBVIOUS
  <2>3. \A t \in own : \E i \in 1 .. n : f[i] = t
    OBVIOUS
  <2> QED
    BY <2>1, <2>2, <2>3 DEF Bijection, Injection, IsInjective, Surjection
<1>4. IsFiniteSet(own) /\ Cardinality(own) = n
  <2>1. ExistsBijection(1 .. n, own)
    BY <1>3 DEF ExistsBijection
  <2> QED
    BY <2>1, <1>2, FS_Bijection
<1>5. Granted(S \union {o}) = Granted(S) \union own
  BY DEF Granted
<1>6. Granted(S) \intersect own = {}
  BY DEF Granted
<1>7. Cardinality(Granted(S)) \in Nat
  BY FS_CardinalityType
<1> HIDE DEF own, n
<1>8. /\ IsFiniteSet(Granted(S) \union own)
      /\ Cardinality(Granted(S) \union own)
           = Cardinality(Granted(S)) + n - Cardinality(Granted(S) \intersect own)
  BY <1>4, FS_Union
<1>9. Cardinality(Granted(S) \intersect own) = 0
  BY <1>6, FS_EmptySet
<1>10. IsFiniteSet(Granted(S \union {o}))
  BY <1>5, <1>8
<1>11. Cardinality(Granted(S \union {o})) = Cardinality(Granted(S)) + n
  <2>1. Cardinality(Granted(S) \union own) = Cardinality(Granted(S)) + n
    BY <1>1, <1>7, <1>8, <1>9
  <2> QED
    BY <2>1, <1>5
<1> QED
  BY <1>10, <1>11 DEF TotalTerm, n

\* NoInventedDays as an induction hypothesis: what a member was granted can be
\* counted.
Counted ==
  /\ \A u \in User : IsFiniteSet(Granted(Mine(u)))
  /\ NoInventedDays

\* A commit takes no more days than its order grants: it adds the term to a
\* subscription that was accounted for, or starts anew from its own payment.
LEMMA CountedStep ==
  ASSUME TypeOK, Reached, Fresh, Counted, [Next]_vars
  PROVE  Counted'
<1>1. CASE UNCHANGED <<applied, paidOn, expiry>>
  <2>1. \A u : Mine(u)' = Mine(u)
    BY <1>1 DEF Mine
  <2> QED
    BY <1>1, <2>1 DEF Counted, NoInventedDays, TotalTerm, Granted
<1>2. ASSUME NEW p \in Proc, Commit(p) PROVE Counted'
  <2>1. PICK o \in Order \ applied, u \in User, at \in Nat :
          /\ u = Owner[o]
          /\ applied' = applied \union {o}
          /\ paidOn' = [paidOn EXCEPT ![o] = at]
          /\ expiry' = [expiry EXCEPT ![u] = NewExpiry(expiry[u], at, Term[o])]
    BY <1>2, CommitExtends DEF Day
  <2> DEFINE until == NewExpiry(expiry[u], at, Term[o])
  <2>2. /\ expiry \in [User -> Nat] /\ applied \subseteq Order
        /\ paidOn \in [Order -> Nat] /\ Term \in [Order -> Nat]
    BY TermNat, BoundAssumption DEF TypeOK
  <2>3. \/ expiry[u] > 0 /\ until = expiry[u] + Term[o]
        \/ until = at + Term[o]
    BY <2>1, <2>2 DEF NewExpiry
  <2>4. Mine(u)' = Mine(u) \union {o}
    BY <2>1 DEF Mine
  <2>5. \A v \in User \ {u} : Mine(v)' = Mine(v)
    BY <2>1 DEF Mine
  <2>6. Mine(u) \in SUBSET Order /\ o \notin Mine(u) /\ IsFiniteSet(Granted(Mine(u)))
    BY <2>1, <2>2 DEF Mine, Counted
  <2>7. /\ IsFiniteSet(Granted(Mine(u)'))
        /\ TotalTerm(Mine(u)') = TotalTerm(Mine(u)) + Term[o]
    BY <2>1, <2>4, <2>6, TermIsAdded
  <2>8. TotalTerm(Mine(u)) \in Nat
    BY <2>6, FS_CardinalityType DEF TotalTerm
  <2>9. /\ paidOn'[o] = at /\ expiry'[u] = until
        /\ \A x \in applied : paidOn'[x] = paidOn[x]
        /\ \A v \in User \ {u} : expiry'[v] = expiry[v]
    BY <2>1, <2>2
  <2> HIDE DEF until
  <2>10. until > 0 => \E w \in Mine(u)' : until <= paidOn'[w] + TotalTerm(Mine(u)')
    <3>1. CASE expiry[u] > 0 /\ until = expiry[u] + Term[o]
      <4>1. PICK w \in Mine(u) : expiry[u] <= paidOn[w] + TotalTerm(Mine(u))
        BY <3>1, <2>1 DEF Counted, NoInventedDays
      <4>2. w \in Order /\ paidOn[w] \in Nat /\ paidOn'[w] = paidOn[w] /\ w \in Mine(u)'
        BY <4>1, <2>2, <2>4, <2>9 DEF Mine
      <4>3. Term[o] \in Nat /\ expiry[u] \in Nat
        BY <2>1, <2>2
      <4>4. until <= paidOn'[w] + TotalTerm(Mine(u)')
        BY <3>1, <4>1, <4>2, <4>3, <2>7, <2>8
      <4> QED
        BY <4>2, <4>4
    <3>2. CASE until = at + Term[o]
      <4>1. o \in Mine(u)' /\ Term[o] \in Nat
        BY <2>1, <2>2, <2>4
      <4> QED
        BY <3>2, <4>1, <2>1, <2>7, <2>8, <2>9
    <3> QED
      BY <3>1, <3>2, <2>3
  <2>11. ASSUME NEW v \in User
         PROVE  /\ IsFiniteSet(Granted(Mine(v)'))
                /\ expiry'[v] > 0 =>
                     \E w \in Mine(v)' : expiry'[v] <= paidOn'[w] + TotalTerm(Mine(v)')
    <3>1. CASE v = u
      BY <3>1, <2>7, <2>9, <2>10
    <3>2. CASE v # u
      <4>1. Mine(v)' = Mine(v) /\ expiry'[v] = expiry[v]
        BY <3>2, <2>5, <2>9
      <4>2. \A w \in Mine(v) : paidOn'[w] = paidOn[w]
        BY <2>9 DEF Mine
      <4> QED
        BY <4>1, <4>2 DEF Counted, NoInventedDays
    <3> QED
      BY <3>1, <3>2
  <2>12. \A v \in User : IsFiniteSet(Granted(Mine(v)))'
    BY <2>11 DEF Granted
  <2>13. NoInventedDays'
    BY <2>11 DEF NoInventedDays, TotalTerm, Granted
  <2> QED
    BY <2>12, <2>13 DEF Counted
<1> QED
  BY <1>1, <1>2, OnlyCommitActivates

\* A subscription reaches no further than its payments and the days granted
\* for them.
THEOREM DaysAreGranted == Spec => []NoInventedDays
<1>1. Init => Counted
  <2> SUFFICES ASSUME Init PROVE Counted
    OBVIOUS
  <2>1. \A u \in User : Granted(Mine(u)) = {}
    BY DEF Init, Mine, Granted
  <2> QED
    BY <2>1, FS_EmptySet DEF Init, Counted, NoInventedDays
<1>2. IInv /\ Counted /\ [Next]_vars => Counted'
  BY CountedStep DEF IInv
<1>3. Counted => NoInventedDays
  BY DEF Counted
<1> QED
  BY <1>1, <1>2, <1>3, Invariance, PTL DEF Spec
-------------------------------------------------------------------------------

FullyPaid == {o \in Order : upay[o].pay = "PAID"}

\* Money moves in UPay's own steps only, one order at a time.
LEMMA PaidGrows ==
  ASSUME TypeOK, Reached, Requested, [Next]_vars
  PROVE  \/ FullyPaid' = FullyPaid
         \/ \E o \in Order : /\ FullyPaid' = FullyPaid \union {o}
                             /\ UNCHANGED <<applied, expiry>>
<1>1. ASSUME NEW o \in Order, NEW pay \in Pay, UpayPaid(o, pay)
      PROVE  \/ FullyPaid' = FullyPaid
             \/ FullyPaid' = FullyPaid \union {o} /\ UNCHANGED <<applied, expiry>>
  <2>1. /\ upay'[o].pay = pay /\ upay[o].pay # "PAID"
        /\ \A x \in Order \ {o} : upay'[x] = upay[x]
        /\ UNCHANGED <<applied, expiry>>
    BY <1>1 DEF UpayPaid, TypeOK, orderVars
  <2>2. CASE pay = "PAID"
    BY <2>1, <2>2 DEF FullyPaid
  <2>3. CASE pay # "PAID"
    BY <2>1, <2>3 DEF FullyPaid
  <2> QED
    BY <2>2, <2>3
<1>2. ASSUME NEW o \in Order, NEW st \in UpayStatus, UpayMoves(o, st)
      PROVE  FullyPaid' = FullyPaid
  <2>1. \A x \in Order : upay'[x].pay = upay[x].pay
    BY <1>2 DEF UpayMoves, TypeOK
  <2> QED
    BY <2>1 DEF FullyPaid
<1>3. ASSUME NEW o \in Order, CallUpay(o) PROVE FullyPaid' = FullyPaid
  <2>1. upay[o].pay # "PAID"
    BY <1>3 DEF CallUpay, Reached, Requested, CreateOrder
  <2>2. \A x \in Order : upay'[x].pay = "PAID" <=> upay[x].pay = "PAID"
    BY <1>3, <2>1 DEF CallUpay, NewUpayOrder, TypeOK, CreateOrder
  <2> QED
    BY <2>2 DEF FullyPaid
<1>4. ASSUME UNCHANGED upay PROVE FullyPaid' = FullyPaid
  BY <1>4 DEF FullyPaid
<1>5. CASE NextDay
  BY <1>4, <1>5 DEF NextDay
<1>6. ASSUME NEW o \in Order, CheckReuse(o) PROVE FullyPaid' = FullyPaid
  BY <1>4, <1>6 DEF CheckReuse
<1>7. ASSUME NEW o \in Order, InsertOrder(o) PROVE FullyPaid' = FullyPaid
  BY <1>4, <1>7 DEF InsertOrder, CreateRow
<1>8. ASSUME NEW o \in Order, AttachUpay(o) PROVE FullyPaid' = FullyPaid
  BY <1>4, <1>8 DEF AttachUpay
<1>9. ASSUME NEW o \in Order, MarkFailed(o) PROVE FullyPaid' = FullyPaid
  BY <1>4, <1>9 DEF MarkFailed
<1>10. ASSUME NEW o \in Order, RequestFails(o) PROVE FullyPaid' = FullyPaid
  BY <1>4, <1>10 DEF RequestFails
<1>11. ASSUME NEW h \in Handler, NEW o \in Order, ReceivePaid(h, o) PROVE FullyPaid' = FullyPaid
  BY <1>4, <1>11 DEF ReceivePaid, InsertWebhookEvent
<1>12. CASE Tick
  BY <1>4, <1>12 DEF Tick
<1>13. ASSUME NEW o \in Order, Poll(o) PROVE FullyPaid' = FullyPaid
  BY <1>4, <1>13 DEF Poll
<1>14. ASSUME NEW p \in Proc, GetOrder(p) PROVE FullyPaid' = FullyPaid
  BY <1>4, <1>14 DEF GetOrder, Answers
<1>15. ASSUME NEW p \in Proc, ApplyWait(p) PROVE FullyPaid' = FullyPaid
  BY <1>4, <1>15 DEF ApplyWait
<1>16. ASSUME NEW p \in Proc, ApplyTerminal(p) PROVE FullyPaid' = FullyPaid
  BY <1>4, <1>16 DEF ApplyTerminal
<1>17. ASSUME NEW p \in Proc, AlreadyApplied(p) PROVE FullyPaid' = FullyPaid
  BY <1>4, <1>17 DEF AlreadyApplied
<1>18. ASSUME NEW p \in Proc, BeginActivation(p) PROVE FullyPaid' = FullyPaid
  BY <1>4, <1>18 DEF BeginActivation
<1>19. ASSUME NEW p \in Proc, ReadSubscription(p) PROVE FullyPaid' = FullyPaid
  BY <1>4, <1>19 DEF ReadSubscription
<1>20. ASSUME NEW p \in Proc, Commit(p) PROVE FullyPaid' = FullyPaid
  BY <1>4, <1>20 DEF Commit
<1>21. ASSUME NEW p \in Proc, Fail(p) PROVE FullyPaid' = FullyPaid
  BY <1>4, <1>21 DEF Fail
<1>22. CASE ApiError
  BY <1>4, <1>22 DEF ApiError
<1>23. CASE ExpireOnError
  BY <1>4, <1>23 DEF ExpireOnError
<1>24. CASE Crash
  BY <1>4, <1>24 DEF Crash
<1>25. CASE UNCHANGED vars
  BY <1>4, <1>25 DEF vars
<1> QED
  BY <1>1, <1>2, <1>3, <1>5, <1>6, <1>7, <1>8, <1>9, <1>10, <1>11, <1>12, <1>13,
     <1>14, <1>15, <1>16, <1>17, <1>18, <1>19, <1>20, <1>21, <1>22, <1>23, <1>24, <1>25
  DEF Next, Request, Step, Reconcile, Environment

\* Every order is credited at most once, only against full payment, on top of
\* the subscription as it stands: the machinery implements Membership.
THEOREM Refinement == Spec => ImplementsMembership
<1>1. Init => M!Init
  BY DEF Init, M!Init, NoOrder
<1>2. IInv /\ [Next]_vars => [M!Next]_M!vars
  <2> SUFFICES ASSUME IInv, [Next]_vars PROVE [M!Next]_M!vars
    OBVIOUS
  <2>1. ASSUME NEW p \in Proc, Commit(p) PROVE M!Next
    <3> DEFINE o == job[p]
    <3>1. /\ o \in Order \ applied /\ snap[p].at \in Day
          /\ applied' = applied \union {o}
          /\ expiry' = [expiry EXCEPT
               ![Owner[o]] = NewExpiry(expiry[Owner[o]], snap[p].at, Term[o])]
      BY <2>1, CommitExtends DEF IInv
    <3>2. o \in FullyPaid /\ FullyPaid' = FullyPaid
      BY <2>1, <3>1 DEF Commit, IInv, Backed, InTx, FullyPaid
    <3>3. M!Credit(o, snap[p].at)
      BY <3>1, <3>2 DEF M!Credit, M!Extended, NewExpiry, FullyPaid
    <3> QED
      BY <3>1, <3>3 DEF M!Next
  <2>2. CASE UNCHANGED <<applied, paidOn, expiry>>
    <3>1. CASE FullyPaid' = FullyPaid
      BY <2>2, <3>1 DEF M!vars, FullyPaid
    <3>2. CASE \E o \in Order : FullyPaid' = FullyPaid \union {o}
      BY <2>2, <3>2 DEF M!Next, M!Pay, FullyPaid
    <3> QED
      BY <3>1, <3>2, PaidGrows DEF IInv
  <2> QED
    BY <2>1, <2>2, OnlyCommitActivates
<1> QED
  BY <1>1, <1>2, Invariance, PTL DEF Spec, ImplementsMembership, M!Spec
-------------------------------------------------------------------------------
\* The rows that say PAID are those that were activated.
PaidIffApplied == \A o \in Order : status[o] = "PAID" <=> o \in applied

LEMMA OnlyCommitPays ==
  ASSUME TypeOK, [Next]_vars
  PROVE  \/ \E p \in Proc : Commit(p)
         \/ \A o \in Order : status'[o] = "PAID" => status[o] = "PAID"
<1> DEFINE NonePaid == \A o \in Order : status'[o] = "PAID" => status[o] = "PAID"
<1>1. UNCHANGED status => NonePaid
  OBVIOUS
<1>2. ASSUME NEW o \in Order, InsertOrder(o) PROVE NonePaid
  BY <1>2 DEF InsertOrder, CreateRow, TypeOK
<1>3. ASSUME NEW o \in Order, MarkFailed(o) PROVE NonePaid
  BY <1>3 DEF MarkFailed, TypeOK
<1>4. ASSUME NEW p \in Proc, ApplyTerminal(p) PROVE NonePaid
  BY <1>4 DEF ApplyTerminal, TypeOK
<1>5. ExpireOnError => NonePaid
  BY DEF ExpireOnError, TypeOK
<1> HIDE DEF NonePaid
<1> QED
  BY <1>1, <1>2, <1>3, <1>4, <1>5
  DEF NonePaid, Next, Request, Step, Reconcile, Environment, orderVars, vars,
      NextDay, UpayPaid, UpayMoves, CheckReuse, CallUpay, AttachUpay, RequestFails,
      ReceivePaid, Tick, Poll, GetOrder, ApplyWait, AlreadyApplied, BeginActivation,
      ReadSubscription, Fail, ApiError, Crash

\* Refunds may take the activation of an order for one step, taken once, after
\* which its row says PAID for as long as no refund is settled.
THEOREM ActivationsAsAssumed == Spec => ImplementsActivations
<1>1. Init => PaidIffApplied /\ Activations!Init
  BY DEF Init, PaidIffApplied, Activations!Init, Activations!Idle,
         Activations!Place, Activations!Proc
<1>2. ASSUME IInv, PaidIffApplied, [Next]_vars
      PROVE  PaidIffApplied' /\ [Activations!Next]_(Activations!vars)
  <2>1. \A o \in Order : o \in applied' => status'[o] = "PAID"
    BY <1>2, IInvStep DEF IInv, Backed
  <2>2. ASSUME NEW p \in Proc, Commit(p)
        PROVE  /\ job[p] \in Order \ applied /\ applied' = applied \union {job[p]}
               /\ status' = [status EXCEPT ![job[p]] = "PAID"]
    BY <1>2, <2>2, CommitExtends DEF IInv, Commit
  <2>3. ASSUME NEW o \in Order, status'[o] = "PAID" PROVE o \in applied'
    <3>1. CASE status[o] = "PAID"
      BY <1>2, <2>2, <3>1, OnlyCommitActivates DEF PaidIffApplied
    <3>2. CASE \E p \in Proc : Commit(p)
      BY <1>2, <2>2, <2>3, <3>2 DEF PaidIffApplied, IInv, TypeOK
    <3> QED
      BY <1>2, <2>3, <3>1, <3>2, OnlyCommitPays DEF IInv
  <2>4. PaidIffApplied'
    BY <2>1, <2>3 DEF PaidIffApplied
  <2>5. CASE applied' = applied
    BY <1>2, <2>4, <2>5
    DEF PaidIffApplied, Activations!vars, Activations!orderVars, Activations!refundVars
  <2>6. ASSUME NEW p \in Proc, Commit(p) PROVE Activations!Next
    <3>1. PICK o \in Order \ applied : /\ applied' = applied \union {o}
                                      /\ status' = [status EXCEPT ![o] = "PAID"]
      BY <2>2, <2>6
    <3>2. \A x \in Order : status'[x] = IF x = o THEN "PAID" ELSE status[x]
      BY <1>2, <3>1 DEF IInv, TypeOK
    <3>3. [x \in Order |-> IF status'[x] = "PAID" THEN "PAID" ELSE "UNPAID"]
            = [[x \in Order |-> IF status[x] = "PAID" THEN "PAID" ELSE "UNPAID"]
                 EXCEPT ![o] = "PAID"]
      BY <3>2
    <3>4. Activations!Activate(o)
      BY <3>1, <3>3 DEF Activations!Activate, Activations!refundVars
    <3> QED
      BY <3>4 DEF Activations!Next
  <2> QED
    BY <1>2, <2>4, <2>5, <2>6, OnlyCommitActivates
<1> QED
  BY <1>1, <1>2, Invariance, PTL DEF Spec, ImplementsActivations, Activations!Spec
===============================================================================
