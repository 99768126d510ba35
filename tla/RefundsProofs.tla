----------------------------- MODULE RefundsProofs -----------------------------
(***************************************************************************)
(* Proofs about Refunds, for any orders, refunds, number of requests at    *)
(* once and failures.                                                      *)
(***************************************************************************)
EXTENDS Refunds, FiniteSetTheorems, TLAPS

(* A refund is drawn for a paid order, then opened at UPay, then stored.   *)
Staged ==
  /\ \A o \in Order : status[o] = "UNPAID" <=> o \notin applied
  /\ \A r \in Refund :
       /\ of[r] # None => of[r] \in applied
       /\ upay[r] # "NONE" => of[r] # None
       /\ row[r] # "NONE" => upay[r] # "NONE"
       /\ r \in settled => row[r] # "NONE"
  /\ \A r \in todo : row[r] # "NONE"

(* What a goroutine is at, and what it was told, agree with UPay.          *)
Informed ==
  \A p \in Proc :
    LET r == proc[p].r  st == proc[p].st IN
      /\ proc[p].pc # "idle" => r \in Refund
      /\ proc[p].pc = "create" =>
           of[r] # None /\ upay[r] = "NONE" /\ row[r] = "NONE"
      /\ proc[p].pc = "insert" =>
           /\ upay[r] # "NONE" /\ row[r] = "NONE" /\ st # "NONE"
           /\ st \in Final => upay[r] = st
      /\ proc[p].pc \in {"fetch", "confirm", "fail"} => row[r] # "NONE"
      /\ proc[p].pc = "confirm" => upay[r] = "CONFIRMED"
      /\ proc[p].pc = "fail" => upay[r] = "FAILED"

(* A refund is created by one request only.                                *)
OneCreator ==
  \A p, q \in Proc :
    /\ p # q
    /\ proc[p].pc \in {"create", "insert"} /\ proc[q].pc \in {"create", "insert"}
    => proc[p].r # proc[q].r

IInv ==
  /\ TypeOK /\ Staged /\ Informed /\ OneCreator
  /\ OutcomeIsTrue /\ RefundedIffSettled

-------------------------------------------------------------------------------
\* Every step keeps the variables' types.
LEMMA TypeStep == TypeOK /\ Informed /\ [Next]_vars => (TypeOK)'
<1> SUFFICES ASSUME TypeOK, Informed, [Next]_vars PROVE (TypeOK)'
  OBVIOUS
<1> USE NoneAssumption, FaultAssumption DEF TypeOK, Informed, Label, RefundStatus, Final, Place, Idle, Goto, Finish, Fault, Proc, orderVars, refundVars
<1>1. ASSUME NEW o \in Order, Activate(o) PROVE (TypeOK)'
  BY <1>1 DEF Activate
<1>2. ASSUME NEW r \in Refund, UpaySettles(r) PROVE (TypeOK)'
  BY <1>2 DEF UpaySettles
<1>3. ASSUME NEW c \in Client, RequestRefund(c) PROVE (TypeOK)'
  BY <1>3 DEF RequestRefund
<1>4. ASSUME NEW c \in Client, RequestSync(c) PROVE (TypeOK)'
  BY <1>4 DEF RequestSync, Stored, Final
<1>5. ASSUME NEW p \in Proc, CallUpay(p) PROVE (TypeOK)'
  BY <1>5 DEF CallUpay
<1>6. ASSUME NEW p \in Proc, InsertRefund(p) PROVE (TypeOK)'
  BY <1>6 DEF InsertRefund
<1>7. ASSUME NEW p \in Proc, FetchRefund(p) PROVE (TypeOK)'
  BY <1>7 DEF FetchRefund, Outcome
<1>8. ASSUME NEW p \in Proc, ConfirmRefund(p) PROVE (TypeOK)'
  BY <1>8 DEF ConfirmRefund
<1>9. ASSUME NEW p \in Proc, MarkRefundFailed(p) PROVE (TypeOK)'
  BY <1>9 DEF MarkRefundFailed
<1>10. ASSUME NEW p \in Proc, Fail(p) PROVE (TypeOK)'
  BY <1>10 DEF Fail
<1>11. CASE Tick
  BY <1>11 DEF Tick, PendingRefunds
<1>12. ASSUME NEW r \in Refund, Poll(r) PROVE (TypeOK)'
  BY <1>12 DEF Poll
<1>13. CASE Crash
  BY <1>13 DEF Crash
<1>14. CASE UNCHANGED vars
  BY <1>14 DEF vars
<1> QED
  BY <1>1, <1>2, <1>3, <1>4, <1>5, <1>6, <1>7, <1>8, <1>9,
     <1>10, <1>11, <1>12, <1>13, <1>14
  DEF Next, Step, Reconcile

\* A refund's stages are reached in their order.
LEMMA StagedStep == TypeOK /\ Staged /\ Informed /\ [Next]_vars => (Staged)'
<1> SUFFICES ASSUME TypeOK, Staged, Informed, [Next]_vars PROVE (Staged)'
  OBVIOUS
<1> USE NoneAssumption DEF TypeOK, Staged, Informed, Label, RefundStatus, Final, Place, Idle, Goto, Finish, Proc, orderVars, refundVars
<1>1. ASSUME NEW o \in Order, Activate(o) PROVE (Staged)'
  BY <1>1 DEF Activate
<1>2. ASSUME NEW r \in Refund, UpaySettles(r) PROVE (Staged)'
  BY <1>2 DEF UpaySettles
<1>3. ASSUME NEW c \in Client, RequestRefund(c) PROVE (Staged)'
  BY <1>3 DEF RequestRefund
<1>4. ASSUME NEW c \in Client, RequestSync(c) PROVE (Staged)'
  BY <1>4 DEF RequestSync, Stored, Final
<1>5. ASSUME NEW p \in Proc, CallUpay(p) PROVE (Staged)'
  BY <1>5 DEF CallUpay
<1>6. ASSUME NEW p \in Proc, InsertRefund(p) PROVE (Staged)'
  BY <1>6 DEF InsertRefund
<1>7. ASSUME NEW p \in Proc, FetchRefund(p) PROVE (Staged)'
  BY <1>7 DEF FetchRefund, Outcome
<1>8. ASSUME NEW p \in Proc, ConfirmRefund(p) PROVE (Staged)'
  BY <1>8 DEF ConfirmRefund
<1>9. ASSUME NEW p \in Proc, MarkRefundFailed(p) PROVE (Staged)'
  BY <1>9 DEF MarkRefundFailed
<1>10. ASSUME NEW p \in Proc, Fail(p) PROVE (Staged)'
  BY <1>10 DEF Fail
<1>11. CASE Tick
  BY <1>11 DEF Tick, PendingRefunds
<1>12. ASSUME NEW r \in Refund, Poll(r) PROVE (Staged)'
  BY <1>12 DEF Poll
<1>13. CASE Crash
  BY <1>13 DEF Crash
<1>14. CASE UNCHANGED vars
  BY <1>14 DEF vars
<1> QED
  BY <1>1, <1>2, <1>3, <1>4, <1>5, <1>6, <1>7, <1>8, <1>9,
     <1>10, <1>11, <1>12, <1>13, <1>14
  DEF Next, Step, Reconcile

\* UPay's final answers do not change, and no one else writes a new refund.
LEMMA InformedStep == TypeOK /\ Staged /\ Informed /\ OneCreator /\ [Next]_vars => (Informed)'
<1> SUFFICES ASSUME TypeOK, Staged, Informed, OneCreator, [Next]_vars PROVE (Informed)'
  OBVIOUS
<1> USE NoneAssumption DEF TypeOK, Staged, Informed, OneCreator, Label, RefundStatus, Final, Place, Idle, Goto, Finish, Proc, orderVars, refundVars
<1>1. ASSUME NEW o \in Order, Activate(o) PROVE (Informed)'
  BY <1>1 DEF Activate
<1>2. ASSUME NEW r \in Refund, UpaySettles(r) PROVE (Informed)'
  BY <1>2 DEF UpaySettles
<1>3. ASSUME NEW c \in Client, RequestRefund(c) PROVE (Informed)'
  BY <1>3 DEF RequestRefund
<1>4. ASSUME NEW c \in Client, RequestSync(c) PROVE (Informed)'
  BY <1>4 DEF RequestSync, Stored, Final
<1>5. ASSUME NEW p \in Proc, CallUpay(p) PROVE (Informed)'
  BY <1>5 DEF CallUpay
<1>6. ASSUME NEW p \in Proc, InsertRefund(p) PROVE (Informed)'
  BY <1>6 DEF InsertRefund
<1>7. ASSUME NEW p \in Proc, FetchRefund(p) PROVE (Informed)'
  BY <1>7 DEF FetchRefund, Outcome
<1>8. ASSUME NEW p \in Proc, ConfirmRefund(p) PROVE (Informed)'
  BY <1>8 DEF ConfirmRefund
<1>9. ASSUME NEW p \in Proc, MarkRefundFailed(p) PROVE (Informed)'
  BY <1>9 DEF MarkRefundFailed
<1>10. ASSUME NEW p \in Proc, Fail(p) PROVE (Informed)'
  BY <1>10 DEF Fail
<1>11. CASE Tick
  BY <1>11 DEF Tick, PendingRefunds
<1>12. ASSUME NEW r \in Refund, Poll(r) PROVE (Informed)'
  BY <1>12 DEF Poll
<1>13. CASE Crash
  BY <1>13 DEF Crash
<1>14. CASE UNCHANGED vars
  BY <1>14 DEF vars
<1> QED
  BY <1>1, <1>2, <1>3, <1>4, <1>5, <1>6, <1>7, <1>8, <1>9,
     <1>10, <1>11, <1>12, <1>13, <1>14
  DEF Next, Step, Reconcile

\* A request draws an id that no other one has.
LEMMA OneCreatorStep == TypeOK /\ Staged /\ Informed /\ OneCreator /\ [Next]_vars => (OneCreator)'
<1> SUFFICES ASSUME TypeOK, Staged, Informed, OneCreator, [Next]_vars PROVE (OneCreator)'
  OBVIOUS
<1> USE NoneAssumption DEF TypeOK, Staged, Informed, OneCreator, Label, RefundStatus, Final, Place, Idle, Goto, Finish, Proc, orderVars, refundVars
<1>1. ASSUME NEW o \in Order, Activate(o) PROVE (OneCreator)'
  BY <1>1 DEF Activate
<1>2. ASSUME NEW r \in Refund, UpaySettles(r) PROVE (OneCreator)'
  BY <1>2 DEF UpaySettles
<1>3. ASSUME NEW c \in Client, RequestRefund(c) PROVE (OneCreator)'
  BY <1>3 DEF RequestRefund
<1>4. ASSUME NEW c \in Client, RequestSync(c) PROVE (OneCreator)'
  BY <1>4 DEF RequestSync, Stored, Final
<1>5. ASSUME NEW p \in Proc, CallUpay(p) PROVE (OneCreator)'
  BY <1>5 DEF CallUpay
<1>6. ASSUME NEW p \in Proc, InsertRefund(p) PROVE (OneCreator)'
  BY <1>6 DEF InsertRefund
<1>7. ASSUME NEW p \in Proc, FetchRefund(p) PROVE (OneCreator)'
  BY <1>7 DEF FetchRefund, Outcome
<1>8. ASSUME NEW p \in Proc, ConfirmRefund(p) PROVE (OneCreator)'
  BY <1>8 DEF ConfirmRefund
<1>9. ASSUME NEW p \in Proc, MarkRefundFailed(p) PROVE (OneCreator)'
  BY <1>9 DEF MarkRefundFailed
<1>10. ASSUME NEW p \in Proc, Fail(p) PROVE (OneCreator)'
  BY <1>10 DEF Fail
<1>11. CASE Tick
  BY <1>11 DEF Tick, PendingRefunds
<1>12. ASSUME NEW r \in Refund, Poll(r) PROVE (OneCreator)'
  BY <1>12 DEF Poll
<1>13. CASE Crash
  BY <1>13 DEF Crash
<1>14. CASE UNCHANGED vars
  BY <1>14 DEF vars
<1> QED
  BY <1>1, <1>2, <1>3, <1>4, <1>5, <1>6, <1>7, <1>8, <1>9,
     <1>10, <1>11, <1>12, <1>13, <1>14
  DEF Next, Step, Reconcile

\* A final status is only written from a final answer.
LEMMA OutcomeStep == TypeOK /\ Staged /\ Informed /\ OutcomeIsTrue /\ [Next]_vars => (OutcomeIsTrue)'
<1> SUFFICES ASSUME TypeOK, Staged, Informed, OutcomeIsTrue, [Next]_vars PROVE (OutcomeIsTrue)'
  OBVIOUS
<1> USE NoneAssumption DEF TypeOK, Staged, Informed, OutcomeIsTrue, Label, RefundStatus, Final, Place, Idle, Goto, Finish, Proc, orderVars, refundVars
<1>1. ASSUME NEW o \in Order, Activate(o) PROVE (OutcomeIsTrue)'
  BY <1>1 DEF Activate
<1>2. ASSUME NEW r \in Refund, UpaySettles(r) PROVE (OutcomeIsTrue)'
  BY <1>2 DEF UpaySettles
<1>3. ASSUME NEW c \in Client, RequestRefund(c) PROVE (OutcomeIsTrue)'
  BY <1>3 DEF RequestRefund
<1>4. ASSUME NEW c \in Client, RequestSync(c) PROVE (OutcomeIsTrue)'
  BY <1>4 DEF RequestSync, Stored, Final
<1>5. ASSUME NEW p \in Proc, CallUpay(p) PROVE (OutcomeIsTrue)'
  BY <1>5 DEF CallUpay
<1>6. ASSUME NEW p \in Proc, InsertRefund(p) PROVE (OutcomeIsTrue)'
  BY <1>6 DEF InsertRefund
<1>7. ASSUME NEW p \in Proc, FetchRefund(p) PROVE (OutcomeIsTrue)'
  BY <1>7 DEF FetchRefund, Outcome
<1>8. ASSUME NEW p \in Proc, ConfirmRefund(p) PROVE (OutcomeIsTrue)'
  BY <1>8 DEF ConfirmRefund
<1>9. ASSUME NEW p \in Proc, MarkRefundFailed(p) PROVE (OutcomeIsTrue)'
  BY <1>9 DEF MarkRefundFailed
<1>10. ASSUME NEW p \in Proc, Fail(p) PROVE (OutcomeIsTrue)'
  BY <1>10 DEF Fail
<1>11. CASE Tick
  BY <1>11 DEF Tick, PendingRefunds
<1>12. ASSUME NEW r \in Refund, Poll(r) PROVE (OutcomeIsTrue)'
  BY <1>12 DEF Poll
<1>13. CASE Crash
  BY <1>13 DEF Crash
<1>14. CASE UNCHANGED vars
  BY <1>14 DEF vars
<1> QED
  BY <1>1, <1>2, <1>3, <1>4, <1>5, <1>6, <1>7, <1>8, <1>9,
     <1>10, <1>11, <1>12, <1>13, <1>14
  DEF Next, Step, Reconcile

\* ConfirmRefund moves the refund and its order in one statement.
LEMMA SettledStep == TypeOK /\ Staged /\ Informed /\ RefundedIffSettled /\ [Next]_vars => (RefundedIffSettled)'
<1> SUFFICES ASSUME TypeOK, Staged, Informed, RefundedIffSettled, [Next]_vars PROVE (RefundedIffSettled)'
  OBVIOUS
<1> USE NoneAssumption DEF TypeOK, Staged, Informed, RefundedIffSettled, Label, RefundStatus, Final, Place, Idle, Goto, Finish, Proc, orderVars, refundVars
<1>1. ASSUME NEW o \in Order, Activate(o) PROVE (RefundedIffSettled)'
  BY <1>1 DEF Activate
<1>2. ASSUME NEW r \in Refund, UpaySettles(r) PROVE (RefundedIffSettled)'
  BY <1>2 DEF UpaySettles
<1>3. ASSUME NEW c \in Client, RequestRefund(c) PROVE (RefundedIffSettled)'
  BY <1>3 DEF RequestRefund
<1>4. ASSUME NEW c \in Client, RequestSync(c) PROVE (RefundedIffSettled)'
  BY <1>4 DEF RequestSync, Stored, Final
<1>5. ASSUME NEW p \in Proc, CallUpay(p) PROVE (RefundedIffSettled)'
  BY <1>5 DEF CallUpay
<1>6. ASSUME NEW p \in Proc, InsertRefund(p) PROVE (RefundedIffSettled)'
  BY <1>6 DEF InsertRefund
<1>7. ASSUME NEW p \in Proc, FetchRefund(p) PROVE (RefundedIffSettled)'
  BY <1>7 DEF FetchRefund, Outcome
<1>8. ASSUME NEW p \in Proc, ConfirmRefund(p) PROVE (RefundedIffSettled)'
  BY <1>8 DEF ConfirmRefund
<1>9. ASSUME NEW p \in Proc, MarkRefundFailed(p) PROVE (RefundedIffSettled)'
  BY <1>9 DEF MarkRefundFailed
<1>10. ASSUME NEW p \in Proc, Fail(p) PROVE (RefundedIffSettled)'
  BY <1>10 DEF Fail
<1>11. CASE Tick
  BY <1>11 DEF Tick, PendingRefunds
<1>12. ASSUME NEW r \in Refund, Poll(r) PROVE (RefundedIffSettled)'
  BY <1>12 DEF Poll
<1>13. CASE Crash
  BY <1>13 DEF Crash
<1>14. CASE UNCHANGED vars
  BY <1>14 DEF vars
<1> QED
  BY <1>1, <1>2, <1>3, <1>4, <1>5, <1>6, <1>7, <1>8, <1>9,
     <1>10, <1>11, <1>12, <1>13, <1>14
  DEF Next, Step, Reconcile

THEOREM Invariance == Spec => []IInv
<1>1. Init => IInv
  BY NoneAssumption, FaultAssumption
  DEF Init, IInv, TypeOK, Staged, Informed, OneCreator, OutcomeIsTrue,
      RefundedIffSettled, RefundStatus, Final, Idle, Place, Label
<1>2. IInv /\ [Next]_vars => IInv'
  BY TypeStep, StagedStep, InformedStep, OneCreatorStep, OutcomeStep, SettledStep DEF IInv
<1> QED
  BY <1>1, <1>2, PTL DEF Spec

\* The variables keep their types.
THEOREM TypeCorrect == Spec => []TypeOK
BY Invariance, PTL DEF IInv

\* A stored outcome is UPay's outcome, whatever requests and polls overtake
\* each other.
THEOREM OutcomesAreTrue == Spec => []OutcomeIsTrue
BY Invariance, PTL DEF IInv

\* An order is REFUNDED exactly when one of its refunds was settled.
THEOREM RefundsSettleOrders == Spec => []RefundedIffSettled
BY Invariance, PTL DEF IInv

\* No step overwrites a stored outcome or makes a refunded order paid again.
THEOREM RefundsAreFinal == Spec => RefundIsFinal
<1>1. IInv /\ [Next]_vars => EndsStay
  <2> SUFFICES ASSUME IInv, [Next]_vars PROVE EndsStay
    OBVIOUS
  <2>1. TypeOK /\ Staged /\ Informed /\ OutcomeIsTrue
    BY DEF IInv
  <2>2. UNCHANGED <<status, row>> => EndsStay
    BY DEF EndsStay
  <2>3. ASSUME NEW o \in Order, Activate(o) PROVE EndsStay
    BY <2>1, <2>3 DEF Activate, Staged, EndsStay, TypeOK, refundVars
  <2>4. ASSUME NEW p \in Proc, InsertRefund(p) PROVE EndsStay
    BY <2>1, <2>4 DEF InsertRefund, Informed, EndsStay, TypeOK, Final, orderVars
  <2>5. ASSUME NEW p \in Proc, ConfirmRefund(p) PROVE EndsStay
    BY <2>1, <2>5 DEF ConfirmRefund, Informed, OutcomeIsTrue, EndsStay, TypeOK, refundVars
  <2>6. ASSUME NEW p \in Proc, MarkRefundFailed(p) PROVE EndsStay
    BY <2>1, <2>6 DEF MarkRefundFailed, Informed, OutcomeIsTrue, EndsStay, TypeOK, orderVars
  <2> QED
    BY <2>2, <2>3, <2>4, <2>5, <2>6
    DEF Next, Step, Reconcile, UpaySettles, RequestRefund, RequestSync, CallUpay,
        FetchRefund, Fail, Tick, Poll, Crash, orderVars, refundVars, vars
<1> QED
  BY <1>1, Invariance, PTL DEF Spec, RefundIsFinal
-------------------------------------------------------------------------------
(* Refunding                                                               *)

\* Whoever writes an outcome closes the refund, unless another one did.
LEMMA OutcomesClose ==
  ASSUME IInv, NEW p \in Proc, ConfirmRefund(p) \/ MarkRefundFailed(p)
  PROVE  (\E r \in Refund : Promise!Close(r)) \/ UNCHANGED Promise!vars
<1>1. PICK r \in Refund : r = proc[p].r
  BY DEF IInv, Informed, ConfirmRefund, MarkRefundFailed
<1>2. /\ row[r] \in {"PENDING"} \union Final /\ of[r] \in Order
      /\ row[r] \in Final => row[r] = upay[r]
  BY <1>1 DEF IInv, TypeOK, Staged, Informed, OutcomeIsTrue, RefundStatus,
              ConfirmRefund, MarkRefundFailed
<1>3. CASE ConfirmRefund(p)
  <2>1. upay[r] = "CONFIRMED" /\ UNCHANGED <<of, upay>>
    BY <1>1, <1>3 DEF IInv, Informed, ConfirmRefund
  <2>2. CASE row[r] = "CONFIRMED"
    BY <1>1, <1>3, <2>1, <2>2 DEF ConfirmRefund, refundVars, Promise!vars
  <2>3. CASE row[r] = "PENDING"
    <3>1. status[of[r]] \in {"PAID", "REFUNDED"}
      BY <1>2, <2>1 DEF IInv, TypeOK, Staged
    <3>2. /\ row' = [row EXCEPT ![r] = "CONFIRMED"]
          /\ status' = [o \in Order |->
               IF o = of[r] /\ status[o] = "PAID" THEN "REFUNDED" ELSE status[o]]
      BY <1>1, <1>3, <2>3 DEF ConfirmRefund
    <3>3. status' = [status EXCEPT ![of[r]] = "REFUNDED"]
      BY <1>2, <3>1, <3>2 DEF IInv, TypeOK
    <3>4. Promise!Close(r)
      BY <2>1, <2>3, <3>2, <3>3 DEF Promise!Close, Promise!Final
    <3> QED BY <3>4
  <2> QED BY <1>2, <2>1, <2>2, <2>3 DEF Final
<1>4. CASE MarkRefundFailed(p)
  <2>1. upay[r] = "FAILED" /\ row' = [row EXCEPT ![r] = "FAILED"]
        /\ UNCHANGED <<status, of, upay>>
    BY <1>1, <1>4 DEF IInv, Informed, MarkRefundFailed, orderVars
  <2>2. CASE row[r] = "FAILED"
    BY <2>1, <2>2 DEF IInv, TypeOK, Promise!vars
  <2>3. CASE row[r] = "PENDING"
    <3>1. Promise!Close(r)
      BY <2>1, <2>3 DEF Promise!Close, Promise!Final
    <3> QED BY <3>1
  <2> QED BY <1>2, <2>1, <2>2, <2>3 DEF Final
<1> QED BY <1>3, <1>4

\* The requests and syncs together implement Refunding, for any number of them.
THEOREM Refinement == Spec => ImplementsRefunding
<1>1. Init => Promise!Init
  BY DEF Init, Promise!Init
<1>2. IInv /\ [Next]_vars => [Promise!Next]_(Promise!vars)
  <2> SUFFICES ASSUME IInv, [Next]_vars PROVE [Promise!Next]_(Promise!vars)
    OBVIOUS
  <2>1. UNCHANGED <<status, of, upay, row>> => UNCHANGED Promise!vars
    BY DEF Promise!vars
  <2>2. ASSUME NEW o \in Order, Activate(o) PROVE Promise!Pay(o)
    BY <2>2 DEF Activate, IInv, Staged, Promise!Pay, refundVars
  <2>3. ASSUME NEW r \in Refund, UpaySettles(r) PROVE Promise!Settle(r)
    BY <2>3 DEF UpaySettles, Final, Promise!Settle, Promise!Final, orderVars, refundVars
  <2>4. ASSUME NEW c \in Client, RequestRefund(c)
        PROVE  \E o \in Order, r \in Refund : Promise!Ask(r, o)
    BY <2>4 DEF RequestRefund, Promise!Ask, orderVars, refundVars
  <2>5. ASSUME NEW p \in Proc, CallUpay(p)
        PROVE  UNCHANGED Promise!vars \/ \E r \in Refund : Promise!Open(r)
    <3>1. PICK r \in Refund : r = proc[p].r
      BY <2>5 DEF IInv, Informed, CallUpay
    <3>2. of[r] # None /\ upay[r] = "NONE" /\ UNCHANGED <<status, of, row>>
      BY <2>5, <3>1 DEF IInv, Informed, CallUpay, orderVars, refundVars
    <3>3. UNCHANGED upay \/ \E st \in {"PENDING"} \union Final : upay' = [upay EXCEPT ![r] = st]
      BY <2>5, <3>1 DEF CallUpay, RefundStatus, Final
    <3> QED BY <2>1, <3>2, <3>3 DEF Promise!Open, Promise!Final, Final
  <2>6. ASSUME NEW p \in Proc, InsertRefund(p) PROVE \E r \in Refund : Promise!List(r)
    <3>1. PICK r \in Refund : r = proc[p].r
      BY <2>6 DEF IInv, Informed, InsertRefund
    <3>2. row[r] = "NONE" /\ upay[r] # "NONE" /\ proc[p].st \in {"PENDING", upay[r]}
      BY <2>6, <3>1 DEF IInv, TypeOK, Informed, InsertRefund, RefundStatus, Final
    <3>3. row' = [row EXCEPT ![r] = proc[p].st] /\ UNCHANGED <<status, of, upay>>
      BY <2>6, <3>1 DEF InsertRefund, orderVars
    <3>4. Promise!List(r)
      BY <3>2, <3>3 DEF Promise!List
    <3> QED BY <3>4
  <2>7. ASSUME NEW p \in Proc, ConfirmRefund(p) \/ MarkRefundFailed(p)
        PROVE  UNCHANGED Promise!vars \/ \E r \in Refund : Promise!Close(r)
    BY <2>7, OutcomesClose
  <2>8. \/ \E c \in Client : RequestSync(c)
        \/ \E p \in Proc : FetchRefund(p) \/ Fail(p)
        \/ Reconcile \/ Crash \/ UNCHANGED vars
        => UNCHANGED Promise!vars
    BY <2>1 DEF RequestSync, FetchRefund, Fail, Reconcile, Tick, Poll, Crash,
                orderVars, refundVars, vars
  <2> QED
    BY <2>2, <2>3, <2>4, <2>5, <2>6, <2>7, <2>8 DEF Next, Step, Promise!Next
<1> QED
  BY <1>1, <1>2, Invariance, PTL DEF Spec, ImplementsRefunding, Promise!Spec
-------------------------------------------------------------------------------
(* Refunds without a row: every failure adds at most one for each client.  *)

\* Only requests create refunds.
JobReads == proc[Job].pc \notin {"create", "insert"}
Counted ==
  JobReads /\ IsFiniteSet(Untracked) /\ UntrackedAreFaults

LEMMA JobReadsStep == TypeOK /\ JobReads /\ [Next]_vars => JobReads'
<1> SUFFICES ASSUME TypeOK, JobReads, [Next]_vars PROVE JobReads'
  OBVIOUS
<1> USE JobAssumption DEF TypeOK, JobReads, Place, Idle, Goto, Finish, Proc
<1>1. CASE UNCHANGED proc
  BY <1>1
<1>2. ASSUME NEW c \in Client, RequestRefund(c) \/ RequestSync(c) PROVE JobReads'
  BY <1>2 DEF RequestRefund, RequestSync
<1>3. ASSUME NEW p \in Proc, CallUpay(p) PROVE JobReads'
  BY <1>3 DEF CallUpay
<1>4. ASSUME NEW p \in Proc, FetchRefund(p) PROVE JobReads'
  BY <1>4 DEF FetchRefund, Outcome
<1>5. ASSUME NEW p \in Proc, Finish(p) PROVE JobReads'
  BY <1>5
<1>6. ASSUME NEW r \in Refund, Poll(r) PROVE JobReads'
  BY <1>6 DEF Poll
<1>7. CASE Crash
  BY <1>7 DEF Crash
<1> QED
  BY <1>1, <1>2, <1>3, <1>4, <1>5, <1>6, <1>7
  DEF Next, Step, Reconcile, Activate, UpaySettles, InsertRefund, ConfirmRefund,
      MarkRefundFailed, Fail, Tick, vars

\* A step that does not fail leaves no refund behind, a failed one that of its
\* own request, and a stop those of all requests.
LEMMA LeftBehind ==
  ASSUME TypeOK, Informed, JobReads, [Next]_vars
  PROVE  \/ Untracked' \subseteq Untracked /\ faults' \in {faults, faults + 1}
         \/ \E c \in Client :
              Untracked' \subseteq Untracked \union {proc[c].r} /\ faults' = faults + 1
         \/ /\ Untracked' \subseteq Untracked \union {proc[c].r : c \in Client}
            /\ faults' = faults + 1
<1> USE DEF TypeOK, Informed, Place, Idle, Goto, Finish, Proc, refundVars
<1>1. ASSUME UNCHANGED <<row, upay, faults>>,
             \A p \in Proc : proc[p].pc = "insert" => proc'[p] = proc[p]
      PROVE  Untracked' \subseteq Untracked /\ faults' = faults
  BY <1>1 DEF Untracked
<1>2. ASSUME NEW r \in Refund, UpaySettles(r)
      PROVE  Untracked' \subseteq Untracked /\ faults' = faults
  BY <1>2 DEF UpaySettles, Untracked, Final
<1>3. ASSUME NEW p \in Proc, CallUpay(p)
      PROVE  \/ Untracked' \subseteq Untracked /\ faults' = faults
             \/ \E c \in Client :
                  Untracked' \subseteq Untracked \union {proc[c].r} /\ faults' = faults + 1
  <2>1. p \in Client /\ proc[p].r \in Refund
    BY <1>3 DEF CallUpay, JobReads
  <2>2. CASE UNCHANGED <<upay, faults>> /\ Finish(p)
    BY <1>1, <1>3, <2>2 DEF CallUpay
  <2>3. ASSUME NEW st \in RefundStatus \ {"NONE"},
               upay' = [upay EXCEPT ![proc[p].r] = st],
               Goto(p, "insert", proc[p].r, st) /\ UNCHANGED faults
        PROVE  Untracked' \subseteq Untracked /\ faults' = faults
    <3>1. \A r \in Refund : r # proc[p].r => upay'[r] = upay[r]
      BY <2>3
    <3>2. proc'[p].pc = "insert" /\ proc'[p].r = proc[p].r
      BY <2>3
    <3>3. \A q \in Proc : q # p => proc'[q] = proc[q]
      BY <2>3
    <3>4. proc[p].pc = "create" /\ row' = row
      BY <1>3 DEF CallUpay
    <3> QED BY <2>3, <3>1, <3>2, <3>3, <3>4 DEF Untracked
  <2>4. ASSUME NEW st \in RefundStatus \ {"NONE"},
               upay' = [upay EXCEPT ![proc[p].r] = st], Finish(p), Fault
        PROVE  Untracked' \subseteq Untracked \union {proc[p].r} /\ faults' = faults + 1
    <3>1. \A r \in Refund : r # proc[p].r => upay'[r] = upay[r]
      BY <2>4
    <3>2. \A q \in Proc : q # p => proc'[q] = proc[q]
      BY <2>4
    <3>3. proc[p].pc = "create" /\ row' = row
      BY <1>3 DEF CallUpay
    <3> QED BY <2>4, <3>1, <3>2, <3>3 DEF Untracked, Fault
  <2> QED BY <1>3, <2>1, <2>2, <2>3, <2>4 DEF CallUpay
<1>4. ASSUME NEW p \in Proc, InsertRefund(p) \/ ConfirmRefund(p) \/ MarkRefundFailed(p)
      PROVE  Untracked' \subseteq Untracked /\ faults' = faults
  <2>1. /\ upay' = upay /\ faults' = faults /\ proc[p].r \in Refund
        /\ \A r \in Refund : r # proc[p].r => row'[r] = row[r]
        /\ \A r \in Refund : row[r] # "NONE" => row'[r] # "NONE"
        /\ \A q \in Proc : q # p => proc'[q] = proc[q]
    BY <1>4 DEF InsertRefund, ConfirmRefund, MarkRefundFailed
  <2>2. proc[p].pc = "insert" => row'[proc[p].r] # "NONE"
    BY <1>4, <2>1 DEF InsertRefund, ConfirmRefund, MarkRefundFailed
  <2> QED BY <2>1, <2>2 DEF Untracked
<1>5. ASSUME NEW p \in Proc, Fail(p)
      PROVE  \/ Untracked' \subseteq Untracked /\ faults' = faults + 1
             \/ \E c \in Client :
                  Untracked' \subseteq Untracked \union {proc[c].r} /\ faults' = faults + 1
  <2>1. /\ upay' = upay /\ row' = row /\ faults' = faults + 1
        /\ \A q \in Proc : q # p => proc'[q] = proc[q]
    BY <1>5 DEF Fail, Fault
  <2>2. Untracked' \subseteq Untracked \union {proc[p].r}
    BY <2>1 DEF Untracked
  <2>3. p = Job => Untracked' \subseteq Untracked
    BY <2>1 DEF Untracked, JobReads
  <2> QED BY <2>1, <2>2, <2>3
<1>6. ASSUME Crash
      PROVE  /\ Untracked' \subseteq Untracked \union {proc[c].r : c \in Client}
             /\ faults' = faults + 1
  BY <1>6 DEF Crash, Fault, Untracked, JobReads
<1>7. ASSUME NEW c \in Client, RequestRefund(c) \/ RequestSync(c)
      PROVE  Untracked' \subseteq Untracked /\ faults' = faults
  BY <1>1, <1>7 DEF RequestRefund, RequestSync
<1>8. ASSUME NEW p \in Proc, FetchRefund(p)
      PROVE  Untracked' \subseteq Untracked /\ faults' = faults
  BY <1>1, <1>8 DEF FetchRefund
<1>9. ASSUME Tick \/ (\E r \in Refund : Poll(r)) \/ (\E o \in Order : Activate(o))
             \/ UNCHANGED vars
      PROVE  Untracked' \subseteq Untracked /\ faults' = faults
  BY <1>1, <1>9 DEF Tick, Poll, Activate, vars
<1> QED
  BY <1>2, <1>3, <1>4, <1>5, <1>6, <1>7, <1>8, <1>9 DEF Next, Step, Reconcile

\* The refunds the clients hold are at most as many as the clients.
LEMMA FewHeld ==
  LET held == {proc[c].r : c \in Client} IN
    IsFiniteSet(held) /\ Cardinality(held) <= Cardinality(Client)
<1> DEFINE held == {proc[c].r : c \in Client}
           holds == [c \in Client |-> proc[c].r]
<1>1. holds \in Surjection(Client, held)
  BY DEF Surjection
<1> HIDE DEF held, holds
<1>2. IsFiniteSet(held) /\ Cardinality(held) <= Cardinality(Client)
  BY <1>1, ClientAssumption, FS_Surjection
<1> QED BY <1>2 DEF held

LEMMA CountedStep == TypeOK /\ Informed /\ Counted /\ [Next]_vars => Counted'
<1> SUFFICES ASSUME TypeOK, Informed, Counted, [Next]_vars PROVE Counted'
  OBVIOUS
<1> DEFINE N == Cardinality(Client)
<1>1. /\ JobReads' /\ faults \in Nat /\ N \in Nat
      /\ IsFiniteSet(Untracked) /\ Cardinality(Untracked) \in Nat
      /\ Cardinality(Untracked) <= faults * N
  BY JobReadsStep, ClientAssumption, FaultAssumption, FS_CardinalityType
  DEF Counted, UntrackedAreFaults, TypeOK
<1>2. ASSUME NEW X, IsFiniteSet(X), Untracked' \subseteq X
      PROVE  /\ IsFiniteSet(Untracked') /\ Cardinality(Untracked') \in Nat
             /\ Cardinality(X) \in Nat /\ Cardinality(Untracked') <= Cardinality(X)
  BY <1>2, FS_Subset, FS_CardinalityType
<1>3. faults * N \in Nat /\ (faults + 1) * N = faults * N + N
  BY <1>1
<1> HIDE DEF N
<1>4. ASSUME Untracked' \subseteq Untracked, faults' \in {faults, faults + 1}
      PROVE  IsFiniteSet(Untracked') /\ Cardinality(Untracked') <= faults' * N
  BY <1>1, <1>2, <1>3, <1>4
<1>5. ASSUME NEW E, IsFiniteSet(E), Cardinality(E) <= N,
             Untracked' \subseteq Untracked \union E, faults' = faults + 1
      PROVE  IsFiniteSet(Untracked') /\ Cardinality(Untracked') <= faults' * N
  <2>1. /\ IsFiniteSet(Untracked \union E)
        /\ Cardinality(Untracked \union E)
             = Cardinality(Untracked) + Cardinality(E) - Cardinality(Untracked \intersect E)
    BY <1>1, <1>5, FS_Union
  <2>2. Cardinality(E) \in Nat /\ Cardinality(Untracked \intersect E) \in Nat
    BY <1>1, <1>5, FS_Subset, FS_CardinalityType
  <2>3. /\ IsFiniteSet(Untracked')
        /\ Cardinality(Untracked') \in Nat /\ Cardinality(Untracked \union E) \in Nat
        /\ Cardinality(Untracked') <= Cardinality(Untracked \union E)
    BY <1>2, <1>5, <2>1
  <2> QED BY <1>1, <1>3, <1>5, <2>1, <2>2, <2>3
<1>6. ASSUME NEW c \in Client PROVE IsFiniteSet({proc[c].r}) /\ Cardinality({proc[c].r}) <= N
  <2>1. N # 0
    BY <1>6, ClientAssumption, FS_EmptySet DEF N
  <2>2. IsFiniteSet({proc[c].r}) /\ Cardinality({proc[c].r}) = 1
    BY FS_Singleton, Zenon
  <2>3. N \in Nat
    BY <1>1
  <2> QED BY <2>1, <2>2, <2>3
<1>7. IsFiniteSet(Untracked') /\ Cardinality(Untracked') <= faults' * N
  <2>1. LET held == {proc[c].r : c \in Client} IN
          IsFiniteSet(held) /\ Cardinality(held) <= N
    BY FewHeld DEF N
  <2> QED BY <1>4, <1>5, <1>6, <2>1, LeftBehind DEF Counted
<1> QED BY <1>1, <1>7 DEF Counted, UntrackedAreFaults, N

\* Refunds that UPay has and no row tells of come from failures, at most one
\* for each client and failure.
THEOREM UntrackedExplained == Spec => []UntrackedAreFaults
<1>1. Init => Counted
  <2> SUFFICES ASSUME Init PROVE Counted
    OBVIOUS
  <2>1. JobReads /\ Untracked = {} /\ faults = 0
    BY DEF Init, JobReads, Untracked, Idle, Place, Proc
  <2>2. Cardinality(Client) \in Nat
    BY ClientAssumption, FS_CardinalityType
  <2> QED BY <2>1, <2>2, FS_EmptySet DEF Counted, UntrackedAreFaults
<1>2. IInv /\ Counted /\ [Next]_vars => Counted'
  BY CountedStep DEF IInv
<1>3. Counted => UntrackedAreFaults
  BY DEF Counted
<1> QED
  BY <1>1, <1>2, <1>3, Invariance, PTL DEF Spec
===============================================================================
