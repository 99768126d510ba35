-------------------------- MODULE PayoutAccountProofs --------------------------
(***************************************************************************)
(* Proofs about PayoutAccount, for any numbers UPay gives out, any         *)
(* recipients, number of requests at once and failures.                    *)
(***************************************************************************)
EXTENDS PayoutAccount, FiniteSetTheorems, TLAPS

(* The rows name what UPay has.                                            *)
Known ==
  /\ payer # None => payer \in upayPayer
  /\ ben \subseteq upayBen
  /\ \A r \in Recipient : bank[r] # None =>
       r \in ben /\ details[r] # None /\ upayBank[bank[r]] # None

(* What a goroutine has been told, or has read, is still so.               *)
Informed ==
  \A c \in Client :
    LET p == proc[c] IN
      /\ p.no # None => p.pc \in {"savePayer", "readRecipient", "send"}
      /\ p.pc = "savePayer" => p.no \in upayPayer /\ p.no # payer
      /\ p.pc \in {"readRecipient", "send"} => payer # None /\ p.no = payer
      /\ p.pc \in {"addBen", "saveBen", "addBank", "saveBank"} => p.d \in Details
      /\ p.pc \in {"addBen", "saveBen", "addBank", "saveBank", "readRecipient", "send"}
           => p.r \in Recipient
      /\ p.pc = "saveBen" => p.r \in upayBen
      /\ p.pc \in {"addBank", "saveBank", "send"} => p.r \in ben
      /\ p.pc \in {"saveBank", "send"} => p.a \in Account /\ upayBank[p.a] # None
      /\ p.pc = "saveBank" => upayBank[p.a] = [r |-> p.r, d |-> p.d]
      /\ p.pc = "send" => upayBank[p.a].r = p.r

(* UPay gives no payer number out twice.                                   *)
OnePayerEach ==
  \A c, e \in Client :
    c # e /\ proc[c].pc = "savePayer" /\ proc[e].pc = "savePayer"
      => proc[c].no # proc[e].no

(* Until a payer is saved every orphan is a failure's; afterwards each     *)
(* request that is still after one may leave one more.                     *)
Asking == {c \in Client : proc[c].pc \in {"addPayer", "savePayer"}}
Counted ==
  /\ IsFiniteSet(upayPayer)
  /\ payer = None => Cardinality(Orphans) <= faults
  /\ payer # None =>
       Cardinality(Orphans) + Cardinality(Asking) + 1 <= Cardinality(Client) + faults

IInv ==
  /\ TypeOK /\ Known /\ Informed /\ OnePayerEach /\ Counted
  /\ BankIsShown /\ OrdersAreBacked

-------------------------------------------------------------------------------
\* Every step keeps the variables' types.
LEMMA TypeStep == TypeOK /\ Informed /\ Known /\ [Next]_vars => (TypeOK)'
<1> SUFFICES ASSUME TypeOK, Informed, Known, [Next]_vars PROVE (TypeOK)'
  OBVIOUS
<1> USE NoneAssumption, FaultAssumption DEF TypeOK, Informed, Known, Label, BankAccount, Sent, Place, Idle, Begin, Goto, Finish, At, Answered, Refused, Fault, OrNone, rowVars, upayVars
<1>1. ASSUME NEW c \in Client, RequestPayer(c) PROVE (TypeOK)'
  BY <1>1 DEF RequestPayer, HasPayer
<1>2. ASSUME NEW c \in Client, AddPayer(c) PROVE (TypeOK)'
  BY <1>2 DEF AddPayer, GivesPayer
<1>3. ASSUME NEW c \in Client, CreatePayoutPayer(c) PROVE (TypeOK)'
  BY <1>3 DEF CreatePayoutPayer
<1>4. ASSUME NEW c \in Client, CreatePayoutRecipient(c) PROVE (TypeOK)'
  BY <1>4 DEF CreatePayoutRecipient, CreateRow
<1>5. ASSUME NEW c \in Client, AddBeneficiary(c) PROVE (TypeOK)'
  <2>1. proc[c].r \in Recipient /\ proc[c].d \in Details
    BY <1>5 DEF AddBeneficiary, GivesBeneficiary
  <2>2. CASE Refused(c)
    BY <1>5, <2>2 DEF AddBeneficiary, GivesBeneficiary
  <2>3. CASE /\ upayBen' = upayBen \union {proc[c].r}
             /\ Answered(c, Place("saveBen", None, proc[c].r, proc[c].d, None))
             /\ UNCHANGED <<upayPayer, upayBank, orders>>
    BY <1>5, <2>1, <2>3 DEF AddBeneficiary, GivesBeneficiary
  <2> QED
    BY <1>5, <2>2, <2>3 DEF AddBeneficiary, GivesBeneficiary
<1>6. ASSUME NEW c \in Client, SetRecipientBeneficiary(c) PROVE (TypeOK)'
  BY <1>6 DEF SetRecipientBeneficiary, SaveBeneficiary
<1>7. ASSUME NEW c \in Client, RetryRecipientBank(c) PROVE (TypeOK)'
  BY <1>7 DEF RetryRecipientBank
<1>8. ASSUME NEW c \in Client, AddBankAccount(c) PROVE (TypeOK)'
  <2>1. proc[c].r \in Recipient /\ proc[c].d \in Details
    BY <1>8 DEF AddBankAccount, GivesAccount
  <2>2. CASE Refused(c)
    BY <1>8, <2>2 DEF AddBankAccount, GivesAccount
  <2>3. ASSUME NEW a \in Account,
               upayBank' = [upayBank EXCEPT ![a] = [r |-> proc[c].r, d |-> proc[c].d]],
               Answered(c, Place("saveBank", None, proc[c].r, proc[c].d, a)),
               UNCHANGED <<rowVars, upayPayer, upayBen, orders>>
        PROVE  (TypeOK)'
    <3>1. upayBank' \in [Account -> OrNone(BankAccount)]
      BY <2>1, <2>3
    <3>2. /\ proc' \in [Client -> [pc : Label, no : OrNone(Payer), r : OrNone(Recipient),
                                   d : OrNone(Details), a : OrNone(Account)]]
          /\ faults' \in 0 .. MaxFaults
      BY <2>1, <2>3
    <3>3. UNCHANGED <<rowVars, upayPayer, upayBen, orders>>
      BY <2>3
    <3> QED
      BY <3>1, <3>2, <3>3
  <2> QED
    BY <1>8, <2>2, <2>3 DEF AddBankAccount, GivesAccount
<1>9. ASSUME NEW c \in Client, SetRecipientBank(c) PROVE (TypeOK)'
  BY <1>9 DEF SetRecipientBank, SaveBank
<1>10. ASSUME NEW c \in Client, RequestOrder(c) PROVE (TypeOK)'
  BY <1>10 DEF RequestOrder, HasPayer
<1>11. ASSUME NEW c \in Client, ReadRecipient(c) PROVE (TypeOK)'
  BY <1>11 DEF ReadRecipient, Complete
<1>12. ASSUME NEW c \in Client, SendOrder(c) PROVE (TypeOK)'
  <2>1. [payer |-> proc[c].no, r |-> proc[c].r, a |-> proc[c].a] \in Sent
    BY <1>12 DEF SendOrder
  <2>2. orders' \subseteq Sent
    BY <1>12, <2>1 DEF SendOrder
  <2> QED
    BY <1>12, <2>2 DEF SendOrder
<1>13. ASSUME NEW c \in Client, Fail(c) PROVE (TypeOK)'
  BY <1>13 DEF Fail
<1>14. CASE UNCHANGED vars
  BY <1>14 DEF vars
<1> QED
  BY <1>1, <1>2, <1>3, <1>4, <1>5, <1>6, <1>7, <1>8, <1>9,
     <1>10, <1>11, <1>12, <1>13, <1>14
  DEF Next

\* A number is stored after UPay has given it out.
LEMMA KnownStep == TypeOK /\ Informed /\ Known /\ [Next]_vars => (Known)'
<1> SUFFICES ASSUME TypeOK, Informed, Known, [Next]_vars PROVE (Known)'
  OBVIOUS
<1> USE NoneAssumption DEF TypeOK, Informed, Known, BankAccount, Place, Idle, Begin, Goto, Finish, At, Answered, Refused, Fault, OrNone, rowVars, upayVars
<1>1. ASSUME NEW c \in Client, RequestPayer(c) PROVE (Known)'
  BY <1>1 DEF RequestPayer, HasPayer
<1>2. ASSUME NEW c \in Client, AddPayer(c) PROVE (Known)'
  BY <1>2 DEF AddPayer, GivesPayer
<1>3. ASSUME NEW c \in Client, CreatePayoutPayer(c) PROVE (Known)'
  BY <1>3 DEF CreatePayoutPayer
<1>4. ASSUME NEW c \in Client, CreatePayoutRecipient(c) PROVE (Known)'
  BY <1>4 DEF CreatePayoutRecipient, CreateRow
<1>5. ASSUME NEW c \in Client, AddBeneficiary(c) PROVE (Known)'
  BY <1>5 DEF AddBeneficiary, GivesBeneficiary
<1>6. ASSUME NEW c \in Client, SetRecipientBeneficiary(c) PROVE (Known)'
  <2>1. proc[c].r \in upayBen
    BY <1>6 DEF SetRecipientBeneficiary, SaveBeneficiary
  <2>2. /\ ben' = ben \union {proc[c].r}
        /\ UNCHANGED <<payer, bank, details, upayPayer, upayBen, upayBank>>
    BY <1>6 DEF SetRecipientBeneficiary, SaveBeneficiary
  <2> QED
    BY <2>1, <2>2
<1>7. ASSUME NEW c \in Client, RetryRecipientBank(c) PROVE (Known)'
  <2>1. UNCHANGED <<rowVars, upayVars>>
    BY <1>7 DEF RetryRecipientBank
  <2> QED
    BY <2>1
<1>8. ASSUME NEW c \in Client, AddBankAccount(c) PROVE (Known)'
  BY <1>8 DEF AddBankAccount, GivesAccount
<1>9. ASSUME NEW c \in Client, SetRecipientBank(c) PROVE (Known)'
  BY <1>9 DEF SetRecipientBank, SaveBank
<1>10. ASSUME NEW c \in Client, RequestOrder(c) PROVE (Known)'
  BY <1>10 DEF RequestOrder, HasPayer
<1>11. ASSUME NEW c \in Client, ReadRecipient(c) PROVE (Known)'
  BY <1>11 DEF ReadRecipient, Complete
<1>12. ASSUME NEW c \in Client, SendOrder(c) PROVE (Known)'
  BY <1>12 DEF SendOrder
<1>13. ASSUME NEW c \in Client, Fail(c) PROVE (Known)'
  BY <1>13 DEF Fail
<1>14. CASE UNCHANGED vars
  BY <1>14 DEF vars
<1> QED
  BY <1>1, <1>2, <1>3, <1>4, <1>5, <1>6, <1>7, <1>8, <1>9,
     <1>10, <1>11, <1>12, <1>13, <1>14
  DEF Next

\* Rows and UPay only add to what a goroutine knows.
LEMMA InformedStep == TypeOK /\ Informed /\ Known /\ OnePayerEach /\ BankIsShown /\ [Next]_vars => (Informed)'
<1> SUFFICES ASSUME TypeOK, Informed, Known, OnePayerEach, BankIsShown, [Next]_vars PROVE (Informed)'
  OBVIOUS
<1> USE NoneAssumption DEF TypeOK, Informed, Known, BankAccount, Place, Idle, Begin, Goto, Finish, At, Answered, Refused, Fault, OrNone, rowVars, upayVars, OnePayerEach, BankIsShown
<1>1. ASSUME NEW c \in Client, RequestPayer(c) PROVE (Informed)'
  BY <1>1 DEF RequestPayer, HasPayer
<1>2. ASSUME NEW c \in Client, AddPayer(c) PROVE (Informed)'
  BY <1>2 DEF AddPayer, GivesPayer
<1>3. ASSUME NEW c \in Client, CreatePayoutPayer(c) PROVE (Informed)'
  BY <1>3 DEF CreatePayoutPayer
<1>4. ASSUME NEW c \in Client, CreatePayoutRecipient(c) PROVE (Informed)'
  BY <1>4 DEF CreatePayoutRecipient, CreateRow
<1>5. ASSUME NEW c \in Client, AddBeneficiary(c) PROVE (Informed)'
  BY <1>5 DEF AddBeneficiary, GivesBeneficiary
<1>6. ASSUME NEW c \in Client, SetRecipientBeneficiary(c) PROVE (Informed)'
  BY <1>6 DEF SetRecipientBeneficiary, SaveBeneficiary
<1>7. ASSUME NEW c \in Client, RetryRecipientBank(c) PROVE (Informed)'
  BY <1>7 DEF RetryRecipientBank
<1>8. ASSUME NEW c \in Client, AddBankAccount(c) PROVE (Informed)'
  <2>1. CASE Refused(c)
    BY <1>8, <2>1 DEF AddBankAccount, GivesAccount
  <2>2. ASSUME NEW a \in Account, upayBank[a] = None,
               upayBank' = [upayBank EXCEPT ![a] = [r |-> proc[c].r, d |-> proc[c].d]],
               Answered(c, Place("saveBank", None, proc[c].r, proc[c].d, a)),
               UNCHANGED <<upayPayer, upayBen, orders>>
        PROVE  (Informed)'
    <3>1. proc[c].r \in Recipient /\ proc[c].d \in Details /\ proc[c].r \in ben
      BY <1>8 DEF AddBankAccount, GivesAccount
    <3>2. upayBank'[a] = [r |-> proc[c].r, d |-> proc[c].d] /\ upayBank'[a] # None
      BY <2>2, <3>1
    <3>3. \A b \in Account : upayBank[b] # None => upayBank'[b] = upayBank[b]
      BY <2>2
    <3>4. UNCHANGED <<payer, ben, bank, details, upayPayer, upayBen>>
      BY <1>8, <2>2 DEF AddBankAccount, GivesAccount
    <3>5. CASE Goto(c, Place("saveBank", None, proc[c].r, proc[c].d, a))
      BY <3>1, <3>2, <3>3, <3>4, <3>5
    <3>6. CASE Finish(c)
      BY <3>3, <3>4, <3>6
    <3> QED
      BY <2>2, <3>5, <3>6
  <2> QED
    BY <1>8, <2>1, <2>2 DEF AddBankAccount, GivesAccount
<1>9. ASSUME NEW c \in Client, SetRecipientBank(c) PROVE (Informed)'
  BY <1>9 DEF SetRecipientBank, SaveBank
<1>10. ASSUME NEW c \in Client, RequestOrder(c) PROVE (Informed)'
  BY <1>10 DEF RequestOrder, HasPayer
<1>11. ASSUME NEW c \in Client, ReadRecipient(c) PROVE (Informed)'
  <2>1. CASE Complete(proc[c].r)
    <3>1. /\ bank[proc[c].r] \in Account /\ proc[c].r \in ben
          /\ upayBank[bank[proc[c].r]] = [r |-> proc[c].r, d |-> details[proc[c].r]]
      BY <1>11, <2>1 DEF ReadRecipient, Complete
    <3>2. upayBank[bank[proc[c].r]].r = proc[c].r
      BY <3>1
    <3>3. upayBank[bank[proc[c].r]] # None
      BY <1>11, <2>1 DEF ReadRecipient, Complete
    <3>4. /\ payer # None /\ proc[c].no = payer /\ proc[c].r \in Recipient
          /\ UNCHANGED <<rowVars, upayVars>>
          /\ proc' = [proc EXCEPT ![c] = Place("send", proc[c].no, proc[c].r, None, bank[proc[c].r])]
      BY <1>11, <2>1 DEF ReadRecipient
    <3>5. /\ proc'[c].pc = "send" /\ proc'[c].no = proc[c].no
          /\ proc'[c].r = proc[c].r /\ proc'[c].a = bank[proc[c].r]
      BY <3>4
    <3>6. \A e \in Client : e # c => proc'[e] = proc[e]
      BY <3>4
    <3> QED
      BY <3>1, <3>2, <3>3, <3>4, <3>5, <3>6
  <2>2. CASE ~Complete(proc[c].r)
    BY <1>11, <2>2 DEF ReadRecipient
  <2> QED
    BY <2>1, <2>2
<1>12. ASSUME NEW c \in Client, SendOrder(c) PROVE (Informed)'
  BY <1>12 DEF SendOrder
<1>13. ASSUME NEW c \in Client, Fail(c) PROVE (Informed)'
  BY <1>13 DEF Fail
<1>14. CASE UNCHANGED vars
  BY <1>14 DEF vars
<1> QED
  BY <1>1, <1>2, <1>3, <1>4, <1>5, <1>6, <1>7, <1>8, <1>9,
     <1>10, <1>11, <1>12, <1>13, <1>14
  DEF Next

\* Two requests are never given the same payer number.
LEMMA OnePayerEachStep == TypeOK /\ Informed /\ OnePayerEach /\ [Next]_vars => (OnePayerEach)'
<1> SUFFICES ASSUME TypeOK, Informed, OnePayerEach, [Next]_vars PROVE (OnePayerEach)'
  OBVIOUS
<1> USE NoneAssumption DEF TypeOK, Informed, Known, BankAccount, Place, Idle, Begin, Goto, Finish, At, Answered, Refused, Fault, OrNone, rowVars, upayVars, OnePayerEach
<1>1. ASSUME NEW c \in Client, RequestPayer(c) PROVE (OnePayerEach)'
  BY <1>1 DEF RequestPayer, HasPayer
<1>2. ASSUME NEW c \in Client, AddPayer(c) PROVE (OnePayerEach)'
  <2>1. CASE Refused(c)
    BY <1>2, <2>1 DEF AddPayer, GivesPayer
  <2>2. ASSUME NEW no \in Payer \ upayPayer,
               Answered(c, Place("savePayer", no, None, None, None))
        PROVE  (OnePayerEach)'
    <3>1. \A e \in Client : proc[e].pc = "savePayer" => proc[e].no # no
      OBVIOUS
    <3>2. \A e \in Client \ {c} : proc'[e] = proc[e]
      BY <2>2
    <3>3. proc'[c].pc = "savePayer" => proc'[c].no = no
      BY <2>2
    <3> QED
      BY <3>1, <3>2, <3>3
  <2> QED
    BY <1>2, <2>1, <2>2 DEF AddPayer, GivesPayer
<1>3. ASSUME NEW c \in Client, CreatePayoutPayer(c) PROVE (OnePayerEach)'
  BY <1>3 DEF CreatePayoutPayer
<1>4. ASSUME NEW c \in Client, CreatePayoutRecipient(c) PROVE (OnePayerEach)'
  BY <1>4 DEF CreatePayoutRecipient, CreateRow
<1>5. ASSUME NEW c \in Client, AddBeneficiary(c) PROVE (OnePayerEach)'
  BY <1>5 DEF AddBeneficiary, GivesBeneficiary
<1>6. ASSUME NEW c \in Client, SetRecipientBeneficiary(c) PROVE (OnePayerEach)'
  BY <1>6 DEF SetRecipientBeneficiary, SaveBeneficiary
<1>7. ASSUME NEW c \in Client, RetryRecipientBank(c) PROVE (OnePayerEach)'
  BY <1>7 DEF RetryRecipientBank
<1>8. ASSUME NEW c \in Client, AddBankAccount(c) PROVE (OnePayerEach)'
  BY <1>8 DEF AddBankAccount, GivesAccount
<1>9. ASSUME NEW c \in Client, SetRecipientBank(c) PROVE (OnePayerEach)'
  BY <1>9 DEF SetRecipientBank, SaveBank
<1>10. ASSUME NEW c \in Client, RequestOrder(c) PROVE (OnePayerEach)'
  BY <1>10 DEF RequestOrder, HasPayer
<1>11. ASSUME NEW c \in Client, ReadRecipient(c) PROVE (OnePayerEach)'
  BY <1>11 DEF ReadRecipient, Complete
<1>12. ASSUME NEW c \in Client, SendOrder(c) PROVE (OnePayerEach)'
  BY <1>12 DEF SendOrder
<1>13. ASSUME NEW c \in Client, Fail(c) PROVE (OnePayerEach)'
  BY <1>13 DEF Fail
<1>14. CASE UNCHANGED vars
  BY <1>14 DEF vars
<1> QED
  BY <1>1, <1>2, <1>3, <1>4, <1>5, <1>6, <1>7, <1>8, <1>9,
     <1>10, <1>11, <1>12, <1>13, <1>14
  DEF Next

\* The number and the details of a bank account are written together.
LEMMA BankStep == TypeOK /\ Informed /\ Known /\ BankIsShown /\ [Next]_vars => (BankIsShown)'
<1> SUFFICES ASSUME TypeOK, Informed, Known, BankIsShown, [Next]_vars PROVE (BankIsShown)'
  OBVIOUS
<1> USE NoneAssumption DEF TypeOK, Informed, Known, BankAccount, Place, Idle, Begin, Goto, Finish, At, Answered, Refused, Fault, OrNone, rowVars, upayVars, BankIsShown
<1>1. ASSUME NEW c \in Client, RequestPayer(c) PROVE (BankIsShown)'
  BY <1>1 DEF RequestPayer, HasPayer
<1>2. ASSUME NEW c \in Client, AddPayer(c) PROVE (BankIsShown)'
  BY <1>2 DEF AddPayer, GivesPayer
<1>3. ASSUME NEW c \in Client, CreatePayoutPayer(c) PROVE (BankIsShown)'
  BY <1>3 DEF CreatePayoutPayer
<1>4. ASSUME NEW c \in Client, CreatePayoutRecipient(c) PROVE (BankIsShown)'
  <2>1. \A r \in Recipient : bank[r] # None => details[r] # None
    OBVIOUS
  <2>2. \A r \in Recipient : details[r] # None => details'[r] = details[r]
    BY <1>4 DEF CreatePayoutRecipient, CreateRow
  <2>3. UNCHANGED <<bank, upayBank>>
    BY <1>4 DEF CreatePayoutRecipient, CreateRow
  <2> QED
    BY <2>1, <2>2, <2>3
<1>5. ASSUME NEW c \in Client, AddBeneficiary(c) PROVE (BankIsShown)'
  BY <1>5 DEF AddBeneficiary, GivesBeneficiary
<1>6. ASSUME NEW c \in Client, SetRecipientBeneficiary(c) PROVE (BankIsShown)'
  BY <1>6 DEF SetRecipientBeneficiary, SaveBeneficiary
<1>7. ASSUME NEW c \in Client, RetryRecipientBank(c) PROVE (BankIsShown)'
  BY <1>7 DEF RetryRecipientBank
<1>8. ASSUME NEW c \in Client, AddBankAccount(c) PROVE (BankIsShown)'
  <2>1. \A a \in Account : upayBank[a] # None => upayBank'[a] = upayBank[a]
    BY <1>8 DEF AddBankAccount, GivesAccount
  <2>2. \A r \in Recipient : bank[r] # None => upayBank[bank[r]] # None
    OBVIOUS
  <2>3. UNCHANGED <<bank, details>>
    BY <1>8 DEF AddBankAccount, GivesAccount
  <2> QED
    BY <2>1, <2>2, <2>3
<1>9. ASSUME NEW c \in Client, SetRecipientBank(c) PROVE (BankIsShown)'
  BY <1>9 DEF SetRecipientBank, SaveBank
<1>10. ASSUME NEW c \in Client, RequestOrder(c) PROVE (BankIsShown)'
  BY <1>10 DEF RequestOrder, HasPayer
<1>11. ASSUME NEW c \in Client, ReadRecipient(c) PROVE (BankIsShown)'
  BY <1>11 DEF ReadRecipient, Complete
<1>12. ASSUME NEW c \in Client, SendOrder(c) PROVE (BankIsShown)'
  BY <1>12 DEF SendOrder
<1>13. ASSUME NEW c \in Client, Fail(c) PROVE (BankIsShown)'
  BY <1>13 DEF Fail
<1>14. CASE UNCHANGED vars
  BY <1>14 DEF vars
<1> QED
  BY <1>1, <1>2, <1>3, <1>4, <1>5, <1>6, <1>7, <1>8, <1>9,
     <1>10, <1>11, <1>12, <1>13, <1>14
  DEF Next

\* An order is sent with what was read, and that does not change.
LEMMA OrdersStep == TypeOK /\ Informed /\ Known /\ OrdersAreBacked /\ [Next]_vars => (OrdersAreBacked)'
<1> SUFFICES ASSUME TypeOK, Informed, Known, OrdersAreBacked, [Next]_vars PROVE (OrdersAreBacked)'
  OBVIOUS
<1> USE NoneAssumption DEF TypeOK, Informed, Known, BankAccount, Place, Idle, Begin, Goto, Finish, At, Answered, Refused, Fault, OrNone, rowVars, upayVars, OrdersAreBacked, Sent
<1>1. ASSUME NEW c \in Client, RequestPayer(c) PROVE (OrdersAreBacked)'
  BY <1>1 DEF RequestPayer, HasPayer
<1>2. ASSUME NEW c \in Client, AddPayer(c) PROVE (OrdersAreBacked)'
  BY <1>2 DEF AddPayer, GivesPayer
<1>3. ASSUME NEW c \in Client, CreatePayoutPayer(c) PROVE (OrdersAreBacked)'
  BY <1>3 DEF CreatePayoutPayer
<1>4. ASSUME NEW c \in Client, CreatePayoutRecipient(c) PROVE (OrdersAreBacked)'
  BY <1>4 DEF CreatePayoutRecipient, CreateRow
<1>5. ASSUME NEW c \in Client, AddBeneficiary(c) PROVE (OrdersAreBacked)'
  BY <1>5 DEF AddBeneficiary, GivesBeneficiary
<1>6. ASSUME NEW c \in Client, SetRecipientBeneficiary(c) PROVE (OrdersAreBacked)'
  BY <1>6 DEF SetRecipientBeneficiary, SaveBeneficiary
<1>7. ASSUME NEW c \in Client, RetryRecipientBank(c) PROVE (OrdersAreBacked)'
  BY <1>7 DEF RetryRecipientBank
<1>8. ASSUME NEW c \in Client, AddBankAccount(c) PROVE (OrdersAreBacked)'
  BY <1>8 DEF AddBankAccount, GivesAccount
<1>9. ASSUME NEW c \in Client, SetRecipientBank(c) PROVE (OrdersAreBacked)'
  BY <1>9 DEF SetRecipientBank, SaveBank
<1>10. ASSUME NEW c \in Client, RequestOrder(c) PROVE (OrdersAreBacked)'
  BY <1>10 DEF RequestOrder, HasPayer
<1>11. ASSUME NEW c \in Client, ReadRecipient(c) PROVE (OrdersAreBacked)'
  BY <1>11 DEF ReadRecipient, Complete
<1>12. ASSUME NEW c \in Client, SendOrder(c) PROVE (OrdersAreBacked)'
  <2>1. /\ payer # None /\ proc[c].no = payer /\ proc[c].r \in ben
        /\ upayBank[proc[c].a] # None /\ upayBank[proc[c].a].r = proc[c].r
    BY <1>12 DEF SendOrder
  <2>2. UNCHANGED <<payer, upayPayer, upayBank, upayBen>>
    BY <1>12 DEF SendOrder
  <2>3. \/ orders' = orders
        \/ orders' = orders \union {[payer |-> proc[c].no, r |-> proc[c].r, a |-> proc[c].a]}
    BY <1>12 DEF SendOrder
  <2>4. CASE orders' = orders
    BY <2>2, <2>4
  <2>5. CASE orders' = orders \union {[payer |-> proc[c].no, r |-> proc[c].r, a |-> proc[c].a]}
    BY <2>1, <2>2, <2>5
  <2> QED
    BY <2>3, <2>4, <2>5
<1>13. ASSUME NEW c \in Client, Fail(c) PROVE (OrdersAreBacked)'
  BY <1>13 DEF Fail
<1>14. CASE UNCHANGED vars
  BY <1>14 DEF vars
<1> QED
  BY <1>1, <1>2, <1>3, <1>4, <1>5, <1>6, <1>7, <1>8, <1>9,
     <1>10, <1>11, <1>12, <1>13, <1>14
  DEF Next

-------------------------------------------------------------------------------
(* Counting the payers that no row names.                                  *)

\* A set with at most one new element has at most one element more.
LEMMA OneMore ==
  ASSUME NEW S, NEW T, NEW x, IsFiniteSet(S), T \subseteq S \union {x}
  PROVE  /\ IsFiniteSet(T) /\ Cardinality(T) \in Nat /\ Cardinality(S) \in Nat
         /\ Cardinality(T) <= Cardinality(S) + 1
         /\ T \subseteq S => Cardinality(T) <= Cardinality(S)
<1>1. /\ IsFiniteSet(S \union {x}) /\ Cardinality(S) \in Nat
      /\ Cardinality(S \union {x}) \in Nat
      /\ Cardinality(S \union {x}) <= Cardinality(S) + 1
  BY FS_AddElement, FS_CardinalityType
<1>2. /\ IsFiniteSet(T) /\ Cardinality(T) \in Nat
      /\ Cardinality(T) <= Cardinality(S \union {x})
  BY <1>1, FS_Subset, FS_CardinalityType
<1>3. T \subseteq S => Cardinality(T) <= Cardinality(S)
  BY FS_Subset
<1> QED
  BY <1>1, <1>2, <1>3

\* The orphans and the requests after a payer are finitely many.
LEMMA CountsAreNumbers ==
  ASSUME Counted
  PROVE  /\ IsFiniteSet(Orphans) /\ Cardinality(Orphans) \in Nat
         /\ IsFiniteSet(Asking) /\ Cardinality(Asking) \in Nat
         /\ Cardinality(Client) \in Nat /\ Cardinality(Asking) <= Cardinality(Client)
         /\ Cardinality(Client) >= 1
<1>1. Orphans \subseteq upayPayer /\ IsFiniteSet(upayPayer)
  BY DEF Orphans, Counted
<1>2. IsFiniteSet(Orphans) /\ Cardinality(Orphans) \in Nat
  BY <1>1, FS_Subset, FS_CardinalityType
<1>3. Asking \subseteq Client /\ IsFiniteSet(Client) /\ Client # {}
  BY ClientAssumption DEF Asking
<1>4. /\ IsFiniteSet(Asking) /\ Cardinality(Asking) \in Nat
      /\ Cardinality(Client) \in Nat /\ Cardinality(Asking) <= Cardinality(Client)
  BY <1>3, FS_Subset, FS_CardinalityType
<1>5. Cardinality(Client) # 0
  BY <1>3, FS_EmptySet
<1> QED
  BY <1>2, <1>4, <1>5

\* A step that leaves no orphan behind keeps the count.
LEMMA CountKept ==
  ASSUME TypeOK, Counted, IsFiniteSet(upayPayer'), payer' = payer,
         Orphans' \subseteq Orphans, Asking' \subseteq Asking,
         faults' \in Nat, faults' >= faults
  PROVE  Counted'
<1>1. /\ Cardinality(Orphans') \in Nat /\ Cardinality(Orphans) \in Nat
      /\ Cardinality(Orphans') <= Cardinality(Orphans)
      /\ Cardinality(Asking') \in Nat /\ Cardinality(Asking) \in Nat
      /\ Cardinality(Asking') <= Cardinality(Asking) /\ Cardinality(Client) \in Nat
  BY CountsAreNumbers, OneMore
<1>2. faults \in Nat
  BY FaultAssumption DEF TypeOK
<1> QED
  BY <1>1, <1>2 DEF Counted

\* A goroutine that holds no payer, or the saved one, leaves no orphan.
LEMMA NoneLeft ==
  ASSUME TypeOK, NEW c \in Client, \A e \in Client : e # c => proc'[e] = proc[e],
         UNCHANGED <<upayPayer, payer>>,
         proc[c].no = None \/ proc[c].no = payer,
         proc'[c].pc \notin {"addPayer", "savePayer"}
  PROVE  Orphans' \subseteq Orphans /\ Asking' \subseteq Asking
<1>1. ASSUME NEW no \in Orphans' PROVE no \in Orphans
  <2>1. no \in upayPayer /\ no # payer /\ no \in Payer /\ no # None
    BY NoneAssumption DEF Orphans, TypeOK
  <2>2. \A e \in Client : proc'[e].no # no
    BY DEF Orphans
  <2>3. \A e \in Client : proc[e].no # no
    BY <2>1, <2>2
  <2> QED
    BY <2>1, <2>3 DEF Orphans
<1>2. ASSUME NEW e \in Asking' PROVE e \in Asking
  <2>1. e \in Client /\ proc'[e].pc \in {"addPayer", "savePayer"}
    BY DEF Asking
  <2> QED
    BY <2>1 DEF Asking
<1> QED
  BY <1>1, <1>2

\* A failure may leave one orphan behind.
LEMMA CountWithFault ==
  ASSUME TypeOK, Counted, NEW x, IsFiniteSet(upayPayer'), payer' = payer,
         Orphans' \subseteq Orphans \union {x}, Asking' \subseteq Asking,
         faults' = faults + 1
  PROVE  Counted'
<1>1. /\ Cardinality(Orphans') \in Nat /\ Cardinality(Orphans) \in Nat
      /\ Cardinality(Orphans') <= Cardinality(Orphans) + 1
      /\ Cardinality(Asking') \in Nat /\ Cardinality(Asking) \in Nat
      /\ Cardinality(Asking') <= Cardinality(Asking) /\ Cardinality(Client) \in Nat
  BY CountsAreNumbers, OneMore
<1>2. faults \in Nat
  BY FaultAssumption DEF TypeOK
<1> QED
  BY <1>1, <1>2 DEF Counted

\* Each orphan has its failure or its lost race.
LEMMA CountedStep == TypeOK /\ Informed /\ Counted /\ [Next]_vars => (Counted)'
<1> SUFFICES ASSUME TypeOK, Informed, Counted, [Next]_vars PROVE (Counted)'
  OBVIOUS
<1> USE NoneAssumption, FaultAssumption DEF TypeOK, Informed, Place, Idle, Begin, Goto, Finish, At, Answered, Refused, Fault, OrNone, rowVars, upayVars
<1>1. ASSUME NEW c \in Client, RequestPayer(c) PROVE (Counted)'
  <2>1. Orphans' \subseteq Orphans
    <3>1. /\ \A e \in Client : e # c => proc'[e] = proc[e]
          /\ UNCHANGED <<upayPayer, payer>> /\ proc[c].no = None
      BY <1>1 DEF RequestPayer, HasPayer
    <3> QED
      BY <3>1 DEF Orphans
  <2>2. Asking' \subseteq Asking \union {c}
    BY <1>1 DEF RequestPayer, HasPayer, Asking
  <2>3. /\ upayPayer' = upayPayer /\ payer' = payer /\ IsFiniteSet(upayPayer)
        /\ faults \in Nat
        /\ \/ payer = None /\ faults' = faults
           \/ faults' = faults + 1
    BY <1>1 DEF RequestPayer, HasPayer, Counted
  <2>4. /\ Cardinality(Orphans') \in Nat /\ Cardinality(Orphans) \in Nat
        /\ Cardinality(Orphans') <= Cardinality(Orphans)
        /\ Cardinality(Asking') \in Nat /\ Cardinality(Asking) \in Nat
        /\ Cardinality(Asking') <= Cardinality(Asking) + 1 /\ Cardinality(Client) \in Nat
    BY <2>1, <2>2, CountsAreNumbers, OneMore
  <2> QED
    BY <2>3, <2>4 DEF Counted
<1>2. ASSUME NEW c \in Client, AddPayer(c) PROVE (Counted)'
  <2>1. CASE Refused(c)
    <3>1. Orphans' \subseteq Orphans
      BY <1>2, <2>1 DEF AddPayer, Orphans, GivesPayer
    <3>2. Asking' \subseteq Asking
      BY <1>2, <2>1 DEF AddPayer, Asking, GivesPayer
    <3>3. /\ UNCHANGED <<upayPayer, payer, faults>> /\ IsFiniteSet(upayPayer')
          /\ faults' \in Nat /\ faults' >= faults
      BY <1>2, <2>1 DEF AddPayer, Counted, GivesPayer
    <3> QED
      BY <3>1, <3>2, <3>3, CountKept
  <2>2. ASSUME NEW no \in Payer \ upayPayer, upayPayer' = upayPayer \union {no},
               Answered(c, Place("savePayer", no, None, None, None)), payer' = payer
        PROVE  Counted'
    <3>1. IsFiniteSet(upayPayer')
      BY <2>2, FS_AddElement DEF Counted
    <3>2. Asking' \subseteq Asking
      BY <1>2, <2>2 DEF AddPayer, Asking, GivesPayer
    <3>3. CASE Goto(c, Place("savePayer", no, None, None, None)) /\ UNCHANGED faults
      <4>1. Orphans' \subseteq Orphans
        <5>1. proc'[c].no = no /\ \A e \in Client : e # c => proc'[e] = proc[e]
          BY <3>3
        <5>2. proc[c].no = None
          BY <1>2 DEF AddPayer, GivesPayer
        <5> QED
          BY <2>2, <5>1, <5>2 DEF Orphans
      <4>2. faults' \in Nat /\ faults' >= faults
        BY <3>3
      <4> QED
        BY <2>2, <3>1, <3>2, <4>1, <4>2, CountKept
    <3>4. CASE Finish(c) /\ Fault
      <4>1. Orphans' \subseteq Orphans \union {no}
        BY <1>2, <2>2, <3>4 DEF AddPayer, Orphans, GivesPayer
      <4>2. faults' = faults + 1
        BY <3>4
      <4> QED
        BY <2>2, <3>1, <3>2, <4>1, <4>2, CountWithFault
    <3> QED
      BY <2>2, <3>3, <3>4
  <2> QED
    BY <1>2, <2>1, <2>2 DEF AddPayer, GivesPayer
<1>3. ASSUME NEW c \in Client, CreatePayoutPayer(c) PROVE (Counted)'
  <2> DEFINE no == proc[c].no
  <2>1. /\ no \in Payer /\ no \in upayPayer /\ no # None /\ c \in Asking
        /\ UNCHANGED <<upayPayer, faults>> /\ IsFiniteSet(upayPayer')
        /\ proc' = [proc EXCEPT ![c] = Idle] /\ faults \in Nat
    <3>1. proc[c].pc = "savePayer" /\ UNCHANGED <<upayPayer, faults>>
      BY <1>3 DEF CreatePayoutPayer
    <3>2. no \in upayPayer /\ no \in Payer /\ no # None
      BY <3>1
    <3>3. c \in Asking
      BY <3>1 DEF Asking
    <3>4. proc' = [proc EXCEPT ![c] = Idle] /\ faults \in Nat
      BY <1>3 DEF CreatePayoutPayer
    <3> QED
      BY <3>1, <3>2, <3>3, <3>4 DEF Counted
  <2>2. Asking' \subseteq Asking \ {c}
    BY <2>1 DEF Asking
  <2>3. /\ Cardinality(Asking') \in Nat /\ Cardinality(Asking') <= Cardinality(Asking) - 1
        /\ Cardinality(Asking) \in Nat /\ Cardinality(Asking) <= Cardinality(Client)
        /\ Cardinality(Client) \in Nat
    <3>1. /\ IsFiniteSet(Asking \ {c})
          /\ Cardinality(Asking \ {c}) = Cardinality(Asking) - 1
      BY <2>1, CountsAreNumbers, FS_RemoveElement
    <3> QED
      BY <2>2, <3>1, CountsAreNumbers, FS_Subset, FS_CardinalityType
  <2>4. CASE payer = None
    <3>1. payer' = no
      BY <1>3, <2>4 DEF CreatePayoutPayer
    <3>2. Orphans' \subseteq Orphans
      BY <2>1, <2>4, <3>1 DEF Orphans
    <3>3. /\ Cardinality(Orphans') \in Nat /\ Cardinality(Orphans) \in Nat
          /\ Cardinality(Orphans') <= Cardinality(Orphans)
      BY <3>2, CountsAreNumbers, OneMore
    <3> QED
      BY <2>1, <2>3, <2>4, <3>1, <3>3 DEF Counted
  <2>5. CASE payer # None
    <3>1. payer' = payer
      BY <1>3, <2>5 DEF CreatePayoutPayer
    <3>2. Orphans' \subseteq Orphans \union {no}
      BY <2>1, <3>1 DEF Orphans
    <3>3. /\ Cardinality(Orphans') \in Nat /\ Cardinality(Orphans) \in Nat
          /\ Cardinality(Orphans') <= Cardinality(Orphans) + 1
      BY <3>2, CountsAreNumbers, OneMore
    <3> QED
      BY <2>1, <2>3, <2>5, <3>1, <3>3 DEF Counted
  <2> QED
    BY <2>4, <2>5
<1>4. ASSUME NEW c \in Client, CreatePayoutRecipient(c) PROVE (Counted)'
  <2>1. /\ \A e \in Client : e # c => proc'[e] = proc[e]
        /\ UNCHANGED <<upayPayer, payer>>
        /\ faults' \in Nat /\ faults' >= faults
    BY <1>4 DEF CreatePayoutRecipient, CreateRow
  <2>2. proc[c].pc = "idle"
    BY <1>4 DEF CreatePayoutRecipient, CreateRow
  <2>3. proc[c].no = None \/ proc[c].no = payer
    BY <2>2
  <2>4. proc'[c].pc \in {"idle", "addBen"}
    BY <1>4 DEF CreatePayoutRecipient, CreateRow
  <2> QED
    BY <2>1, <2>3, <2>4, NoneLeft, CountKept DEF Counted
<1>5. ASSUME NEW c \in Client, AddBeneficiary(c) PROVE (Counted)'
  <2>1. /\ \A e \in Client : e # c => proc'[e] = proc[e]
        /\ UNCHANGED <<upayPayer, payer>>
        /\ faults' \in Nat /\ faults' >= faults
    BY <1>5 DEF AddBeneficiary, GivesBeneficiary
  <2>2. proc[c].pc = "addBen"
    BY <1>5 DEF AddBeneficiary, GivesBeneficiary
  <2>3. proc[c].no = None \/ proc[c].no = payer
    BY <2>2
  <2>4. proc'[c].pc \in {"idle", "saveBen"}
    BY <1>5 DEF AddBeneficiary, GivesBeneficiary
  <2> QED
    BY <2>1, <2>3, <2>4, NoneLeft, CountKept DEF Counted
<1>6. ASSUME NEW c \in Client, SetRecipientBeneficiary(c) PROVE (Counted)'
  <2>1. /\ \A e \in Client : e # c => proc'[e] = proc[e]
        /\ UNCHANGED <<upayPayer, payer>>
        /\ faults' \in Nat /\ faults' >= faults
    BY <1>6 DEF SetRecipientBeneficiary, SaveBeneficiary
  <2>2. proc[c].pc = "saveBen"
    BY <1>6 DEF SetRecipientBeneficiary, SaveBeneficiary
  <2>3. proc[c].no = None \/ proc[c].no = payer
    BY <2>2
  <2>4. proc'[c].pc \in {"idle", "addBank"}
    BY <1>6 DEF SetRecipientBeneficiary, SaveBeneficiary
  <2> QED
    BY <2>1, <2>3, <2>4, NoneLeft, CountKept DEF Counted
<1>7. ASSUME NEW c \in Client, RetryRecipientBank(c) PROVE (Counted)'
  <2>1. /\ \A e \in Client : e # c => proc'[e] = proc[e]
        /\ UNCHANGED <<upayPayer, payer>>
        /\ faults' \in Nat /\ faults' >= faults
    BY <1>7 DEF RetryRecipientBank
  <2>2. proc[c].pc = "idle"
    BY <1>7 DEF RetryRecipientBank
  <2>3. proc[c].no = None \/ proc[c].no = payer
    BY <2>2
  <2>4. proc'[c].pc \in {"idle", "addBank"}
    BY <1>7 DEF RetryRecipientBank
  <2> QED
    BY <2>1, <2>3, <2>4, NoneLeft, CountKept DEF Counted
<1>8. ASSUME NEW c \in Client, AddBankAccount(c) PROVE (Counted)'
  <2>1. /\ \A e \in Client : e # c => proc'[e] = proc[e]
        /\ UNCHANGED <<upayPayer, payer>>
        /\ faults' \in Nat /\ faults' >= faults
    BY <1>8 DEF AddBankAccount, GivesAccount
  <2>2. proc[c].pc = "addBank"
    BY <1>8 DEF AddBankAccount, GivesAccount
  <2>3. proc[c].no = None \/ proc[c].no = payer
    BY <2>2
  <2>4. proc'[c].pc \in {"idle", "saveBank"}
    BY <1>8 DEF AddBankAccount, GivesAccount
  <2> QED
    BY <2>1, <2>3, <2>4, NoneLeft, CountKept DEF Counted
<1>9. ASSUME NEW c \in Client, SetRecipientBank(c) PROVE (Counted)'
  <2>1. /\ \A e \in Client : e # c => proc'[e] = proc[e]
        /\ UNCHANGED <<upayPayer, payer>>
        /\ faults' \in Nat /\ faults' >= faults
    BY <1>9 DEF SetRecipientBank, SaveBank
  <2>2. proc[c].pc = "saveBank"
    BY <1>9 DEF SetRecipientBank, SaveBank
  <2>3. proc[c].no = None \/ proc[c].no = payer
    BY <2>2
  <2>4. proc'[c].pc \in {"idle", "idle"}
    BY <1>9 DEF SetRecipientBank, SaveBank
  <2> QED
    BY <2>1, <2>3, <2>4, NoneLeft, CountKept DEF Counted
<1>10. ASSUME NEW c \in Client, RequestOrder(c) PROVE (Counted)'
  <2>1. /\ \A e \in Client : e # c => proc'[e] = proc[e]
        /\ UNCHANGED <<upayPayer, payer>>
        /\ faults' \in Nat /\ faults' >= faults
    BY <1>10 DEF RequestOrder, HasPayer
  <2>2. proc[c].pc = "idle"
    BY <1>10 DEF RequestOrder, HasPayer
  <2>3. proc[c].no = None \/ proc[c].no = payer
    BY <2>2
  <2>4. proc'[c].pc \in {"idle", "readRecipient"}
    BY <1>10 DEF RequestOrder, HasPayer
  <2> QED
    BY <2>1, <2>3, <2>4, NoneLeft, CountKept DEF Counted
<1>11. ASSUME NEW c \in Client, ReadRecipient(c) PROVE (Counted)'
  <2>1. /\ \A e \in Client : e # c => proc'[e] = proc[e]
        /\ UNCHANGED <<upayPayer, payer>>
        /\ faults' \in Nat /\ faults' >= faults
    BY <1>11 DEF ReadRecipient, Complete
  <2>2. proc[c].pc = "readRecipient"
    BY <1>11 DEF ReadRecipient
  <2>3. proc[c].no = None \/ proc[c].no = payer
    BY <2>2
  <2>4. proc'[c].pc \in {"idle", "send"}
    BY <1>11 DEF ReadRecipient, Complete
  <2> QED
    BY <2>1, <2>3, <2>4, NoneLeft, CountKept DEF Counted
<1>12. ASSUME NEW c \in Client, SendOrder(c) PROVE (Counted)'
  <2>1. /\ \A e \in Client : e # c => proc'[e] = proc[e]
        /\ UNCHANGED <<upayPayer, payer>>
        /\ faults' \in Nat /\ faults' >= faults
    BY <1>12 DEF SendOrder
  <2>2. proc[c].pc = "send"
    BY <1>12 DEF SendOrder
  <2>3. proc[c].no = None \/ proc[c].no = payer
    BY <2>2
  <2>4. proc'[c].pc \in {"idle", "idle"}
    BY <1>12 DEF SendOrder
  <2> QED
    BY <2>1, <2>3, <2>4, NoneLeft, CountKept DEF Counted
<1>13. ASSUME NEW c \in Client, Fail(c) PROVE (Counted)'
  <2>1. Orphans' \subseteq Orphans \union {proc[c].no}
    BY <1>13 DEF Fail, Orphans
  <2>2. Asking' \subseteq Asking
    BY <1>13 DEF Fail, Asking
  <2>3. upayPayer' = upayPayer /\ payer' = payer /\ faults' = faults + 1
    BY <1>13 DEF Fail
  <2>4. IsFiniteSet(upayPayer')
    BY <2>3 DEF Counted
  <2> QED
    BY <2>1, <2>2, <2>3, <2>4, CountWithFault
<1>14. CASE UNCHANGED vars
  BY <1>14, CountKept DEF vars, Counted, Orphans, Asking
<1> QED
  BY <1>1, <1>2, <1>3, <1>4, <1>5, <1>6, <1>7, <1>8, <1>9,
     <1>10, <1>11, <1>12, <1>13, <1>14
  DEF Next

-------------------------------------------------------------------------------
\* The inductive invariant holds of every state.
THEOREM Invariance == Spec => []IInv
<1>1. Init => IInv
  <2> SUFFICES ASSUME Init PROVE IInv
    OBVIOUS
  <2>1. TypeOK /\ Known /\ Informed /\ OnePayerEach /\ BankIsShown /\ OrdersAreBacked
    BY NoneAssumption, FaultAssumption
    DEF Init, TypeOK, Known, Informed, OnePayerEach, BankIsShown, OrdersAreBacked,
        Label, Idle, Place, OrNone, BankAccount, Sent
  <2>2. Orphans = {} /\ upayPayer = {} /\ payer = None /\ faults = 0
    BY DEF Init, Orphans
  <2>3. Counted
    BY <2>2, FS_EmptySet DEF Counted
  <2> QED
    BY <2>1, <2>3 DEF IInv
<1>2. IInv /\ [Next]_vars => IInv'
  BY TypeStep, KnownStep, InformedStep, OnePayerEachStep, CountedStep, BankStep,
     OrdersStep
  DEF IInv
<1> QED
  BY <1>1, <1>2, PTL DEF Spec

\* The variables keep their types for any numbers of requests and failures.
THEOREM TypeCorrect == Spec => []TypeOK
<1>1. IInv => TypeOK
  BY DEF IInv
<1> QED
  BY <1>1, Invariance, PTL

\* The bank details a member is shown are those of the account UPay pays into.
THEOREM BankShown == Spec => []BankIsShown
<1>1. IInv => BankIsShown
  BY DEF IInv
<1> QED
  BY <1>1, Invariance, PTL

\* An order goes out under the saved payer, to its own recipient's account.
THEOREM OrdersBacked == Spec => []OrdersAreBacked
<1>1. IInv => OrdersAreBacked
  BY DEF IInv
<1> QED
  BY <1>1, Invariance, PTL

\* Payers left at UPay are bounded by the other requests and the failures.
THEOREM OrphansExplained == Spec => []OrphansAreExplained
<1>1. ASSUME IInv PROVE OrphansAreExplained
  <2>1. /\ Cardinality(Orphans) \in Nat /\ Cardinality(Asking) \in Nat
        /\ Cardinality(Client) \in Nat /\ Cardinality(Client) >= 1
    BY <1>1, CountsAreNumbers DEF IInv
  <2>2. faults \in Nat
    BY <1>1, FaultAssumption DEF IInv, TypeOK
  <2>3. Counted
    BY <1>1 DEF IInv
  <2>4. CASE payer = None
    BY <2>1, <2>2, <2>3, <2>4 DEF Counted, OrphansAreExplained
  <2>5. CASE payer # None
    BY <2>1, <2>2, <2>3, <2>5 DEF Counted, OrphansAreExplained
  <2> QED
    BY <2>4, <2>5
<1>2. IInv => OrphansAreExplained
  BY <1>1
<1> QED
  BY <1>2, Invariance, PTL
===============================================================================
