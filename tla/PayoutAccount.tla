---------------------------- MODULE PayoutAccount ----------------------------
(***************************************************************************)
(* What a member sets up before sending money, in service/payout.go over   *)
(* repo/payout.go and UPay: the payer, the recipients (a beneficiary and   *)
(* then a bank account), and the payer and bank account that CreateOrder   *)
(* hands to UPay.                                                          *)
(*                                                                         *)
(* A step is one database statement or one UPay call.  A call is refused,  *)
(* answered, or carried out with its answer lost.  A stopped server is     *)
(* every goroutine failing: nothing else of it is in memory.               *)
(*                                                                         *)
(* Abstracted: forms and their validation, last_error, the order's own row *)
(* (PayoutOrders); the beneficiary of a recipient is the recipient; what   *)
(* is shown of a bank account (name, SWIFT, last four digits) is Details.  *)
(***************************************************************************)
EXTENDS Naturals, FiniteSets

CONSTANTS
  Payer,     \* payer numbers UPay may give out
  Recipient, \* ids of payout_recipients rows
  Account,   \* bank account numbers UPay may give out
  Details,   \* bank sections a member may submit
  Client,    \* goroutines serving the member's requests
  None,      \* a number that is NULL, no row
  MaxFaults  \* bound on failed statements, lost answers and stops

ASSUME ClientAssumption == IsFiniteSet(Client) /\ Client # {}
ASSUME NoneAssumption ==
  None \notin Payer \union Recipient \union Account \union Details
             \union [r : Recipient, d : Details]
ASSUME FaultAssumption == MaxFaults \in Nat

VARIABLES
  payer,     \* payout_payers.payer_no
  ben,       \* recipients whose beneficiary_no is stored
  bank,      \* payout_recipients.bank_account_no
  details,   \* the row's bank details; None before there is a row
  upayPayer, \* payers at UPay
  upayBen,   \* recipients with a beneficiary at UPay
  upayBank,  \* bank accounts at UPay: the beneficiary and the details
  orders,    \* orders sent to UPay: payer, recipient and bank account
  proc,      \* what each goroutine is at, with what it has read or been told
  faults     \* failures so far

rowVars == <<payer, ben, bank, details>>
upayVars == <<upayPayer, upayBen, upayBank, orders>>
vars == <<rowVars, upayVars, proc, faults>>

Label == {"idle", "addPayer", "savePayer", "addBen", "saveBen",
          "addBank", "saveBank", "readRecipient", "send"}
OrNone(S) == S \union {None}
\* no: a payer number; r, d: a recipient and bank details; a: a bank account
Place(label, no, r, d, a) == [pc |-> label, no |-> no, r |-> r, d |-> d, a |-> a]
Idle == Place("idle", None, None, None, None)
BankAccount == [r : Recipient, d : Details]
Sent == [payer : Payer, r : Recipient, a : Account]

TypeOK ==
  /\ payer \in OrNone(Payer)
  /\ ben \subseteq Recipient
  /\ bank \in [Recipient -> OrNone(Account)]
  /\ details \in [Recipient -> OrNone(Details)]
  /\ upayPayer \subseteq Payer
  /\ upayBen \subseteq Recipient
  /\ upayBank \in [Account -> OrNone(BankAccount)]
  /\ orders \subseteq Sent
  /\ proc \in [Client -> [pc : Label, no : OrNone(Payer), r : OrNone(Recipient),
                          d : OrNone(Details), a : OrNone(Account)]]
  /\ faults \in 0 .. MaxFaults

Init ==
  /\ payer = None /\ ben = {}
  /\ bank = [r \in Recipient |-> None]
  /\ details = [r \in Recipient |-> None]
  /\ upayPayer = {} /\ upayBen = {} /\ orders = {}
  /\ upayBank = [a \in Account |-> None]
  /\ proc = [c \in Client |-> Idle]
  /\ faults = 0

Fault == faults < MaxFaults /\ faults' = faults + 1
At(c, label) == proc[c].pc = label
Begin(c, place) == At(c, "idle") /\ proc' = [proc EXCEPT ![c] = place]
Goto(c, place) == proc' = [proc EXCEPT ![c] = place]
Finish(c) == proc' = [proc EXCEPT ![c] = Idle]
\* UPay carried the call out: the goroutine goes on, or the answer is lost.
Answered(c, place) ==
  \/ Goto(c, place) /\ UNCHANGED faults
  \/ Finish(c) /\ Fault
\* UPay refused the call: the error is returned and nothing was created.
Refused(c) == Finish(c) /\ UNCHANGED <<upayVars, faults>>
-------------------------------------------------------------------------------
(* The payer                                                               *)

\* AddPayer, AddBeneficiary and AddBankAccount of UPay, carried out
GivesPayer(no) ==
  /\ no \notin upayPayer
  /\ upayPayer' = upayPayer \union {no}
  /\ UNCHANGED <<upayBen, upayBank, orders>>
GivesBeneficiary(r) ==
  /\ upayBen' = upayBen \union {r}
  /\ UNCHANGED <<upayPayer, upayBank, orders>>
GivesAccount(a, r, d) ==
  /\ upayBank[a] = None
  /\ upayBank' = [upayBank EXCEPT ![a] = [r |-> r, d |-> d]]
  /\ UNCHANGED <<upayPayer, upayBen, orders>>

\* GetPayoutPayer finds a row.
HasPayer == payer # None

\* Mutant of RequestPayer: the saved payer is not looked for.
RequestsAnyway(c) ==
  /\ Begin(c, Place("addPayer", None, None, None, None))
  /\ UNCHANGED <<rowVars, upayVars, faults>>

\* CreatePayer goes on unless it reads a payer: a failed read goes on as well.
RequestPayer(c) ==
  /\ Begin(c, Place("addPayer", None, None, None, None))
  /\ \/ ~HasPayer /\ UNCHANGED faults
     \/ Fault
  /\ UNCHANGED <<rowVars, upayVars>>

AddPayer(c) ==
  /\ At(c, "addPayer")
  /\ \/ Refused(c)
     \/ \E no \in Payer :
          /\ GivesPayer(no)
          /\ Answered(c, Place("savePayer", no, None, None, None))
  /\ UNCHANGED rowVars

\* Mutant of CreatePayoutPayer: the row is written over on a conflict.
Upserts(c) ==
  /\ At(c, "savePayer")
  /\ payer' = proc[c].no
  /\ Finish(c)
  /\ UNCHANGED <<ben, bank, details, upayVars, faults>>

\* user_id is the primary key: a second insert fails and the first row stays.
CreatePayoutPayer(c) ==
  /\ At(c, "savePayer")
  /\ payer' = IF payer = None THEN proc[c].no ELSE payer
  /\ Finish(c)
  /\ UNCHANGED <<ben, bank, details, upayVars, faults>>
-------------------------------------------------------------------------------
(* Recipients: step 1 makes the beneficiary, step 2 the bank account       *)

\* The columns each of the three statements on payout_recipients writes
CreateRow(r, d) == details[r] = None /\ details' = [details EXCEPT ![r] = d]
SaveBeneficiary(r) == ben' = ben \union {r}
SaveBank(r, a, d) ==
  /\ bank' = [bank EXCEPT ![r] = a]
  /\ details' = [details EXCEPT ![r] = d]

CreatePayoutRecipient(c) ==
  /\ \E r \in Recipient, d \in Details :
       /\ CreateRow(r, d)
       /\ Begin(c, Place("addBen", None, r, d, None))
  /\ UNCHANGED <<payer, ben, bank, upayVars, faults>>

AddBeneficiary(c) ==
  /\ At(c, "addBen")
  /\ LET p == proc[c] IN
       \/ Refused(c)
       \/ /\ GivesBeneficiary(p.r)
          /\ Answered(c, Place("saveBen", None, p.r, p.d, None))
  /\ UNCHANGED rowVars

SetRecipientBeneficiary(c) ==
  /\ At(c, "saveBen")
  /\ SaveBeneficiary(proc[c].r)
  /\ Goto(c, Place("addBank", None, proc[c].r, proc[c].d, None))
  /\ UNCHANGED <<payer, bank, details, upayVars, faults>>

\* A row without a beneficiary is refused, a complete one is answered as it is.
RetryRecipientBank(c) ==
  /\ \E r \in ben, d \in Details :
       /\ bank[r] = None
       /\ Begin(c, Place("addBank", None, r, d, None))
  /\ UNCHANGED <<rowVars, upayVars, faults>>

AddBankAccount(c) ==
  /\ At(c, "addBank")
  /\ LET p == proc[c] IN
       \/ Refused(c)
       \/ \E a \in Account :
            /\ GivesAccount(a, p.r, p.d)
            /\ Answered(c, Place("saveBank", None, p.r, p.d, a))
  /\ UNCHANGED rowVars

\* Mutant of SetRecipientBank: the details keep what step 1 stored.
SavesNumberOnly(c) ==
  /\ At(c, "saveBank")
  /\ bank' = [bank EXCEPT ![proc[c].r] = proc[c].a]
  /\ Finish(c)
  /\ UNCHANGED <<payer, ben, details, upayVars, faults>>

\* Unguarded: of two retries the last one to write is the one that is kept.
SetRecipientBank(c) ==
  /\ At(c, "saveBank")
  /\ SaveBank(proc[c].r, proc[c].a, proc[c].d)
  /\ Finish(c)
  /\ UNCHANGED <<payer, ben, upayVars, faults>>
-------------------------------------------------------------------------------
(* CreateOrder: the payer is read, then the recipient, then UPay is called *)

RequestOrder(c) ==
  /\ HasPayer
  /\ \E r \in Recipient : Begin(c, Place("readRecipient", payer, r, None, None))
  /\ UNCHANGED <<rowVars, upayVars, faults>>

\* Mutant of Complete: the beneficiary is enough.
HasBeneficiary(r) == r \in ben

Complete(r) == r \in ben /\ bank[r] # None

ReadRecipient(c) ==
  /\ At(c, "readRecipient")
  /\ LET p == proc[c] IN
       IF Complete(p.r) THEN Goto(c, Place("send", p.no, p.r, None, bank[p.r]))
       ELSE Finish(c)
  /\ UNCHANGED <<rowVars, upayVars, faults>>

SendOrder(c) ==
  /\ At(c, "send")
  /\ LET p == proc[c] IN
       \/ UNCHANGED orders
       \/ orders' = orders \union {[payer |-> p.no, r |-> p.r, a |-> p.a]}
  /\ Finish(c)
  /\ UNCHANGED <<rowVars, upayPayer, upayBen, upayBank, faults>>
-------------------------------------------------------------------------------
\* A goroutine ends in an error of the database, or with the server.
Fail(c) ==
  /\ ~At(c, "idle")
  /\ Fault
  /\ Finish(c)
  /\ UNCHANGED <<rowVars, upayVars>>

Next ==
  \E c \in Client :
    \/ RequestPayer(c) \/ AddPayer(c) \/ CreatePayoutPayer(c)
    \/ CreatePayoutRecipient(c) \/ AddBeneficiary(c) \/ SetRecipientBeneficiary(c)
    \/ RetryRecipientBank(c) \/ AddBankAccount(c) \/ SetRecipientBank(c)
    \/ RequestOrder(c) \/ ReadRecipient(c) \/ SendOrder(c)
    \/ Fail(c)

Spec == Init /\ [][Next]_vars
-------------------------------------------------------------------------------
(* Properties                                                              *)

\* The bank account a recipient's row names is one of its own beneficiary at
\* UPay, and the details shown to the member are that account's, whichever of
\* several retries with other details wrote last (service/payout.go:514-529).
BankIsShown ==
  \A r \in Recipient :
    bank[r] # None => upayBank[bank[r]] = [r |-> r, d |-> details[r]]

\* Every order goes out under the member's one saved payer, to an account of
\* the recipient's own beneficiary: neither request that raced to save a payer,
\* nor a retry between the reads and the call, mixes them
\* (service/payout.go:620-660).
OrdersAreBacked ==
  \A o \in orders :
    /\ o.payer = payer /\ payer \in upayPayer
    /\ upayBank[o.a] # None /\ upayBank[o.a].r = o.r
    /\ o.r \in upayBen

\* A payer stays at UPay that no row names only if its request lost the race to
\* the saved one, or failed (service/payout.go:369, 384-387 "UPay already has
\* the payer"): at most one for each other goroutine and one for each failure.
Orphans ==
  {no \in upayPayer : no # payer /\ \A c \in Client : proc[c].no # no}
OrphansAreExplained ==
  Cardinality(Orphans) + 1 <= Cardinality(Client) + faults
===============================================================================
