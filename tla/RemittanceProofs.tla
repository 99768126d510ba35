---------------------------- MODULE RemittanceProofs ----------------------------
(***************************************************************************)
(* PayoutOrders implements Remittance, for every set of orders and         *)
(* goroutines.  On top of the invariants of PayoutOrdersProofs and         *)
(* PayoutRowsProofs this needs what UPay's order says about its money.     *)
(* Nothing here depends on UPay refusing a confirmation: an order that was *)
(* paid may be confirmed and paid once more.                               *)
(***************************************************************************)
EXTENDS PayoutRowsProofs

(* A quote that holds has a number; the money was taken exactly if the     *)
(* order has come as far as PROCESSING; an order with a past was created.  *)
Money(o) ==
  /\ upay[o].valid => upay[o].quote # 0
  /\ upay[o].taken # 0 <=> \E st \in Paid : st \in hist[o]
  /\ hist[o] # {} => "QUOTING" \in hist[o]

MInv == \A o \in Order : Money(o)

FInv == IInv /\ RInv /\ UnattachedIsUntouched /\ MInv
-------------------------------------------------------------------------------
(* Lemmas                                                                  *)

\* With UPay's orders as they are, their money is.
LEMMA MoneyUntouched ==
  ASSUME MInv, UNCHANGED <<upay, hist>>
  PROVE  MInv' /\ UNCHANGED <<Takings, Ordered>>
BY DEF MInv, Money, Takings, Ordered

\* Only a goroutine at its call to UPay's confirm has a mandate.
LEMMA MandatesKept ==
  ASSUME FInv, NEW p \in Proc,
         \/ InsertOrder(p) \/ AttachOrderNo(p) \/ SetConfirmed(p) \/ RecordQuote(p)
         \/ ApplyAnswer(p) \/ StoreInfo(p) \/ CancelOrder(p) \/ CreateOrder(p)
  PROVE  UNCHANGED Mandates
<1>1. proc \in [Proc -> PlaceType]
  BY Parts DEF FInv, IInv
<1>2. /\ proc[p].pc # "confirm" /\ proc'[p].pc # "confirm"
      /\ \A q \in Proc \ {p} : proc'[q] = proc[q]
  BY <1>1 DEF InsertOrder, AttachOrderNo, SetConfirmed, RecordQuote, ApplyAnswer,
              StoreInfo, CancelOrder, CreateOrder, Begin, Goto, Finish, Place, Idle
<1>. QED BY <1>2 DEF Mandates

\* A step after which no goroutine is newly at that call, and that leaves UPay
\* and the page alone, at most gives mandates up.
LEMMA Forgotten ==
  ASSUME FInv, UNCHANGED <<row, attached, confirmed, agreed, upay, hist>>,
         \A q \in Proc : proc'[q] = proc[q] \/ proc'[q].pc # "confirm"
  PROVE  MInv' /\ [R!Next]_R!vars
<1>1. MInv' /\ UNCHANGED <<Takings, Ordered>>
  BY MoneyUntouched DEF FInv
<1>. DEFINE left == {q \in Proc : proc'[q] = proc[q]}
<1>2. Mandates' = [q \in Proc |-> IF q \in left THEN Mandates[q] ELSE {}]
  BY DEF Mandates
<1>3. left \in SUBSET Proc
  OBVIOUS
<1>. HIDE DEF left
<1>4. R!Forget
  BY <1>1, <1>2, <1>3 DEF R!Forget, R!pageVars
<1>. QED BY <1>1, <1>4 DEF R!Next

\* A step of UPay's order that says about its money what its new status says.
LEMMA MoneyMoves ==
  ASSUME FInv, NEW o \in Order, NEW st, NEW quote, NEW valid, NEW taken,
         Becomes(o, st, quote, valid, taken),
         valid => quote # 0,
         hist[o] # {} \/ st = "QUOTING",
         taken # 0 <=> (st \in Paid \/ \E s \in Paid : s \in hist[o])
  PROVE  /\ MInv'
         /\ Takings' = [Takings EXCEPT ![o] = taken]
         /\ taken = upay[o].taken => UNCHANGED Takings
         /\ Ordered' = [Ordered EXCEPT ![o] = IF st = "CONFIRMED" THEN quote ELSE 0]
         /\ st # "CONFIRMED" /\ upay[o].st # "CONFIRMED" => UNCHANGED Ordered
         /\ st = upay[o].st /\ quote = upay[o].quote => UNCHANGED Ordered
<1>1. upay \in [Order -> UpayType] /\ hist \in [Order -> SUBSET Status]
  BY Parts DEF FInv, IInv
<1>. DEFINE u == [st |-> st, quote |-> quote, valid |-> valid, taken |-> taken]
<1>2. upay' = [upay EXCEPT ![o] = u] /\ hist' = [hist EXCEPT ![o] = @ \union {st}]
  BY DEF Becomes
<1>3. /\ u.st = st /\ u.quote = quote /\ u.valid = valid /\ u.taken = taken
  OBVIOUS
<1>. HIDE DEF u
<1>4. /\ upay'[o] = u /\ hist'[o] = hist[o] \union {st}
      /\ \A x \in Order \ {o} : upay'[x] = upay[x] /\ hist'[x] = hist[x]
  BY <1>1, <1>2
<1>5. Money(o)'
  BY <1>3, <1>4 DEF Money, FInv, MInv
<1>6. ASSUME NEW x \in Order \ {o} PROVE Money(x)'
  BY <1>4 DEF Money, FInv, MInv
<1>7. Takings' = [Takings EXCEPT ![o] = taken]
  BY <1>3, <1>4 DEF Takings
<1>8. taken = upay[o].taken => UNCHANGED Takings
  BY <1>7 DEF Takings
<1>9. Ordered' = [Ordered EXCEPT ![o] = IF st = "CONFIRMED" THEN quote ELSE 0]
  BY <1>3, <1>4 DEF Ordered
<1>10. /\ st # "CONFIRMED" /\ upay[o].st # "CONFIRMED" => UNCHANGED Ordered
       /\ st = upay[o].st /\ quote = upay[o].quote => UNCHANGED Ordered
  BY <1>3, <1>4 DEF Ordered
<1>. QED BY <1>5, <1>6, <1>7, <1>8, <1>9, <1>10 DEF MInv

\* An order nobody can follow has cost nothing yet.
LEMMA UnknownIsFree ==
  ASSUME FInv, NEW o \in Order, o \notin attached
  PROVE  /\ upay[o].taken = 0 /\ \A s \in Paid : s \notin hist[o]
         /\ "CONFIRMED" \notin hist[o]
BY DEF FInv, UnattachedIsUntouched, MInv, Money, Paid

\* UPay advances an order on its own, its money as it is.
LEMMA Advances ==
  ASSUME FInv, NEW o \in Order, NEW st, NEW quote, NEW valid,
         Becomes(o, st, quote, valid, upay[o].taken),
         upay[o].st \in hist[o], <<upay[o].st, st>> \in R!Follows,
         upay[o].st \in Paid <=> st \in Paid,
         st # "CONFIRMED", upay[o].st # "CONFIRMED",
         valid => quote # 0,
         UNCHANGED <<row, attached, confirmed, proc, agreed>>
  PROVE  MInv' /\ R!Next
<1>1. Money(o)
  BY DEF FInv, MInv
<1>2. MInv' /\ UNCHANGED <<Takings, Ordered>>
  BY <1>1, MoneyMoves DEF Money
<1>3. R!Advance(o, st)
  BY <1>2 DEF R!Advance, R!Happens, R!pageVars, R!moneyVars, Becomes, Mandates
<1>4. st \in {pair[2] : pair \in R!Follows}
  <2>1. <<upay[o].st, st>>[2] = st
    OBVIOUS
  <2>. QED BY <2>1
<1>. QED BY <1>2, <1>3, <1>4 DEF R!Next

\* UPay drops an order: there is nothing to work off any more.
LEMMA Drops ==
  ASSUME FInv, NEW o \in attached, o \in Order, NEW quote, NEW valid,
         NEW st \in {"CANCELED", "REQUOTED", "QUOTEFAILED"},
         Becomes(o, st, quote, valid, upay[o].taken),
         st = "CANCELED" \/ "CONFIRMED" \in hist[o],
         valid => quote # 0, hist[o] # {},
         UNCHANGED <<row, attached, confirmed, Mandates, agreed>>
  PROVE  MInv' /\ R!Next
<1>1. Money(o) /\ st \notin Paid /\ st # "CONFIRMED"
  BY DEF FInv, MInv, Paid
<1>2. /\ MInv' /\ UNCHANGED Takings
      /\ Ordered' = [Ordered EXCEPT ![o] = IF st = "CONFIRMED" THEN quote ELSE 0]
  BY <1>1, MoneyMoves DEF Money
<1>3. Ordered' = [Ordered EXCEPT ![o] = 0]
  BY <1>1, <1>2
<1>4. R!Drop(o, st)
  BY <1>2, <1>3 DEF R!Drop, R!Happens, R!pageVars, Becomes
<1>. QED BY <1>2, <1>4 DEF R!Next
-------------------------------------------------------------------------------
(* Every step is one of Remittance, or none                                *)

LEMMA UpayStepPromised ==
  ASSUME FInv, NEW o \in Order, UpayStep(o)
  PROVE  MInv' /\ [R!Next]_R!vars
<1>. DEFINE u == upay[o]
<1>1. UNCHANGED <<row, attached, confirmed, proc, agreed, Mandates>>
  BY DEF UpayStep, dbVars, Mandates
<1>2. Truthful(o) /\ Money(o) /\ UpayKeeps(o, u, agreed)
  BY DEF FInv, RInv, AllBacked, MInv, IInv, UpayOrders
<1>3. u.st \in Status /\ u.quote \in Quote /\ u.taken \in Quote
  BY UpayFields DEF FInv, IInv
<1>4. u.st # "NONE" => u.st \in hist[o]
  BY <1>2 DEF Truthful, NoUpayOrder
<1>5. CASE u.st = "QUOTING" /\ \/ Becomes(o, "AWAIT", 1, TRUE, u.taken)
                               \/ Becomes(o, "QUOTEFAILED", 0, FALSE, u.taken)
  <2>2. {<<"QUOTING", "AWAIT">>, <<"QUOTING", "QUOTEFAILED">>} \subseteq R!Follows
    BY DEF R!Follows
  <2>3. {"QUOTING", "AWAIT", "QUOTEFAILED"} \intersect Paid = {}
    BY DEF Paid
  <2>4. CASE Becomes(o, "AWAIT", 1, TRUE, u.taken)
    <3>1. PICK quote, valid : quote = 1 /\ valid = TRUE
      OBVIOUS
    <3>2. Becomes(o, "AWAIT", quote, valid, u.taken)
      BY <2>4, <3>1, Zenon
    <3>3. valid => quote # 0
      BY <3>1
    <3>4. u.st \in hist[o] /\ <<u.st, "AWAIT">> \in R!Follows
      BY <1>4, <1>5, <2>2
    <3>5. u.st \in Paid <=> "AWAIT" \in Paid
      BY <1>5, <2>3
    <3>. QED BY <1>1, <1>5, <3>2, <3>3, <3>4, <3>5, Advances
  <2>5. CASE Becomes(o, "QUOTEFAILED", 0, FALSE, u.taken)
    <3>1. PICK quote, valid : quote = 0 /\ valid = FALSE
      OBVIOUS
    <3>2. Becomes(o, "QUOTEFAILED", quote, valid, u.taken)
      BY <2>5, <3>1, Zenon
    <3>3. valid => quote # 0
      BY <3>1
    <3>4. u.st \in hist[o] /\ <<u.st, "QUOTEFAILED">> \in R!Follows
      BY <1>4, <1>5, <2>2
    <3>5. u.st \in Paid <=> "QUOTEFAILED" \in Paid
      BY <1>5, <2>3
    <3>. QED BY <1>1, <1>5, <3>2, <3>3, <3>4, <3>5, Advances
  <2>. QED BY <1>5, <2>4, <2>5
<1>6. CASE u.valid /\ Becomes(o, u.st, u.quote, FALSE, u.taken)
  <2>1. u.st \in hist[o] /\ hist[o] # {}
    BY <1>2, <1>6 DEF Truthful, NoUpayOrder
  <2>2. MInv' /\ UNCHANGED <<Takings, Ordered>>
    <3>1. PICK valid : valid = FALSE
      OBVIOUS
    <3>2. Becomes(o, u.st, u.quote, valid, u.taken) /\ (valid => u.quote # 0)
      BY <1>6, <3>1
    <3>3. u.taken # 0 <=> (u.st \in Paid \/ \E s \in Paid : s \in hist[o])
      BY <1>2, <2>1 DEF Money
    <3>. QED BY <2>1, <3>2, <3>3, MoneyMoves
  <2>3. hist' = hist
    <3>1. hist \in [Order -> SUBSET Status]
      BY Parts DEF FInv, IInv
    <3>2. hist[o] \union {u.st} = hist[o]
      BY <2>1
    <3>. QED BY <1>6, <3>1, <3>2 DEF Becomes
  <2>. QED BY <1>1, <2>2, <2>3 DEF R!vars, R!pageVars, R!moneyVars
<1>7. CASE u.st = "CONFIRMED" /\ u.valid /\ Becomes(o, "PROCESSING", u.quote, u.valid, u.quote)
  <2>1. u.quote # 0 /\ <<o, u.quote>> \in agreed /\ "CONFIRMED" \in hist[o]
    BY <1>2, <1>4, <1>7 DEF Money, UpayKeeps
  <2>2. "PROCESSING" \in Paid /\ hist[o] # {}
    BY <2>1 DEF Paid
  <2>3. /\ MInv' /\ Takings' = [Takings EXCEPT ![o] = u.quote]
        /\ Ordered' = [Ordered EXCEPT ![o] = IF "PROCESSING" = "CONFIRMED" THEN u.quote ELSE 0]
    <3>1. /\ Becomes(o, "PROCESSING", u.quote, u.valid, u.quote)
          /\ u.valid => u.quote # 0
          /\ u.quote # 0 <=> ("PROCESSING" \in Paid \/ \E s \in Paid : s \in hist[o])
      BY <1>7, <2>1, <2>2
    <3>. QED BY <2>2, <3>1, MoneyMoves
  <2>4. Ordered[o] = u.quote /\ Ordered' = [Ordered EXCEPT ![o] = 0]
    BY <1>7, <2>3 DEF Ordered
  <2>5. R!Take(o)
    BY <1>1, <1>7, <2>1, <2>3, <2>4 DEF R!Take, R!Happens, R!pageVars, Becomes
  <2>. QED BY <2>3, <2>5 DEF R!Next
<1>8. CASE u.st = "CONFIRMED" /\ ~u.valid /\
           \/ u.quote < MaxQuote /\ Becomes(o, "REQUOTED", u.quote + 1, TRUE, u.taken)
           \/ Becomes(o, "QUOTEFAILED", u.quote, FALSE, u.taken)
  <2>1. "CONFIRMED" \in hist[o] /\ hist[o] # {} /\ o \in attached
    BY <1>4, <1>8, UnknownIsFree
  <2>2. u.quote + 1 # 0
    BY <1>3, BoundAssumption DEF Quote
  <2>3. CASE Becomes(o, "REQUOTED", u.quote + 1, TRUE, u.taken)
    <3>1. PICK quote, valid : quote = u.quote + 1 /\ valid = TRUE
      OBVIOUS
    <3>2. Becomes(o, "REQUOTED", quote, valid, u.taken)
      BY <2>3, <3>1, Zenon
    <3>3. valid => quote # 0
      BY <2>2, <3>1
    <3>4. "REQUOTED" \in {"CANCELED", "REQUOTED", "QUOTEFAILED"}
      OBVIOUS
    <3>5. MInv' /\ R!Next
      BY <1>1, <2>1, <3>2, <3>3, <3>4, Drops
    <3>. QED BY <3>5
  <2>4. CASE Becomes(o, "QUOTEFAILED", u.quote, FALSE, u.taken)
    <3>1. PICK valid : valid = FALSE
      OBVIOUS
    <3>2. /\ Becomes(o, "QUOTEFAILED", u.quote, valid, u.taken)
          /\ valid => u.quote # 0
      BY <2>4, <3>1
    <3>. QED BY <1>1, <2>1, <3>2, Drops
  <2>. QED BY <1>8, <2>3, <2>4
<1>9. ASSUME u.st = "PROCESSING", NEW st \in Outcome,
             Becomes(o, st, u.quote, u.valid, u.taken)
      PROVE  MInv' /\ [R!Next]_R!vars
  <2>1. <<u.st, st>> \in R!Follows /\ st # "CONFIRMED"
    BY <1>9, OutcomeAssumption DEF R!Follows
  <2>2. u.st \in Paid /\ st \in Paid
    BY <1>9, OutcomeAssumption DEF Paid
  <2>. QED BY <1>1, <1>2, <1>4, <1>9, <2>1, <2>2, Advances DEF Money
<1>10. CASE u.st = "REFUNDING" /\ Becomes(o, "REFUNDED", u.quote, u.valid, u.taken)
  <2>1. <<u.st, "REFUNDED">> \in R!Follows
    BY <1>10 DEF R!Follows
  <2>2. u.st \in Paid /\ "REFUNDED" \in Paid
    BY <1>10 DEF Paid
  <2>. QED BY <1>1, <1>2, <1>4, <1>10, <2>1, <2>2, Advances DEF Money
<1>. QED BY <1>5, <1>6, <1>7, <1>8, <1>9, <1>10 DEF UpayStep

\* What a goroutine that follows an order knows about it.
LEMMA FollowedOrder ==
  ASSUME FInv, NEW p \in Proc, proc[p].pc \in Following, ~Creating(proc[p])
  PROVE  /\ proc[p].o \in Order /\ proc[p].o \in attached
         /\ "QUOTING" \in hist[proc[p].o]
         /\ proc[p].pc \in {"record", "store", "apply"} => proc[p].st \in hist[proc[p].o]
<1>1. Honest(proc[p], hist, attached, row) /\ proc[p].o \in Order
  BY HereFields DEF FInv, RInv, AllHonest, IInv, Following
<1>2. proc[p].o \in attached
  BY <1>1 DEF Honest
<1>3. "QUOTING" \in hist[proc[p].o]
  BY <1>1, <1>2 DEF FInv, RInv, AllBacked, Backed, MInv, Money
<1>. QED BY <1>1, <1>2, <1>3 DEF Honest

LEMMA CallsPromised ==
  ASSUME FInv, NEW p \in Proc, ConfirmOrder(p) \/ CancelOrder(p) \/ CreateOrder(p)
  PROVE  MInv' /\ [R!Next]_R!vars
<1>. DEFINE here == proc[p]
<1>1. UNCHANGED <<row, attached, confirmed, agreed>>
  BY DEF ConfirmOrder, CancelOrder, CreateOrder, dbVars
<1>2. here.o \in Order
  BY HereFields DEF FInv, IInv, ConfirmOrder, CancelOrder, CreateOrder
<1>3. CASE UNCHANGED upayVars
  <2>1. proc \in [Proc -> PlaceType]
    BY Parts DEF FInv, IInv
  <2>2. \A q \in Proc : proc'[q] = proc[q] \/ proc'[q].pc # "confirm"
    BY <2>1 DEF ConfirmOrder, CancelOrder, CreateOrder, Begin, Goto, Finish, Place, Idle
  <2>. QED BY <1>1, <1>3, <2>2, Forgotten DEF upayVars
<1>4. Money(here.o)
  BY <1>2 DEF FInv, MInv
<1>5. CASE ConfirmOrder(p) /\ CallConfirm(here.o, here.quote)
  <2>1. here.pc = "confirm" /\ here.pc \in Following /\ ~Creating(here)
    BY <1>5 DEF ConfirmOrder, Following, Creating
  <2>2. here.o \in attached /\ "QUOTING" \in hist[here.o]
    BY <2>1, FollowedOrder
  <2>3. here.quote \in Quote /\ <<here.o, here.quote>> \in agreed
    BY <2>1, HereFields DEF FInv, IInv, Places, Sound
  <2>4. Becomes(here.o, "CONFIRMED", here.quote, upay[here.o].valid, upay[here.o].taken)
        /\ upay[here.o].quote = here.quote
    BY <1>5 DEF CallConfirm, UpayAccepts
  <2>5. "CONFIRMED" \notin Paid
    BY DEF Paid
  <2>6. /\ MInv' /\ UNCHANGED Takings
        /\ Ordered' = [Ordered EXCEPT ![here.o] =
                         IF "CONFIRMED" = "CONFIRMED" THEN here.quote ELSE 0]
    BY <1>2, <1>4, <2>2, <2>4, <2>5, MoneyMoves DEF Money
  <2>7. Ordered' = [Ordered EXCEPT ![here.o] = here.quote]
    BY <2>6
  <2>8. <<here.o, here.quote>> \in Mandates[p] /\ Mandates' = [Mandates EXCEPT ![p] = {}]
    <3>1. proc \in [Proc -> PlaceType]
      BY Parts DEF FInv, IInv
    <3>2. proc'[p].pc # "confirm" /\ \A q \in Proc \ {p} : proc'[q] = proc[q]
      BY <1>5, <3>1 DEF ConfirmOrder, Begin, Finish, Place, Idle
    <3>. QED BY <2>1, <3>2 DEF Mandates
  <2>9. R!Confirm(here.o, here.quote, p)
    BY <1>1, <2>2, <2>4, <2>6, <2>7, <2>8 DEF R!Confirm, R!Happens, R!pageVars, Becomes
  <2>. QED BY <1>2, <2>3, <2>6, <2>9 DEF R!Next
<1>6. CASE CancelOrder(p) /\ CallCancel(here.o)
  <2>1. here.pc \in Following /\ ~Creating(here)
    BY <1>6 DEF CancelOrder, Following, Creating
  <2>2. here.o \in attached /\ "QUOTING" \in hist[here.o]
    BY <2>1, FollowedOrder
  <2>3. Becomes(here.o, "CANCELED", upay[here.o].quote, upay[here.o].valid, upay[here.o].taken)
    BY <1>6 DEF CallCancel
  <2>4. UNCHANGED Mandates
    BY <1>6, MandatesKept
  <2>5. (upay[here.o].valid => upay[here.o].quote # 0) /\ hist[here.o] # {}
    BY <1>4, <2>2 DEF Money
  <2>. QED BY <1>1, <1>2, <2>2, <2>3, <2>4, <2>5, Drops
<1>7. CASE CreateOrder(p) /\ CallCreate(here.o)
  <2>1. here.o \notin attached /\ row[here.o] = "QUOTING"
    BY <1>7 DEF CreateOrder, FInv, RInv, AllHonest, Honest, Creating
  <2>2. upay[here.o].taken = 0 /\ \A s \in Paid : s \notin hist[here.o]
    BY <1>2, <2>1, UnknownIsFree
  <2>3. "QUOTING" \notin Paid
    BY DEF Paid
  <2>4. Becomes(here.o, "QUOTING", 0, FALSE, 0)
    BY <1>7 DEF CallCreate
  <2>5. MInv' /\ UNCHANGED <<Takings, Ordered>>
    <3>1. PICK quote, valid, taken : quote = 0 /\ valid = FALSE /\ taken = 0
      OBVIOUS
    <3>2. Becomes(here.o, "QUOTING", quote, valid, taken) /\ (valid => quote # 0)
      BY <2>4, <3>1
    <3>3. taken # 0 <=> ("QUOTING" \in Paid \/ \E s \in Paid : s \in hist[here.o])
      BY <2>2, <2>3, <3>1
    <3>4. taken = upay[here.o].taken /\ upay[here.o].st # "CONFIRMED"
      BY <1>2, <2>1, <2>2, <3>1, UnknownIsFree
      DEF FInv, RInv, AllBacked, Truthful, NoUpayOrder
    <3>. QED BY <1>2, <3>2, <3>3, <3>4, MoneyMoves
  <2>6. UNCHANGED Mandates
    BY <1>7, MandatesKept
  <2>7. R!Create(here.o)
    BY <1>1, <2>1, <2>4, <2>5, <2>6
    DEF R!Create, R!Happens, R!pageVars, R!moneyVars, Becomes
  <2>. QED BY <1>2, <2>5, <2>7 DEF R!Next
<1>. QED
  BY <1>3, <1>5, <1>6, <1>7 DEF ConfirmOrder, CancelOrder, CreateOrder

\* Whatever a goroutine writes to a row, the page may show.
LEMMA WritesPromised ==
  ASSUME FInv, NEW p \in Proc, RecordQuote(p) \/ ApplyAnswer(p) \/ StoreInfo(p)
  PROVE  MInv' /\ [R!Next]_R!vars
<1>. DEFINE here == proc[p]
<1>1. /\ here.pc \in {"record", "apply", "store"}
      /\ row' = [row EXCEPT ![here.o] = here.st] \/ UNCHANGED row
      /\ UNCHANGED <<attached, confirmed, agreed, upay, hist>>
  BY DEF RecordQuote, ApplyAnswer, StoreInfo, ApplyStatus, upayVars
<1>2. MInv' /\ UNCHANGED <<Takings, Ordered, Mandates>>
  BY <1>1, MoneyUntouched, MandatesKept DEF FInv
<1>3. here.o \in Order
  BY <1>1, HereFields DEF FInv, IInv
<1>4. CASE UNCHANGED row
  BY <1>1, <1>2, <1>4 DEF R!vars, R!pageVars, R!moneyVars
<1>5. CASE row' = [row EXCEPT ![here.o] = here.st] /\ Creating(here)
  <2>1. here.st = "QUOTEFAILED" /\ here.o \notin attached /\ row[here.o] = "QUOTING"
    BY <1>1, <1>5 DEF Creating, FInv, RInv, AllHonest, Honest
  <2>2. R!GiveUp(here.o)
    BY <1>1, <1>2, <1>5, <2>1 DEF R!GiveUp, R!moneyVars
  <2>. QED BY <1>2, <1>3, <2>2 DEF R!Next
<1>6. CASE row' = [row EXCEPT ![here.o] = here.st] /\ ~Creating(here)
  <2>1. here.o \in attached /\ here.st \in hist[here.o]
    BY <1>1, <1>6, FollowedOrder DEF Following
  <2>2. R!Show(here.o, here.st)
    BY <1>1, <1>2, <1>6, <2>1 DEF R!Show, R!moneyVars
  <2>. QED BY <1>2, <1>3, <2>1, <2>2 DEF R!Next
<1>. QED BY <1>1, <1>4, <1>5, <1>6

\* The other statements of a request: the row, its order_no, its confirmation,
\* and the password.
LEMMA RequestStepsPromised ==
  ASSUME FInv, NEW p \in Proc,
         InsertOrder(p) \/ AttachOrderNo(p) \/ SetConfirmed(p) \/ CheckPassword(p)
  PROVE  MInv' /\ [R!Next]_R!vars
<1>. DEFINE here == proc[p]
<1>1. UNCHANGED <<upay, hist>>
  BY DEF InsertOrder, AttachOrderNo, SetConfirmed, CheckPassword, upayVars
<1>2. /\ MInv' /\ UNCHANGED <<Takings, Ordered>>
      /\ ~CheckPassword(p) => UNCHANGED Mandates
  BY <1>1, MoneyUntouched, MandatesKept DEF FInv
<1>3. CASE InsertOrder(p) /\ UNCHANGED Mandates
  <2>1. PICK o \in Order : R!Open(o)
    BY <1>1, <1>2, <1>3 DEF InsertOrder, CreateRow, R!Open, R!moneyVars
  <2>. QED BY <1>2, <2>1 DEF R!Next
<1>4. CASE AttachOrderNo(p) /\ UNCHANGED Mandates
  <2>1. here.o \in Order /\ row[here.o] = "QUOTING" /\ hist[here.o] # {}
    BY <1>4, HereFields
    DEF AttachOrderNo, FInv, IInv, RInv, AllHonest, Honest, Creating
  <2>2. R!Learn(here.o)
    BY <1>1, <1>2, <1>4, <2>1 DEF AttachOrderNo, SetPayoutOrderCreated, R!Learn,
             R!moneyVars
  <2>. QED BY <1>2, <2>1, <2>2 DEF R!Next
<1>5. CASE SetConfirmed(p) /\ UNCHANGED Mandates
  <2>1. here.o \in Order /\ here.o \in attached /\ "CONFIRMED" \in hist[here.o]
    BY <1>5, FollowedOrder
    DEF SetConfirmed, Following, Creating, FInv, RInv, AllHonest, Honest
  <2>2. R!Accept(here.o)
    BY <1>1, <1>2, <1>5, <2>1 DEF SetConfirmed, SetPayoutOrderConfirmed, R!Accept,
             R!moneyVars
  <2>. QED BY <1>2, <2>1, <2>2 DEF R!Next
<1>6. CASE CheckPassword(p)
  <2>1. here.o \in Order /\ here.o \in attached /\ here.named \in Quote
        /\ here.quote = here.named
    BY <1>6, FollowedOrder, HereFields
    DEF CheckPassword, Following, Creating, FInv, IInv, Places, Sound
  <2>2. UNCHANGED <<row, attached, confirmed>>
    BY <1>6 DEF CheckPassword, dbVars
  <2>3. proc \in [Proc -> PlaceType]
    BY Parts DEF FInv, IInv
  <2>4. CASE Finish(p) /\ UNCHANGED agreed
    <3>1. \A q \in Proc : proc'[q] = proc[q] \/ proc'[q].pc # "confirm"
      BY <2>3, <2>4 DEF Finish, Idle, Place
    <3>. QED BY <1>1, <2>2, <2>4, <3>1, Forgotten
  <2>5. CASE /\ agreed' = agreed \union {<<here.o, here.named>>}
             /\ Goto(p, "confirm", here.quote, "NONE")
    <3>1. /\ proc'[p].pc = "confirm" /\ proc'[p].o = here.o /\ proc'[p].quote = here.named
          /\ \A q \in Proc \ {p} : proc'[q] = proc[q]
      BY <2>1, <2>3, <2>5 DEF Goto, Place
    <3>2. Mandates' = [Mandates EXCEPT ![p] = {<<here.o, here.named>>}]
      BY <3>1 DEF Mandates
    <3>3. R!Agree(here.o, here.named, p)
      BY <1>1, <1>2, <2>1, <2>2, <2>5, <3>2 DEF R!Agree, R!pageVars
    <3>. QED BY <1>2, <2>1, <3>3 DEF R!Next
  <2>. QED BY <1>6, <2>4, <2>5 DEF CheckPassword
<1>. QED BY <1>2, <1>3, <1>4, <1>5, <1>6

\* All other steps stay inside the service.
LEMMA InnerStepsPromised ==
  ASSUME FInv,
         \/ \E c \in Client : Request(c)
         \/ \E w \in Pusher, o \in Order, st \in Status : ReceivePush(w, o, st)
         \/ \E p \in Proc : \/ AskQuote(p) \/ Recheck(p) \/ LookUp(p)
                            \/ ReadInfo(p) \/ MarkProcessed(p) \/ Fail(p)
         \/ JobStep \/ Crash \/ (\E o \in Order : GrowsOld(o)) \/ UNCHANGED vars
  PROVE  MInv' /\ [R!Next]_R!vars
<1>1. UNCHANGED <<row, attached, confirmed, agreed, upay, hist>>
  BY DEF Request, ReceivePush, AskQuote, Recheck, LookUp, ReadInfo, MarkProcessed, Fail,
         JobStep, ListOrders, ListPushes, SyncNext, ReplayNext, Crash, GrowsOld,
         vars, dbVars, upayVars, OrderInfo, HasRow, InsertPayoutWebhookEvent
<1>2. proc \in [Proc -> PlaceType]
  BY Parts DEF FInv, IInv
<1>3. ASSUME NEW p, NEW label, label # "confirm",
             \/ \E op, o, named, note : Begin(p, op, label, o, named, note)
             \/ \E quote, st : Goto(p, label, quote, st)
             \/ Finish(p)
      PROVE  \A q \in Proc : proc'[q] = proc[q] \/ proc'[q].pc # "confirm"
  BY <1>2, <1>3 DEF Begin, Goto, Finish, Place, Idle
<1>4. CASE \E c \in Client : Request(c)
  <2>1. \E label \in {"insert", "ask", "cancel"} : \E c, op, o, named :
          Begin(c, op, label, o, named, "NONE")
    BY <1>4 DEF Request, QuoteRequest, ConfirmRequest, CancelRequest, RequoteRequest,
                CreateRequest
  <2>. QED BY <1>1, <1>3, <2>1, Forgotten
<1>5. CASE \/ \E w \in Pusher, o \in Order, st \in Status : ReceivePush(w, o, st)
           \/ JobStep
  <2>1. \/ UNCHANGED proc
        \/ \E label \in {"lookup", "sync"} : \E p, op, o, note :
             Begin(p, op, label, o, 0, note)
    BY <1>5 DEF ReceivePush, JobStep, ListOrders, ListPushes, SyncNext, ReplayNext
  <2>. QED BY <1>1, <1>3, <2>1, Forgotten
<1>6. CASE \E p \in Proc : \/ AskQuote(p) \/ Recheck(p) \/ LookUp(p)
                          \/ ReadInfo(p) \/ MarkProcessed(p) \/ Fail(p)
  <2>1. \/ \E p : Finish(p)
        \/ \E label \in {"record", "cancel", "sync", "mark", "store"} : \E p, quote, st :
             Goto(p, label, quote, st)
    BY <1>6 DEF AskQuote, Recheck, LookUp, ReadInfo, MarkProcessed, Fail
  <2>. QED BY <1>1, <1>3, <2>1, Forgotten
<1>7. CASE Crash \/ (\E o \in Order : GrowsOld(o)) \/ UNCHANGED vars
  <2>1. \A q \in Proc : proc'[q] = proc[q] \/ proc'[q].pc # "confirm"
    BY <1>7 DEF Crash, GrowsOld, vars, Idle, Place
  <2>. QED BY <1>1, <2>1, Forgotten
<1>. QED BY <1>4, <1>5, <1>6, <1>7

LEMMA PromisedStep == FInv /\ [Next]_vars => FInv' /\ [R!Next]_R!vars
<1>. SUFFICES ASSUME FInv, [Next]_vars PROVE FInv' /\ [R!Next]_R!vars
  OBVIOUS
<1>1. ASSUME NEW o \in Order, UpayStep(o) PROVE MInv' /\ [R!Next]_R!vars
  BY <1>1, UpayStepPromised
<1>2. ASSUME NEW p \in Proc, Step(p) \/ Fail(p) PROVE MInv' /\ [R!Next]_R!vars
  BY <1>2, CallsPromised, WritesPromised, RequestStepsPromised, InnerStepsPromised
  DEF Step
<1>3. MInv' /\ [R!Next]_R!vars
  BY <1>1, <1>2, InnerStepsPromised DEF Next
<1>4. IInv' /\ RInv' /\ UnattachedIsUntouched'
  BY IInvStep, RInvStep, UntouchedStep DEF FInv
<1>. QED BY <1>3, <1>4 DEF FInv

LEMMA InitPromised == Init => FInv /\ R!Init
<1>. SUFFICES ASSUME Init PROVE FInv /\ R!Init
  OBVIOUS
<1>1. MInv /\ UnattachedIsUntouched
  BY DEF Init, MInv, Money, NoUpayOrder, UnattachedIsUntouched
<1>2. R!Init
  BY DEF Init, R!Init, Takings, Ordered, Mandates, NoUpayOrder, Idle, Place
<1>. QED BY <1>1, <1>2, InitIInv, InitRInv DEF FInv
-------------------------------------------------------------------------------
(* Theorems                                                                *)

\* FInv holds throughout.
THEOREM MoneyInvariance == Spec => []FInv
BY InitPromised, PromisedStep, PTL DEF Spec

\* The payout machinery keeps the promise: an order is confirmed or canceled
\* only when its number is known, confirmed once for every password, charged
\* once for every confirmation, and shown as nothing it has not been
\* (service/payout.go, job/payout_sync.go, handler/payout_webhook.go and
\* repo/payout.go together).
THEOREM Refinement == Spec => ImplementsRemittance
BY InitPromised, PromisedStep, PTL DEF Spec, ImplementsRemittance, R!Spec

\* A row that shows money on its way is about money that was taken for an agreed
\* quote, whichever answer or poll wrote it (ApplyPayoutOrderStatus).
THEOREM ShownMoney == Spec => []ShownMoneyWasTaken
<1>1. FInv => ShownMoneyWasTaken
  <2>. SUFFICES ASSUME FInv, NEW o \in Order, row[o] \in Paid
                PROVE  upay[o].taken # 0 /\ <<o, upay[o].taken>> \in agreed
    BY DEF ShownMoneyWasTaken
  <2>1. row[o] \in hist[o]
    BY DEF FInv, RInv, AllBacked, Backed, Paid
  <2>2. upay[o].taken # 0
    BY <2>1 DEF FInv, MInv, Money
  <2>. QED BY <2>2 DEF FInv, IInv, UpayOrders, UpayKeeps
<1>. QED BY <1>1, MoneyInvariance, PTL
===============================================================================
