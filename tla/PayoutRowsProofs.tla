---------------------------- MODULE PayoutRowsProofs ----------------------------
(***************************************************************************)
(* RowIsTrue for every set of orders and goroutines, on top of the         *)
(* invariant of PayoutOrdersProofs.                                        *)
(*                                                                         *)
(* A row's order is worked on either by the one request that is creating   *)
(* it, whose order_no is not stored yet, or by goroutines that found it by *)
(* its order_no.  The first is the only one that may write a status UPay   *)
(* never had; the others carry statuses they were told by UPay, and what   *)
(* UPay's order has been in only grows.                                    *)
(***************************************************************************)
EXTENDS PayoutOrdersProofs

\* A request whose order has no order_no yet.
Creating(r) ==
  /\ r.op = "create"
  /\ r.pc \in {"create", "attach"} \/ (r.pc = "apply" /\ r.st = "QUOTEFAILED")

\* Labels at which a goroutine works on an order UPay knows.
Following == {"ask", "record", "password", "confirm", "accepted", "recheck",
              "cancel", "apply", "sync", "store"}

Honest(r, h, att, rows) ==
  /\ r.pc \in {"record", "store", "apply"} =>
       Creating(r) \/ r.st \in h[r.o] \union {"QUOTING"}
  /\ r.pc \in Following => Creating(r) \/ r.o \in att
  /\ r.pc = "attach" => r.st = "QUOTING" /\ h[r.o] # {}
  /\ r.pc \in {"create", "attach"} => r.op = "create"
  /\ r.pc = "accepted" => "CONFIRMED" \in h[r.o]
  /\ Creating(r) => r.o \notin att /\ rows[r.o] = "QUOTING"

OneCreator ==
  \A p, q \in Proc :
    p # q /\ Creating(proc[p]) /\ Creating(proc[q]) => proc[p].o # proc[q].o

Truthful(o) ==
  \/ upay[o] = NoUpayOrder /\ hist[o] = {}
  \/ upay[o].st \in hist[o] /\ "NONE" \notin hist[o]

Backed(o) ==
  /\ \/ row[o] \in hist[o] \union {"NONE", "QUOTING"}
     \/ row[o] = "QUOTEFAILED" /\ o \notin attached
  /\ o \in attached => row[o] # "NONE" /\ hist[o] # {}
  /\ o \in confirmed => "CONFIRMED" \in hist[o]

AllHonest == \A p \in Proc : Honest(proc[p], hist, attached, row)
AllBacked == \A o \in Order : Truthful(o) /\ Backed(o)

RInv == AllHonest /\ OneCreator /\ AllBacked /\ todo \subseteq attached

-------------------------------------------------------------------------------
(* Lemmas                                                                  *)

\* A place stays honest while UPay's history grows, unless its order gets an
\* order_no or another status while it is being created.
LEMMA HonestGrows ==
  ASSUME NEW r, NEW h, NEW hh, NEW att, NEW more, NEW rows, NEW rowss,
         Honest(r, h, att, rows),
         r.pc \notin {"idle", "insert"} => r.o \in Order,
         \A o \in Order : h[o] \subseteq hh[o],
         att \subseteq more,
         Creating(r) => r.o \notin more /\ rowss[r.o] = "QUOTING"
  PROVE  Honest(r, hh, more, rowss)
BY DEF Honest, Creating, Following

\* A step of one goroutine keeps the places of all others.
LEMMA OneHonestPlace ==
  ASSUME IInv, RInv, NEW p \in Proc, NEW r,
         proc' = [proc EXCEPT ![p] = r],
         \A o \in Order : hist[o] \subseteq hist'[o],
         attached \subseteq attached',
         \A q \in Proc \ {p} : Creating(proc[q]) =>
           /\ proc[q].o \notin attached' /\ row'[proc[q].o] = "QUOTING"
           /\ Creating(r) => proc[q].o # r.o,
         Honest(r, hist', attached', row')
  PROVE  AllHonest' /\ OneCreator'
<1>1. proc \in [Proc -> PlaceType] /\ Places
  BY Parts DEF IInv
<1>2. \A q \in Proc : proc'[q] = IF q = p THEN r ELSE proc[q]
  BY <1>1
<1>3. ASSUME NEW q \in Proc PROVE Honest(proc'[q], hist', attached', row')
  <2>1. CASE q = p
    BY <1>2, <2>1
  <2>2. CASE q # p
    <3>1. Honest(proc[q], hist, attached, row)
      BY DEF RInv, AllHonest
    <3>2. proc[q].pc \notin {"idle", "insert"} => proc[q].o \in Order
      BY <1>1, HereFields
    <3>3. Creating(proc[q]) => proc[q].o \notin attached' /\ row'[proc[q].o] = "QUOTING"
      BY <2>2
    <3>4. Honest(proc[q], hist', attached', row')
      BY <3>1, <3>2, <3>3, HonestGrows
    <3>. QED BY <1>2, <2>2, <3>4
  <2>. QED BY <2>1, <2>2
<1>4. OneCreator'
  BY <1>2 DEF OneCreator, RInv
<1>. QED BY <1>3, <1>4 DEF AllHonest

\* Steps that leave rows and UPay alone: the place taken must be honest.
LEMMA QuietStep ==
  ASSUME IInv, RInv, NEW p \in Proc, NEW r,
         proc' = [proc EXCEPT ![p] = r],
         UNCHANGED <<row, attached, confirmed, upay, hist>>,
         todo' \subseteq attached,
         ~Creating(r), Honest(r, hist, attached, row)
  PROVE  RInv'
<1>1. \A q \in Proc \ {p} : Creating(proc[q]) =>
        proc[q].o \notin attached' /\ row'[proc[q].o] = "QUOTING"
  BY DEF RInv, AllHonest, Honest
<1>2. AllHonest' /\ OneCreator'
  BY <1>1, OneHonestPlace
<1>3. AllBacked'
  BY DEF RInv, AllBacked, Truthful, Backed
<1>. QED BY <1>2, <1>3 DEF RInv

\* An idle place claims nothing.
LEMMA IdleHonest ==
  ASSUME NEW h, NEW att, NEW rows
  PROVE  Honest(Idle, h, att, rows) /\ ~Creating(Idle)
BY DEF Honest, Creating, Idle, Place, Following

\* Neither does one that is about to insert, look up a push or mark it.
LEMMA FreeHonest ==
  ASSUME NEW r, NEW h, NEW att, NEW rows, r.pc \in {"insert", "lookup", "mark"}
  PROVE  Honest(r, h, att, rows) /\ ~Creating(r)
BY DEF Honest, Creating, Following

\* A place at which a goroutine holds no status yet, on an order with order_no.
LEMMA AskingHonest ==
  ASSUME NEW r, NEW h, NEW att, NEW rows, r.o \in att,
         r.pc \in {"ask", "password", "confirm", "recheck", "cancel", "sync"}
  PROVE  Honest(r, h, att, rows) /\ ~Creating(r)
BY DEF Honest, Creating, Following

\* A place that holds a status UPay's order has had, on an order with order_no.
LEMMA ToldHonest ==
  ASSUME NEW r, NEW h, NEW att, NEW rows, r.o \in att, r.st \in h[r.o],
         r.pc \in {"record", "store", "apply"}, ~Creating(r)
  PROVE  Honest(r, h, att, rows)
BY DEF Honest, Following

\* Finishing without a statement or a call.
LEMMA QuietFinish ==
  ASSUME IInv, RInv, NEW p \in Proc, Finish(p),
         UNCHANGED <<row, attached, confirmed, upay, hist>>, todo' \subseteq attached
  PROVE  RInv'
BY QuietStep, IdleHonest DEF Finish

\* A status read from UPay for an order with order_no is one it has had.
LEMMA ReadIsTrue ==
  ASSUME RInv, NEW o \in Order, o \in attached
  PROVE  upay[o].st \in hist[o]
BY DEF RInv, AllBacked, Truthful, Backed

\* UPay's order moves on: nothing that was backed loses its backing.
LEMMA UpayMovesOn ==
  ASSUME IInv, RInv, NEW o \in Order, NEW st, NEW quote, NEW valid, NEW taken,
         Becomes(o, st, quote, valid, taken), st # "NONE",
         UNCHANGED <<row, attached, confirmed>>
  PROVE  /\ \A x \in Order : hist[x] \subseteq hist'[x]
         /\ st \in hist'[o]
         /\ AllBacked'
<1>1. upay \in [Order -> UpayType] /\ hist \in [Order -> SUBSET Status]
  BY Parts DEF IInv
<1>2. \A x \in Order : /\ x # o => upay'[x] = upay[x] /\ hist'[x] = hist[x]
                       /\ x = o => upay'[x].st = st /\ hist'[x] = hist[x] \union {st}
  BY <1>1 DEF Becomes
<1>3. ASSUME NEW x \in Order PROVE Truthful(x)' /\ Backed(x)'
  BY <1>2 DEF RInv, AllBacked, Truthful, Backed
<1>. QED BY <1>2, <1>3 DEF AllBacked

\* A step that moves UPay's order on and leaves the rows alone.
LEMMA MovedStep ==
  ASSUME IInv, RInv, NEW p \in Proc, NEW r,
         proc' = [proc EXCEPT ![p] = r],
         UNCHANGED <<row, attached, confirmed>>,
         \A x \in Order : hist[x] \subseteq hist'[x],
         AllBacked', todo' \subseteq attached,
         Creating(r) => Creating(proc[p]) /\ r.o = proc[p].o,
         Honest(r, hist', attached, row)
  PROVE  RInv'
<1>1. \A q \in Proc \ {p} : Creating(proc[q]) =>
        /\ proc[q].o \notin attached' /\ row'[proc[q].o] = "QUOTING"
        /\ Creating(r) => proc[q].o # r.o
  BY DEF RInv, AllHonest, Honest, OneCreator
<1>2. AllHonest' /\ OneCreator'
  BY <1>1, OneHonestPlace
<1>. QED BY <1>2 DEF RInv

\* The status a goroutine holds is written to the row, or that fails.
LEMMA WrittenStep ==
  ASSUME IInv, RInv, NEW p \in Proc, NEW r,
         proc' = [proc EXCEPT ![p] = r],
         proc[p].pc \in {"record", "store", "apply"},
         row' = [row EXCEPT ![proc[p].o] = proc[p].st] \/ UNCHANGED row,
         UNCHANGED <<attached, confirmed, upay, hist>>,
         todo' \subseteq attached,
         ~Creating(r), Honest(r, hist, attached, row')
  PROVE  RInv'
<1>1. PICK o \in Order : o = proc[p].o
  BY HereFields DEF IInv
<1>2. PICK st \in Status : st = proc[p].st
  BY HereFields DEF IInv
<1>3. row \in [Order -> Status]
  BY Parts DEF IInv
<1>4. \A x \in Order : row'[x] = row[x] \/ (x = o /\ row'[x] = st)
  BY <1>1, <1>2, <1>3
<1>5. \/ st \in hist[o] \union {"QUOTING"} /\ o \in attached
      \/ Creating(proc[p]) /\ st = "QUOTEFAILED" /\ o \notin attached
  BY <1>1, <1>2 DEF RInv, AllHonest, Honest, Following, Creating
<1>6. ASSUME NEW q \in Proc \ {p}, Creating(proc[q]) PROVE proc[q].o # o
  BY <1>1, <1>5, <1>6 DEF RInv, OneCreator, AllHonest, Honest
<1>7. AllHonest' /\ OneCreator'
  <2>1. \A q \in Proc \ {p} : Creating(proc[q]) => proc[q].o \in Order
    BY HereFields DEF IInv, Creating
  <2>2. \A q \in Proc \ {p} : Creating(proc[q]) =>
          proc[q].o \notin attached' /\ row'[proc[q].o] = "QUOTING"
    BY <1>4, <1>6, <2>1 DEF RInv, AllHonest, Honest
  <2>. QED BY <2>2, OneHonestPlace
<1>8. ASSUME NEW x \in Order PROVE Truthful(x)' /\ Backed(x)'
  <2>1. Truthful(x) /\ Backed(x)
    BY DEF RInv, AllBacked
  <2>2. CASE row'[x] = row[x]
    BY <2>1, <2>2 DEF Truthful, Backed
  <2>3. CASE x = o /\ row'[x] = st
    BY <1>5, <2>1, <2>3 DEF Truthful, Backed
  <2>. QED BY <1>4, <2>2, <2>3
<1>. QED BY <1>7, <1>8 DEF RInv, AllBacked
-------------------------------------------------------------------------------
(* The invariant: one lemma per group of steps                             *)

\* UPay's own steps only add to the history of an order it has.
LEMMA UpayStepHonest ==
  ASSUME IInv, RInv, NEW o \in Order, UpayStep(o)
  PROVE  RInv'
<1>1. UNCHANGED <<dbVars, proc, jobVars>> /\ Truthful(o)
  BY DEF UpayStep, RInv, AllBacked
<1>2. PICK st, quote, valid, taken : Becomes(o, st, quote, valid, taken) /\ st # "NONE"
  <2>1. upay[o].valid => upay[o].st # "NONE"
    BY <1>1 DEF Truthful, NoUpayOrder
  <2>2. \E st \in Status, quote \in Nat, valid \in BOOLEAN, taken \in Nat :
          Becomes(o, st, quote, valid, taken) /\ st # "NONE"
    <3>. DEFINE u == upay[o]
    <3>0. u.st \in Status /\ u.quote \in Nat /\ u.valid \in BOOLEAN /\ u.taken \in Nat
      BY UpayFields DEF IInv, Quote
    <3>1. CASE \/ Becomes(o, "AWAIT", 1, TRUE, u.taken)
               \/ Becomes(o, "QUOTEFAILED", 0, FALSE, u.taken)
      BY <3>0, <3>1 DEF Status, Cancelable, Terminal
    <3>2. CASE u.valid /\ Becomes(o, u.st, u.quote, FALSE, u.taken)
      BY <2>1, <3>0, <3>2
    <3>3. CASE Becomes(o, "PROCESSING", u.quote, u.valid, u.quote)
      BY <3>0, <3>3 DEF Status, Polled
    <3>4. CASE Becomes(o, "REQUOTED", u.quote + 1, TRUE, u.taken)
      <4>1. u.quote + 1 \in Nat
        BY <3>0
      <4>. QED BY <3>0, <3>4, <4>1 DEF Status, Cancelable
    <3>5. CASE Becomes(o, "QUOTEFAILED", u.quote, FALSE, u.taken)
      BY <3>0, <3>5 DEF Status, Terminal
    <3>6. CASE \E st \in {"SUCCEEDED", "FAILED", "REFUNDING", "REFUNDED"} :
                 Becomes(o, st, u.quote, u.valid, u.taken)
      BY <3>0, <3>6 DEF Status, Polled, Terminal
    <3>. QED BY <3>1, <3>2, <3>3, <3>4, <3>5, <3>6, OutcomeAssumption DEF UpayStep
  <2>. QED BY <2>2
<1>3. (\A x \in Order : hist[x] \subseteq hist'[x]) /\ AllBacked'
  BY <1>1, <1>2, UpayMovesOn DEF dbVars
<1>4. AllHonest' /\ OneCreator'
  <2>1. ASSUME NEW p \in Proc PROVE Honest(proc[p], hist', attached, row)
    <3>1. Honest(proc[p], hist, attached, row)
      BY DEF RInv, AllHonest
    <3>2. proc[p].pc \notin {"idle", "insert"} => proc[p].o \in Order
      BY HereFields DEF IInv
    <3>3. Creating(proc[p]) => proc[p].o \notin attached /\ row[proc[p].o] = "QUOTING"
      BY <3>1 DEF Honest
    <3>. QED BY <1>3, <3>1, <3>2, <3>3, HonestGrows
  <2>. QED BY <1>1, <2>1 DEF AllHonest, RInv, OneCreator, dbVars
<1>. QED BY <1>1, <1>3, <1>4 DEF RInv, dbVars, jobVars

\* A member's request begins with an order that has its order_no, or with none.
LEMMA RequestHonest ==
  ASSUME IInv, RInv, NEW c \in Client, Request(c)
  PROVE  RInv'
<1>1. c \in Proc /\ UNCHANGED <<row, attached, confirmed, upay, hist>> /\ todo' \subseteq attached
  BY DEF Request, Proc, dbVars, jobVars, upayVars, RInv
<1>2. CASE Begin(c, "create", "insert", NoOrder, 0, "NONE")
  <2>. DEFINE r == Place("insert", "create", NoOrder, 0, 0, "NONE", "NONE")
  <2>1. proc' = [proc EXCEPT ![c] = r] /\ r.pc = "insert"
    BY <1>2 DEF Begin, Place
  <2>. HIDE DEF r
  <2>2. Honest(r, hist, attached, row) /\ ~Creating(r)
    BY <2>1, FreeHonest
  <2>. QED BY <1>1, <2>1, <2>2, QuietStep
<1>3. ASSUME NEW o \in attached, NEW op, NEW label \in {"ask", "cancel"}, NEW named,
             Begin(c, op, label, o, named, "NONE")
      PROVE  RInv'
  <2>. DEFINE r == Place(label, op, o, 0, named, "NONE", "NONE")
  <2>1. proc' = [proc EXCEPT ![c] = r] /\ r.pc \in {"ask", "cancel"} /\ r.o \in attached
    BY <1>3 DEF Begin, Place
  <2>. HIDE DEF r
  <2>. QED BY <1>1, <2>1, QuietStep, AskingHonest
<1>4. \/ Begin(c, "create", "insert", NoOrder, 0, "NONE")
      \/ \E o \in attached, op \in Op, label \in {"ask", "cancel"}, named \in Quote :
           Begin(c, op, label, o, named, "NONE")
  <2>1. "quote" \in Op /\ "confirm" \in Op /\ "cancel" \in Op /\ "requote" \in Op
        /\ 0 \in Quote /\ 1 .. MaxQuote \subseteq Quote
    BY BoundAssumption DEF Op, Quote
  <2>. QED BY <2>1 DEF Request, QuoteRequest, ConfirmRequest, CancelRequest,
                       RequoteRequest, CreateRequest
<1>. QED BY <1>2, <1>3, <1>4

\* Steps that change neither a row nor UPay's order.
LEMMA QuietStepsHonest ==
  ASSUME IInv, RInv, NEW p \in Proc,
         \/ AskQuote(p) \/ CheckPassword(p) \/ Recheck(p)
         \/ LookUp(p) \/ ReadInfo(p) \/ MarkProcessed(p)
  PROVE  RInv'
<1>. DEFINE here == proc[p]
<1>1. UNCHANGED <<row, attached, confirmed, upay, hist>> /\ todo' \subseteq attached
  BY DEF AskQuote, CheckPassword, Recheck, LookUp, ReadInfo, MarkProcessed,
         dbVars, jobVars, upayVars, RInv, OrderInfo, HasRow
<1>2. Honest(here, hist, attached, row) /\ here \in PlaceType
  BY HereFields DEF RInv, AllHonest, IInv
<1>3. here.pc \in {"ask", "password", "recheck", "sync"} => here.o \in attached
  BY <1>2 DEF Honest, Following, Creating
<1>4. CASE Finish(p)
  BY <1>1, <1>4, QuietFinish
<1>5. ASSUME NEW label \in {"record", "store"}, NEW quote,
             Goto(p, label, quote, upay[here.o].st), here.o \in attached
      PROVE  RInv'
  <2>. DEFINE r == Place(label, here.op, here.o, quote, here.named, upay[here.o].st, here.note)
  <2>1. attached \subseteq Order
    BY Parts DEF IInv, Rest
  <2>2. upay[here.o].st \in hist[here.o]
    BY <1>5, <2>1, ReadIsTrue
  <2>3. /\ proc' = [proc EXCEPT ![p] = r]
        /\ r.pc \in {"record", "store"} /\ ~Creating(r)
        /\ r.o \in attached /\ r.st \in hist[r.o]
    BY <1>5, <2>2 DEF Goto, Place, Creating
  <2>. HIDE DEF r
  <2>. QED BY <1>1, <2>3, QuietStep, ToldHonest
<1>6. ASSUME NEW label \in {"confirm", "cancel", "sync"}, NEW quote,
             Goto(p, label, quote, "NONE"), here.o \in attached
      PROVE  RInv'
  <2>. DEFINE r == Place(label, here.op, here.o, quote, here.named, "NONE", here.note)
  <2>1. /\ proc' = [proc EXCEPT ![p] = r]
        /\ r.pc \in {"confirm", "cancel", "sync"} /\ r.o \in attached
    BY <1>6 DEF Goto, Place
  <2>. HIDE DEF r
  <2>. QED BY <1>1, <2>1, QuietStep, AskingHonest
<1>7. CASE Goto(p, "mark", 0, "NONE")
  <2>. DEFINE r == Place("mark", here.op, here.o, 0, here.named, "NONE", here.note)
  <2>1. proc' = [proc EXCEPT ![p] = r] /\ r.pc = "mark"
    BY <1>7 DEF Goto, Place
  <2>. HIDE DEF r
  <2>2. Honest(r, hist, attached, row) /\ ~Creating(r)
    BY <2>1, FreeHonest
  <2>. QED BY <1>1, <2>1, <2>2, QuietStep
<1>. QED BY <1>3, <1>4, <1>5, <1>6, <1>7
     DEF AskQuote, CheckPassword, Recheck, LookUp, ReadInfo, MarkProcessed, OrderInfo, HasRow

\* The answer to a confirmation is CONFIRMED, which UPay's order has become.
LEMMA ConfirmHonest ==
  ASSUME IInv, RInv, NEW p \in Proc, ConfirmOrder(p)
  PROVE  RInv'
<1>1. UNCHANGED <<row, attached, confirmed>> /\ todo' \subseteq attached
  BY DEF ConfirmOrder, dbVars, jobVars, RInv, CallConfirm
<1>2. proc[p].o \in Order /\ proc[p].o \in attached
  BY HereFields DEF IInv, ConfirmOrder, RInv, AllHonest, Honest, Following, Creating, CallConfirm
<1>3. CASE Finish(p) /\ UNCHANGED upayVars
  BY <1>1, <1>3, QuietFinish DEF upayVars
<1>4. CASE Becomes(proc[p].o, "CONFIRMED", proc[p].quote, upay[proc[p].o].valid,
                   upay[proc[p].o].taken)
  <2>1. /\ \A x \in Order : hist[x] \subseteq hist'[x]
        /\ "CONFIRMED" \in hist'[proc[p].o]
        /\ AllBacked'
    BY <1>1, <1>2, <1>4, UpayMovesOn
  <2>2. CASE Finish(p)
    BY <1>1, <2>1, <2>2, MovedStep, IdleHonest DEF Finish
  <2>3. CASE Begin(p, "confirm", "accepted", proc[p].o, 0, "NONE")
    <3>. DEFINE r == Place("accepted", "confirm", proc[p].o, 0, 0, "NONE", "NONE")
    <3>1. proc' = [proc EXCEPT ![p] = r] /\ ~Creating(r)
      BY <2>3 DEF Begin, Place, Creating
    <3>2. Honest(r, hist', attached, row)
      BY <1>2, <2>1 DEF Honest, Place, Creating, Following
    <3>. HIDE DEF r
    <3>. QED BY <1>1, <2>1, <3>1, <3>2, MovedStep
  <2>. QED BY <1>3, <2>2, <2>3 DEF ConfirmOrder, CallConfirm
<1>. QED BY <1>3, <1>4 DEF ConfirmOrder, CallConfirm

\* The answer to a cancellation is CANCELED, which UPay's order has become.
LEMMA CancelHonest ==
  ASSUME IInv, RInv, NEW p \in Proc, CancelOrder(p)
  PROVE  RInv'
<1>1. UNCHANGED <<row, attached, confirmed>> /\ todo' \subseteq attached
  BY DEF CancelOrder, dbVars, jobVars, RInv, CallCancel
<1>2. proc[p].o \in Order /\ proc[p].o \in attached
  BY HereFields DEF IInv, CancelOrder, RInv, AllHonest, Honest, Following, Creating, CallCancel
<1>3. CASE Finish(p) /\ UNCHANGED upayVars
  BY <1>1, <1>3, QuietFinish DEF upayVars
<1>4. CASE Becomes(proc[p].o, "CANCELED", upay[proc[p].o].quote, upay[proc[p].o].valid,
                   upay[proc[p].o].taken)
  <2>1. /\ \A x \in Order : hist[x] \subseteq hist'[x]
        /\ "CANCELED" \in hist'[proc[p].o]
        /\ AllBacked'
    BY <1>1, <1>2, <1>4, UpayMovesOn
  <2>2. CASE Finish(p)
    BY <1>1, <2>1, <2>2, MovedStep, IdleHonest DEF Finish
  <2>3. CASE Goto(p, "apply", 0, "CANCELED")
    <3>. DEFINE r == Place("apply", proc[p].op, proc[p].o, 0, proc[p].named,
                           "CANCELED", proc[p].note)
    <3>1. proc' = [proc EXCEPT ![p] = r] /\ ~Creating(r)
      BY <2>3 DEF Goto, Place, Creating
    <3>2. r.o = proc[p].o /\ r.pc = "apply" /\ r.st = "CANCELED"
      BY DEF Place
    <3>. HIDE DEF r
    <3>3. Honest(r, hist', attached, row)
      BY <1>2, <2>1, <3>1, <3>2, ToldHonest
    <3>. QED BY <1>1, <2>1, <3>1, <3>3, MovedStep
  <2>. QED BY <1>3, <2>2, <2>3 DEF CancelOrder, CallCancel
<1>. QED BY <1>3, <1>4 DEF CancelOrder, CallCancel

\* A creation is answered, or its row is to be closed as QUOTEFAILED.
LEMMA CreateHonest ==
  ASSUME IInv, RInv, NEW p \in Proc, CreateOrder(p)
  PROVE  RInv'
<1>1. UNCHANGED <<row, attached, confirmed>> /\ todo' \subseteq attached
  BY DEF CreateOrder, dbVars, jobVars, RInv, CallCreate
<1>2. proc[p].o \in Order
  BY HereFields DEF IInv, CreateOrder, CallCreate
<1>3. /\ Honest(proc[p], hist, attached, row) /\ Creating(proc[p])
      /\ proc[p].op = "create"
      /\ proc[p].o \notin attached /\ row[proc[p].o] = "QUOTING"
  BY DEF RInv, AllHonest, Honest, CreateOrder, Creating, CallCreate
<1>4. (\A x \in Order : hist[x] \subseteq hist'[x]) /\ AllBacked'
  <2>1. CASE Becomes(proc[p].o, "QUOTING", 0, FALSE, 0)
    BY <1>1, <1>2, <2>1, UpayMovesOn
  <2>2. CASE UNCHANGED upayVars
    BY <1>1, <2>2 DEF upayVars, RInv, AllBacked, Truthful, Backed
  <2>. QED BY <2>1, <2>2 DEF CreateOrder, CallCreate
<1>5. CASE Goto(p, "apply", 0, "QUOTEFAILED")
  <2>. DEFINE r == Place("apply", proc[p].op, proc[p].o, 0, proc[p].named,
                         "QUOTEFAILED", proc[p].note)
  <2>1. /\ proc' = [proc EXCEPT ![p] = r] /\ r.o = proc[p].o
        /\ r.op = "create" /\ r.pc = "apply" /\ r.st = "QUOTEFAILED"
    BY <1>3, <1>5 DEF Goto, Place
  <2>. HIDE DEF r
  <2>2. Honest(r, hist', attached, row)
    BY <1>3, <2>1 DEF Honest, Creating
  <2>. QED BY <1>1, <1>3, <1>4, <2>1, <2>2, MovedStep
<1>6. CASE Becomes(proc[p].o, "QUOTING", 0, FALSE, 0) /\ Goto(p, "attach", 0, "QUOTING")
  <2>. DEFINE r == Place("attach", proc[p].op, proc[p].o, 0, proc[p].named,
                         "QUOTING", proc[p].note)
  <2>1. /\ proc' = [proc EXCEPT ![p] = r] /\ r.o = proc[p].o
        /\ r.op = "create" /\ r.pc = "attach" /\ r.st = "QUOTING"
    BY <1>3, <1>6 DEF Goto, Place
  <2>. HIDE DEF r
  <2>2. "QUOTING" \in hist'[proc[p].o]
    BY <1>1, <1>2, <1>6, UpayMovesOn
  <2>3. Honest(r, hist', attached, row)
    BY <1>3, <2>1, <2>2 DEF Honest, Creating, Following
  <2>. QED BY <1>1, <1>3, <1>4, <2>1, <2>3, MovedStep
<1>. QED BY <1>5, <1>6 DEF CreateOrder, CallCreate

\* What is written to a row is the status its goroutine holds.
LEMMA WritesHonest ==
  ASSUME IInv, RInv, NEW p \in Proc, RecordQuote(p) \/ ApplyAnswer(p) \/ StoreInfo(p)
  PROVE  RInv'
<1>. DEFINE here == proc[p]
<1>1. /\ here.pc \in {"record", "apply", "store"}
      /\ row' = [row EXCEPT ![here.o] = here.st] \/ UNCHANGED row
      /\ UNCHANGED <<attached, confirmed, upay, hist>>
      /\ todo' \subseteq attached
  BY DEF RecordQuote, ApplyAnswer, StoreInfo, ApplyStatus, jobVars, upayVars, RInv
<1>2. here.op # "create" => here.o \in attached
  BY <1>1 DEF RInv, AllHonest, Honest, Following, Creating
<1>3. here.pc # "apply" => here.o \in attached
  BY <1>1 DEF RInv, AllHonest, Honest, Following, Creating
<1>4. CASE Finish(p)
  BY <1>1, <1>4, WrittenStep, IdleHonest DEF Finish
<1>5. ASSUME NEW label \in {"password", "recheck"}, NEW quote,
             Goto(p, label, quote, "NONE"), here.o \in attached
      PROVE  RInv'
  <2>. DEFINE r == Place(label, here.op, here.o, quote, here.named, "NONE", here.note)
  <2>1. /\ proc' = [proc EXCEPT ![p] = r]
        /\ r.pc \in {"password", "recheck"} /\ r.o \in attached
    BY <1>5 DEF Goto, Place
  <2>. HIDE DEF r
  <2>2. Honest(r, hist, attached, row') /\ ~Creating(r)
    BY <2>1, AskingHonest
  <2>. QED BY <1>1, <2>1, <2>2, WrittenStep
<1>6. CASE Goto(p, "mark", 0, "NONE")
  <2>. DEFINE r == Place("mark", here.op, here.o, 0, here.named, "NONE", here.note)
  <2>1. proc' = [proc EXCEPT ![p] = r] /\ r.pc = "mark"
    BY <1>6 DEF Goto, Place
  <2>. HIDE DEF r
  <2>2. Honest(r, hist, attached, row') /\ ~Creating(r)
    BY <2>1, FreeHonest
  <2>. QED BY <1>1, <2>1, <2>2, WrittenStep
<1>7. CASE Begin(p, "sync", "sync", here.o, 0, "NONE") /\ here.o \in attached
  <2>. DEFINE r == Place("sync", "sync", here.o, 0, 0, "NONE", "NONE")
  <2>1. proc' = [proc EXCEPT ![p] = r] /\ r.pc = "sync" /\ r.o \in attached
    BY <1>7 DEF Begin, Place
  <2>. HIDE DEF r
  <2>2. Honest(r, hist, attached, row') /\ ~Creating(r)
    BY <2>1, AskingHonest
  <2>. QED BY <1>1, <2>1, <2>2, WrittenStep
<1>8. CASE Begin(p, "create", "insert", NoOrder, 0, "NONE")
  <2>. DEFINE r == Place("insert", "create", NoOrder, 0, 0, "NONE", "NONE")
  <2>1. proc' = [proc EXCEPT ![p] = r] /\ r.pc = "insert"
    BY <1>8 DEF Begin, Place
  <2>. HIDE DEF r
  <2>2. Honest(r, hist, attached, row') /\ ~Creating(r)
    BY <2>1, FreeHonest
  <2>. QED BY <1>1, <2>1, <2>2, WrittenStep
<1>9. CASE RecordQuote(p)
  BY <1>3, <1>4, <1>5, <1>9 DEF RecordQuote
<1>10. CASE ApplyAnswer(p)
  BY <1>2, <1>4, <1>7, <1>8, <1>10 DEF ApplyAnswer
<1>11. CASE StoreInfo(p)
  BY <1>4, <1>6, <1>11 DEF StoreInfo
<1>. QED BY <1>9, <1>10, <1>11

\* confirmed_at is set after UPay accepted.
LEMMA ConfirmedHonest ==
  ASSUME IInv, RInv, NEW p \in Proc, SetConfirmed(p)
  PROVE  RInv'
<1>1. UNCHANGED <<row, attached, upay, hist>> /\ todo' \subseteq attached
  BY DEF SetConfirmed, jobVars, upayVars, RInv, SetPayoutOrderConfirmed
<1>2. PICK o \in Order : o = proc[p].o
  BY HereFields DEF IInv, SetConfirmed, SetPayoutOrderConfirmed
<1>3. o \in attached /\ "CONFIRMED" \in hist[o] /\ confirmed' = confirmed \union {o}
  BY <1>2 DEF SetConfirmed, RInv, AllHonest, Honest, Following, Creating, SetPayoutOrderConfirmed
<1>4. AllHonest' /\ OneCreator'
  <2>. DEFINE r == Place("apply", proc[p].op, proc[p].o, 0, proc[p].named,
                         "CONFIRMED", proc[p].note)
  <2>1. /\ proc' = [proc EXCEPT ![p] = r] /\ ~Creating(r)
        /\ r.o = o /\ r.pc = "apply" /\ r.st = "CONFIRMED"
    BY <1>2 DEF SetConfirmed, Goto, Place, Creating, SetPayoutOrderConfirmed
  <2>. HIDE DEF r
  <2>2. Honest(r, hist, attached, row)
    BY <1>3, <2>1, ToldHonest
  <2>3. \A q \in Proc \ {p} : Creating(proc[q]) =>
          proc[q].o \notin attached' /\ row'[proc[q].o] = "QUOTING"
    BY <1>1 DEF RInv, AllHonest, Honest
  <2>. QED BY <1>1, <2>1, <2>2, <2>3, OneHonestPlace
<1>5. AllBacked'
  BY <1>1, <1>3 DEF RInv, AllBacked, Truthful, Backed
<1>. QED BY <1>1, <1>4, <1>5 DEF RInv

\* An order that is inserted has no order_no and no other request creates it.
LEMMA InsertHonest ==
  ASSUME IInv, RInv, NEW p \in Proc, InsertOrder(p)
  PROVE  RInv'
<1>1. UNCHANGED <<attached, confirmed, upay, hist>> /\ todo' \subseteq attached
  BY DEF InsertOrder, jobVars, upayVars, RInv, CreateRow
<1>2. PICK o \in Order : /\ row[o] = "NONE" /\ row' = [row EXCEPT ![o] = "QUOTING"]
                         /\ Begin(p, "create", "create", o, 0, "NONE")
  BY DEF InsertOrder, CreateRow
<1>3. row \in [Order -> Status]
  BY Parts DEF IInv
<1>4. \A x \in Order : row'[x] = IF x = o THEN "QUOTING" ELSE row[x]
  BY <1>2, <1>3
<1>5. o \notin attached
  BY <1>2 DEF RInv, AllBacked, Backed
<1>6. ASSUME NEW q \in Proc, Creating(proc[q])
      PROVE  proc[q].o # o /\ proc[q].o \notin attached /\ row'[proc[q].o] = "QUOTING"
  <2>1. proc[q].o \notin attached /\ row[proc[q].o] = "QUOTING"
    BY <1>6 DEF RInv, AllHonest, Honest
  <2>2. proc[q].o \in Order
    BY <1>6, HereFields DEF IInv, Creating
  <2>. QED BY <1>2, <1>4, <2>1, <2>2
<1>7. AllHonest' /\ OneCreator'
  <2>. DEFINE r == Place("create", "create", o, 0, 0, "NONE", "NONE")
  <2>1. proc' = [proc EXCEPT ![p] = r] /\ r.o = o /\ r.pc = "create" /\ r.op = "create"
    BY <1>2 DEF Begin, Place
  <2>. HIDE DEF r
  <2>2. Honest(r, hist', attached', row')
    BY <1>1, <1>4, <1>5, <2>1 DEF Honest, Creating, Following
  <2>. QED BY <1>1, <1>6, <2>1, <2>2, OneHonestPlace
<1>8. AllBacked'
  BY <1>1, <1>4 DEF RInv, AllBacked, Truthful, Backed
<1>. QED BY <1>1, <1>7, <1>8 DEF RInv

\* An order_no is stored for an order UPay has, by the one request creating it.
LEMMA AttachHonest ==
  ASSUME IInv, RInv, NEW p \in Proc, AttachOrderNo(p)
  PROVE  RInv'
<1>1. UNCHANGED <<row, confirmed, upay, hist, todo>>
  BY DEF AttachOrderNo, jobVars, upayVars, SetPayoutOrderCreated
<1>2. PICK o \in Order : o = proc[p].o
  BY HereFields DEF IInv, AttachOrderNo, SetPayoutOrderCreated
<1>3. /\ attached' = attached \union {o} /\ hist[o] # {} /\ proc[p].st = "QUOTING"
      /\ Creating(proc[p]) /\ row[o] = "QUOTING"
  BY <1>2 DEF AttachOrderNo, RInv, AllHonest, Honest, Creating, SetPayoutOrderCreated
<1>4. AllHonest' /\ OneCreator'
  <2>. DEFINE r == Place("apply", proc[p].op, proc[p].o, 0, proc[p].named,
                         proc[p].st, proc[p].note)
  <2>1. /\ proc' = [proc EXCEPT ![p] = r] /\ ~Creating(r)
        /\ r.o = o /\ r.pc = "apply" /\ r.st = "QUOTING"
    BY <1>2, <1>3 DEF AttachOrderNo, Goto, Place, Creating, SetPayoutOrderCreated
  <2>. HIDE DEF r
  <2>2. Honest(r, hist', attached', row')
    BY <1>3, <2>1 DEF Honest
  <2>3. \A q \in Proc \ {p} : Creating(proc[q]) =>
          proc[q].o \notin attached' /\ row'[proc[q].o] = "QUOTING"
    BY <1>1, <1>2, <1>3 DEF RInv, AllHonest, Honest, OneCreator
  <2>. QED BY <1>1, <1>3, <2>1, <2>2, <2>3, OneHonestPlace
<1>5. AllBacked'
  BY <1>1, <1>3 DEF RInv, AllBacked, Truthful, Backed
<1>. QED BY <1>1, <1>3, <1>4, <1>5 DEF RInv

\* Pushes and the job name an order; whether it has an order_no is looked up.
LEMMA PushJobHonest ==
  ASSUME IInv, RInv,
         \/ JobStep \/ \E o \in Order : GrowsOld(o)
         \/ \E w \in Pusher, o \in Order, st \in Status : ReceivePush(w, o, st)
  PROVE  RInv'
<1>1. UNCHANGED <<row, attached, confirmed, upay, hist>> /\ todo' \subseteq attached
  BY DEF JobStep, GrowsOld, ListOrders, ListPushes, SyncNext, ReplayNext, ReceivePush, ToSync,
         dbVars, jobVars, upayVars, RInv, InsertPayoutWebhookEvent
<1>2. CASE UNCHANGED proc
  BY <1>1, <1>2 DEF RInv, AllHonest, OneCreator, AllBacked, Truthful, Backed
<1>3. ASSUME NEW p \in Proc, NEW o, NEW note, Begin(p, "push", "lookup", o, 0, note)
      PROVE  RInv'
  <2>. DEFINE r == Place("lookup", "push", o, 0, 0, "NONE", note)
  <2>1. proc' = [proc EXCEPT ![p] = r] /\ r.pc = "lookup"
    BY <1>3 DEF Begin, Place
  <2>. HIDE DEF r
  <2>2. Honest(r, hist, attached, row) /\ ~Creating(r)
    BY <2>1, FreeHonest
  <2>. QED BY <1>1, <2>1, <2>2, QuietStep
<1>4. ASSUME NEW p \in Proc, NEW o \in attached, Begin(p, "sync", "sync", o, 0, "NONE")
      PROVE  RInv'
  <2>. DEFINE r == Place("sync", "sync", o, 0, 0, "NONE", "NONE")
  <2>1. proc' = [proc EXCEPT ![p] = r] /\ r.pc = "sync" /\ r.o \in attached
    BY <1>4 DEF Begin, Place
  <2>. HIDE DEF r
  <2>2. Honest(r, hist, attached, row) /\ ~Creating(r)
    BY <2>1, AskingHonest
  <2>. QED BY <1>1, <2>1, <2>2, QuietStep
<1>5. Job \in Proc /\ Pusher \subseteq Proc /\ todo \subseteq attached
  BY DEF Proc, RInv
<1>. QED BY <1>2, <1>3, <1>4, <1>5
     DEF JobStep, GrowsOld, ListOrders, ListPushes, SyncNext, ReplayNext, ReceivePush,
         InsertPayoutWebhookEvent

\* Giving up and starting again leave idle places behind.
LEMMA FailuresHonest ==
  ASSUME IInv, RInv, Crash \/ \E p \in Proc : Fail(p)
  PROVE  RInv'
<1>1. UNCHANGED <<row, attached, confirmed, upay, hist>> /\ todo' \subseteq attached
  BY DEF Crash, Fail, dbVars, jobVars, upayVars, RInv
<1>2. CASE Crash
  <2>1. AllHonest' /\ OneCreator'
    BY <1>2, IdleHonest DEF Crash, AllHonest, OneCreator
  <2>2. AllBacked'
    BY <1>1 DEF RInv, AllBacked, Truthful, Backed
  <2>. QED BY <1>1, <2>1, <2>2 DEF RInv
<1>3. ASSUME NEW p \in Proc, Fail(p) PROVE RInv'
  BY <1>1, <1>3, QuietFinish DEF Fail
<1>. QED BY <1>2, <1>3

LEMMA InitRInv == Init => RInv
<1>. SUFFICES ASSUME Init PROVE RInv
  OBVIOUS
<1>1. AllHonest /\ OneCreator
  BY IdleHonest DEF Init, AllHonest, OneCreator
<1>2. AllBacked /\ todo \subseteq attached
  BY DEF Init, AllBacked, Truthful, Backed
<1>. QED BY <1>1, <1>2 DEF RInv

LEMMA RInvStep == IInv /\ RInv /\ [Next]_vars => RInv'
<1>. SUFFICES ASSUME IInv, RInv, [Next]_vars PROVE RInv'
  OBVIOUS
<1>1. ASSUME NEW o \in Order, UpayStep(o) PROVE RInv'
  BY <1>1, UpayStepHonest
<1>2. ASSUME NEW c \in Client, Request(c) PROVE RInv'
  BY <1>2, RequestHonest
<1>3. CASE \/ JobStep \/ \E o \in Order : GrowsOld(o)
           \/ \E w \in Pusher, o \in Order, st \in Status : ReceivePush(w, o, st)
  BY <1>3, PushJobHonest
<1>4. ASSUME NEW p \in Proc, Step(p) PROVE RInv'
  BY <1>4, QuietStepsHonest, ConfirmHonest, CancelHonest, CreateHonest, WritesHonest,
     ConfirmedHonest, InsertHonest, AttachHonest DEF Step
<1>5. CASE Crash \/ \E p \in Proc : Fail(p)
  BY <1>5, FailuresHonest
<1>6. CASE UNCHANGED vars
  BY <1>6 DEF vars, dbVars, jobVars, upayVars, RInv, AllHonest, OneCreator, AllBacked,
              Truthful, Backed
<1>. QED BY <1>1, <1>2, <1>3, <1>4, <1>5, <1>6 DEF Next

\* Confirming and canceling are left to requests that found an order_no, so the
\* order of a row without one only gets the creation and its first quote.
LEMMA UntouchedStep ==
  ASSUME IInv, RInv, UnattachedIsUntouched, [Next]_vars
  PROVE  UnattachedIsUntouched'
<1>. DEFINE Early == {"QUOTING", "AWAIT", "QUOTEFAILED"}
<1>. SUFFICES ASSUME NEW x \in Order, x \notin attached' PROVE hist'[x] \subseteq Early
  BY DEF UnattachedIsUntouched
<1>1. attached \subseteq attached'
  BY DEF Next, UpayStep, Request, ReceivePush, Step, Fail, JobStep, GrowsOld, Crash, AskQuote,
         RecordQuote, CheckPassword, ConfirmOrder, SetConfirmed, Recheck, CancelOrder,
         InsertOrder, CreateOrder, AttachOrderNo, ApplyAnswer, LookUp, ReadInfo,
         StoreInfo, MarkProcessed, ListOrders, ListPushes, SyncNext, ReplayNext,
         vars, dbVars, InsertPayoutWebhookEvent, OrderInfo, CallConfirm, SetPayoutOrderConfirmed,
         CallCancel, CreateRow, CallCreate, SetPayoutOrderCreated, HasRow
<1>2. x \notin attached /\ hist[x] \subseteq Early
  BY <1>1 DEF UnattachedIsUntouched
<1>3. hist \in [Order -> SUBSET Status]
  BY DEF IInv, TypeOK
<1>4. ASSUME NEW o \in Order, UpayStep(o) PROVE hist'[x] \subseteq Early
  <2>1. CASE o # x
    BY <1>2, <1>3, <1>4, <2>1 DEF UpayStep, Becomes
  <2>2. CASE o = x
    <3>1. upay[x] = NoUpayOrder \/ upay[x].st \in Early
      BY <1>2 DEF RInv, AllBacked, Truthful
    <3>2. upay[x].st \notin {"CONFIRMED", "PROCESSING", "REFUNDING"}
      BY <3>1 DEF NoUpayOrder
    <3>3. CASE upay[x].valid /\ Becomes(x, upay[x].st, upay[x].quote, FALSE, upay[x].taken)
      <4>1. upay[x].st \in Early
        BY <3>1, <3>3 DEF NoUpayOrder
      <4>. QED BY <1>2, <1>3, <3>3, <4>1 DEF Becomes
    <3>4. CASE \/ Becomes(x, "AWAIT", 1, TRUE, upay[x].taken)
               \/ Becomes(x, "QUOTEFAILED", 0, FALSE, upay[x].taken)
      BY <1>2, <1>3, <3>4 DEF Becomes
    <3>. QED BY <1>4, <2>2, <3>2, <3>3, <3>4 DEF UpayStep
  <2>. QED BY <2>1, <2>2
<1>5. ASSUME NEW p \in Proc, ConfirmOrder(p) \/ CancelOrder(p)
      PROVE  hist'[x] \subseteq Early
  <2>1. proc[p].o \in attached
    BY <1>5 DEF ConfirmOrder, CancelOrder, RInv, AllHonest, Honest, Following, Creating,
                CallConfirm, CallCancel
  <2>2. proc[p].o # x
    BY <1>2, <2>1
  <2>. QED BY <1>2, <1>3, <1>5, <2>2
           DEF ConfirmOrder, CancelOrder, Becomes, upayVars, CallConfirm, CallCancel
<1>6. ASSUME NEW p \in Proc, CreateOrder(p) PROVE hist'[x] \subseteq Early
  BY <1>2, <1>3, <1>6 DEF CreateOrder, Becomes, upayVars, CallCreate
<1>7. CASE hist' = hist
  BY <1>2, <1>7
<1>. QED
  BY <1>4, <1>5, <1>6, <1>7
  DEF Next, Request, ReceivePush, Step, Fail, JobStep, GrowsOld, Crash, AskQuote,
      RecordQuote, CheckPassword, SetConfirmed, Recheck, InsertOrder,
      AttachOrderNo, ApplyAnswer, LookUp, ReadInfo, StoreInfo, MarkProcessed,
      ListOrders, ListPushes, SyncNext, ReplayNext, vars, upayVars, InsertPayoutWebhookEvent,
      OrderInfo, SetPayoutOrderConfirmed, CreateRow, SetPayoutOrderCreated, HasRow
-------------------------------------------------------------------------------
(* Theorems                                                                *)

\* RInv holds throughout.
THEOREM RowInvariance == Spec => []RInv
BY InitRInv, RInvStep, Invariance, PTL DEF Spec

\* No row ever shows a status UPay's order has not been in, except QUOTEFAILED
\* after a creation that was answered with an error, and confirmed_at is only
\* set after UPay accepted a confirmation (ApplyPayoutOrderStatus, CreateOrder,
\* Confirm).
THEOREM RowsAreTrue == Spec => []RowIsTrue
<1>1. RInv => RowIsTrue
  BY DEF RInv, AllBacked, Backed, RowIsTrue
<1>. QED BY <1>1, RowInvariance, PTL

\* An order whose order_no is not stored is never confirmed, charged or canceled
\* at UPay, so a push that SyncByOrderNo ignores announces no outcome.
THEOREM UnattachedStays == Spec => []UnattachedIsUntouched
<1>1. Init => UnattachedIsUntouched
  BY DEF Init, UnattachedIsUntouched
<1>. QED BY <1>1, UntouchedStep, RowInvariance, Invariance, PTL DEF Spec
===============================================================================
