-------------------------- MODULE PayoutOrdersProofs --------------------------
(***************************************************************************)
(* Theorems of PayoutOrders, for every set of orders and goroutines.       *)
(*                                                                         *)
(* Sound says what the label of a goroutine means for the values it holds: *)
(* one that is past the password check holds a quote the member agreed to. *)
(* UpayKeeps is UPay's half: what it confirmed, and what it took the money *)
(* for, was agreed to.  Sound depends on recorded and agreed, which only   *)
(* grow, so a step that replaces one place leaves every other place sound. *)
(***************************************************************************)
EXTENDS PayoutOrders, TLAPS

PlaceType == [pc : Label, op : Op, o : Order \union {NoOrder},
              quote : Quote, named : Quote, st : Status, note : Status]
UpayType == [st : Status, quote : Quote, valid : BOOLEAN, taken : Quote]

Sound(r, pushes, yes) ==
  /\ r \in PlaceType
  /\ r.pc \notin {"idle", "insert"} => r.o \in Order
  /\ r.op = "push" => <<r.o, r.note>> \in pushes
  /\ r.pc \in {"lookup", "mark"} => r.op = "push"
  /\ r.pc = "record" /\ r.op = "confirm" => r.quote \in {0, r.named}
  /\ r.pc = "password" => r.quote = r.named
  /\ r.pc = "confirm" => <<r.o, r.quote>> \in yes

UpayKeeps(o, u, yes) ==
  /\ u \in UpayType
  /\ u.taken # 0 => <<o, u.taken>> \in yes
  /\ u.st = "CONFIRMED" => <<o, u.quote>> \in yes

Places == \A p \in Proc : Sound(proc[p], recorded, agreed)
UpayOrders == \A o \in Order : UpayKeeps(o, upay[o], agreed)

IInv == TypeOK /\ Places /\ UpayOrders
-------------------------------------------------------------------------------
(* Lemmas                                                                  *)

\* Idle is sound whatever was recorded or agreed.
LEMMA IdleSound ==
  ASSUME NEW pushes, NEW yes
  PROVE  Sound(Idle, pushes, yes)
BY BoundAssumption DEF Idle, Sound, PlaceType, Place, Label, Op, Quote, Status

\* Recording and agreeing keep a place sound.
LEMMA SoundGrows ==
  ASSUME NEW r, NEW pushes, NEW more, NEW yes, NEW yesses,
         pushes \subseteq more, yes \subseteq yesses, Sound(r, pushes, yes)
  PROVE  Sound(r, more, yesses)
BY DEF Sound

\* A step that puts one goroutine at a sound place keeps all places sound.
LEMMA OnePlace ==
  ASSUME TypeOK, Places, NEW p \in Proc, NEW r,
         proc' = [proc EXCEPT ![p] = r],
         recorded \subseteq recorded', agreed \subseteq agreed',
         Sound(r, recorded', agreed')
  PROVE  Places' /\ proc' \in [Proc -> PlaceType]
<1>1. proc \in [Proc -> PlaceType]
  BY DEF TypeOK, PlaceType
<1>2. ASSUME NEW q \in Proc PROVE Sound(proc'[q], recorded', agreed')
  <2>1. Sound(proc[q], recorded', agreed')
    BY SoundGrows DEF Places
  <2>2. proc'[q] = IF q = p THEN r ELSE proc[q]
    BY <1>1
  <2>. QED BY <2>1, <2>2
<1>3. r \in PlaceType
  BY DEF Sound
<1>. QED BY <1>1, <1>2, <1>3 DEF Places

\* A step that gives one UPay order a value it may have keeps them all right.
LEMMA OneUpayOrder ==
  ASSUME TypeOK, UpayOrders, NEW o \in Order, agreed' = agreed,
         NEW st \in Status, NEW quote \in Quote, NEW valid \in BOOLEAN, NEW taken \in Quote,
         Becomes(o, st, quote, valid, taken),
         taken # 0 => <<o, taken>> \in agreed,
         st = "CONFIRMED" => <<o, quote>> \in agreed
  PROVE  /\ UpayOrders'
         /\ upay' \in [Order -> UpayType]
         /\ hist' \in [Order -> SUBSET Status]
<1>. DEFINE u == [st |-> st, quote |-> quote, valid |-> valid, taken |-> taken]
<1>1. upay \in [Order -> UpayType] /\ hist \in [Order -> SUBSET Status]
  BY DEF TypeOK, UpayType
<1>2. u \in UpayType /\ UpayKeeps(o, u, agreed)
  BY DEF UpayType, UpayKeeps
<1>3. upay' = [upay EXCEPT ![o] = u]
  BY DEF Becomes
<1>4. UpayOrders'
  <2>. HIDE DEF u
  <2>1. ASSUME NEW x \in Order PROVE UpayKeeps(x, upay'[x], agreed')
    BY <1>1, <1>2, <1>3 DEF UpayOrders
  <2>. QED BY <2>1 DEF UpayOrders
<1>5. upay' \in [Order -> UpayType]
  <2>. HIDE DEF u
  <2>. QED BY <1>1, <1>2, <1>3
<1>6. hist' \in [Order -> SUBSET Status]
  BY <1>1 DEF Becomes
<1>. QED BY <1>4, <1>5, <1>6

\* With UPay's orders and the agreed quotes as they were, UpayOrders holds on.
LEMMA UpayUntouched ==
  ASSUME UpayOrders, upay' = upay, agreed \subseteq agreed'
  PROVE  UpayOrders'
BY DEF UpayOrders, UpayKeeps

\* UPay's orders have the type TypeOK gives them.
LEMMA UpayFields ==
  ASSUME TypeOK, NEW o \in Order
  PROVE  /\ upay[o].st \in Status /\ upay[o].quote \in Quote
         /\ upay[o].valid \in BOOLEAN /\ upay[o].taken \in Quote
BY DEF TypeOK

\* A sound place has fields of their types.
LEMMA HereFields ==
  ASSUME Places, NEW p \in Proc
  PROVE  /\ proc[p] \in PlaceType
         /\ proc[p].pc \in Label /\ proc[p].op \in Op
         /\ proc[p].o \in Order \union {NoOrder}
         /\ proc[p].quote \in Quote /\ proc[p].named \in Quote
         /\ proc[p].st \in Status /\ proc[p].note \in Status
         /\ proc[p].pc \notin {"idle", "insert"} => proc[p].o \in Order
         /\ proc[p].op = "push" => <<proc[p].o, proc[p].note>> \in recorded
         /\ proc[p].pc \in {"lookup", "mark"} => proc[p].op = "push"
BY DEF Places, Sound, PlaceType

\* Writing a status to a row keeps its type.
LEMMA RowWritten ==
  ASSUME TypeOK, NEW o, NEW st \in Status, row' = [row EXCEPT ![o] = st]
  PROVE  row' \in [Order -> Status]
BY DEF TypeOK

\* ApplyStatus writes a status or fails.
LEMMA StatusApplied ==
  ASSUME TypeOK, NEW o, NEW st \in Status, ApplyStatus(o, st)
  PROVE  row' \in [Order -> Status] /\ faults' \in 0 .. MaxFaults
<1>1. CASE row' = [row EXCEPT ![o] = st] /\ UNCHANGED faults
  BY <1>1, RowWritten DEF TypeOK
<1>2. CASE UNCHANGED row /\ Fault
  BY <1>2, BoundAssumption DEF TypeOK, Fault
<1>. QED BY <1>1, <1>2 DEF ApplyStatus

\* A fault counts up to its bound.
LEMMA FaultCounted ==
  ASSUME TypeOK, Fault
  PROVE  faults' \in 0 .. MaxFaults
BY BoundAssumption DEF TypeOK, Fault
\* A goroutine that goes on with its operation stays sound when the values it
\* takes along are what the label stands for.
LEMMA GotoSound ==
  ASSUME TypeOK, Places, NEW p \in Proc,
         recorded \subseteq recorded', agreed \subseteq agreed',
         NEW label \in Label, NEW quote \in Quote, NEW st \in Status,
         Goto(p, label, quote, st),
         proc[p].o \in Order,
         label \in {"lookup", "mark"} => proc[p].op = "push",
         label = "record" /\ proc[p].op = "confirm" => quote \in {0, proc[p].named},
         label = "password" => quote = proc[p].named,
         label = "confirm" => <<proc[p].o, quote>> \in agreed'
  PROVE  Places' /\ proc' \in [Proc -> PlaceType]
<1>. DEFINE r == Place(label, proc[p].op, proc[p].o, quote, proc[p].named, st, proc[p].note)
<1>1. Sound(r, recorded', agreed')
  BY HereFields DEF Sound, PlaceType, Place
<1>2. proc' = [proc EXCEPT ![p] = r]
  BY DEF Goto
<1>. HIDE DEF r
<1>. QED BY <1>1, <1>2, OnePlace

\* So does one that begins an operation.
LEMMA BeginSound ==
  ASSUME TypeOK, Places, NEW p \in Proc,
         recorded \subseteq recorded', agreed \subseteq agreed',
         NEW op \in Op, NEW label \in Label, NEW o \in Order \union {NoOrder},
         NEW named \in Quote, NEW note \in Status,
         Begin(p, op, label, o, named, note),
         label \notin {"record", "password", "confirm"},
         label \notin {"idle", "insert"} => o \in Order,
         op = "push" => <<o, note>> \in recorded',
         label \in {"lookup", "mark"} => op = "push"
  PROVE  Places' /\ proc' \in [Proc -> PlaceType]
<1>. DEFINE r == Place(label, op, o, 0, named, "NONE", note)
<1>1. Sound(r, recorded', agreed')
  BY BoundAssumption DEF Sound, PlaceType, Place, Quote, Status
<1>2. proc' = [proc EXCEPT ![p] = r]
  BY DEF Begin
<1>. HIDE DEF r
<1>. QED BY <1>1, <1>2, OnePlace

\* And one that is done.
LEMMA FinishSound ==
  ASSUME TypeOK, Places, NEW p \in Proc,
         recorded \subseteq recorded', agreed \subseteq agreed', Finish(p)
  PROVE  Places' /\ proc' \in [Proc -> PlaceType]
BY OnePlace, IdleSound DEF Finish

\* What is left of TypeOK besides the goroutines, row, faults and UPay's orders.
Rest ==
  /\ attached \subseteq Order /\ confirmed \subseteq Order
  /\ recorded \subseteq Order \X Status /\ processed \subseteq recorded
  /\ phase \in {"orders", "pushes"} /\ todo \subseteq Order /\ replay \subseteq recorded
  /\ old \subseteq Order /\ agreed \subseteq Order \X Quote

\* The invariant from its parts.
LEMMA Assembled ==
  ASSUME Places', (proc \in [Proc -> PlaceType])', UpayOrders',
         (upay \in [Order -> UpayType])', (hist \in [Order -> SUBSET Status])',
         (row \in [Order -> Status])', (faults \in 0 .. MaxFaults)', Rest'
  PROVE  IInv'
BY DEF IInv, TypeOK, Rest, PlaceType, UpayType

\* TypeOK taken apart the same way.
LEMMA Parts ==
  ASSUME TypeOK
  PROVE  /\ proc \in [Proc -> PlaceType] /\ upay \in [Order -> UpayType]
         /\ hist \in [Order -> SUBSET Status] /\ row \in [Order -> Status]
         /\ faults \in 0 .. MaxFaults /\ Rest
BY DEF TypeOK, Rest, PlaceType, UpayType
-------------------------------------------------------------------------------
(* The invariant: one lemma per group of steps                             *)

\* UPay's own steps take money only for a quote it has confirmed.
LEMMA UpayStepKeeps ==
  ASSUME IInv, NEW o \in Order, UpayStep(o)
  PROVE  IInv'
<1>. DEFINE u == upay[o]
<1>1. UNCHANGED <<dbVars, proc, jobVars, agreed, faults>>
  BY DEF UpayStep
<1>2. /\ u.st \in Status /\ u.quote \in Quote /\ u.valid \in BOOLEAN /\ u.taken \in Quote
      /\ u.taken # 0 => <<o, u.taken>> \in agreed
      /\ u.st = "CONFIRMED" => <<o, u.quote>> \in agreed
  BY UpayFields DEF IInv, UpayOrders, UpayKeeps
<1>3. PICK st \in Status, quote \in Quote, valid \in BOOLEAN, taken \in Quote :
        /\ Becomes(o, st, quote, valid, taken)
        /\ taken # 0 => <<o, taken>> \in agreed
        /\ st = "CONFIRMED" => <<o, quote>> \in agreed
  <2>. DEFINE Fine(st, quote, valid, taken) ==
         /\ st \in Status /\ quote \in Quote /\ valid \in BOOLEAN /\ taken \in Quote
         /\ Becomes(o, st, quote, valid, taken)
         /\ taken # 0 => <<o, taken>> \in agreed
         /\ st = "CONFIRMED" => <<o, quote>> \in agreed
  <2>0. 0 \in Quote /\ 1 \in Quote
    BY BoundAssumption DEF Quote
  <2>1. CASE u.st = "QUOTING" /\ Becomes(o, "AWAIT", 1, TRUE, u.taken)
    <3>1. Fine("AWAIT", 1, TRUE, u.taken)
      BY <1>2, <2>0, <2>1 DEF Status, Cancelable
    <3>. QED BY <3>1
  <2>2. CASE u.st = "QUOTING" /\ Becomes(o, "QUOTEFAILED", 0, FALSE, u.taken)
    <3>1. Fine("QUOTEFAILED", 0, FALSE, u.taken)
      BY <1>2, <2>0, <2>2 DEF Status, Terminal
    <3>. QED BY <3>1
  <2>3. CASE Becomes(o, u.st, u.quote, FALSE, u.taken)
    <3>1. Fine(u.st, u.quote, FALSE, u.taken)
      BY <1>2, <2>3
    <3>. QED BY <3>1
  <2>4. CASE u.st = "CONFIRMED" /\ Becomes(o, "PROCESSING", u.quote, u.valid, u.quote)
    <3>1. Fine("PROCESSING", u.quote, u.valid, u.quote)
      BY <1>2, <2>4 DEF Status, Polled
    <3>. QED BY <3>1
  <2>5. CASE u.quote < MaxQuote /\ Becomes(o, "REQUOTED", u.quote + 1, TRUE, u.taken)
    <3>1. u.quote + 1 \in Quote
      BY <1>2, <2>5, BoundAssumption DEF Quote
    <3>2. Fine("REQUOTED", u.quote + 1, TRUE, u.taken)
      BY <1>2, <2>5, <3>1 DEF Status, Cancelable
    <3>. QED BY <3>2
  <2>6. CASE Becomes(o, "QUOTEFAILED", u.quote, FALSE, u.taken)
    <3>1. Fine("QUOTEFAILED", u.quote, FALSE, u.taken)
      BY <1>2, <2>6 DEF Status, Terminal
    <3>. QED BY <3>1
  <2>7. CASE \E next \in {"SUCCEEDED", "FAILED", "REFUNDING", "REFUNDED"} :
               Becomes(o, next, u.quote, u.valid, u.taken)
    <3>1. PICK next \in {"SUCCEEDED", "FAILED", "REFUNDING", "REFUNDED"} :
            Becomes(o, next, u.quote, u.valid, u.taken)
      BY <2>7
    <3>2. Fine(next, u.quote, u.valid, u.taken)
      BY <1>2, <3>1 DEF Status, Terminal, Polled
    <3>. QED BY <3>2
  <2>8. \/ u.st = "QUOTING" /\ Becomes(o, "AWAIT", 1, TRUE, u.taken)
        \/ u.st = "QUOTING" /\ Becomes(o, "QUOTEFAILED", 0, FALSE, u.taken)
        \/ Becomes(o, u.st, u.quote, FALSE, u.taken)
        \/ u.st = "CONFIRMED" /\ Becomes(o, "PROCESSING", u.quote, u.valid, u.quote)
        \/ u.quote < MaxQuote /\ Becomes(o, "REQUOTED", u.quote + 1, TRUE, u.taken)
        \/ Becomes(o, "QUOTEFAILED", u.quote, FALSE, u.taken)
        \/ \E next \in {"SUCCEEDED", "FAILED", "REFUNDING", "REFUNDED"} :
             Becomes(o, next, u.quote, u.valid, u.taken)
    BY OutcomeAssumption DEF UpayStep
  <2>. QED BY <2>1, <2>2, <2>3, <2>4, <2>5, <2>6, <2>7, <2>8
<1>4. /\ UpayOrders' /\ upay' \in [Order -> UpayType] /\ hist' \in [Order -> SUBSET Status]
  BY <1>1, <1>3, OneUpayOrder DEF IInv
<1>. QED BY <1>1, <1>4 DEF IInv, TypeOK, Places, UpayType, dbVars, jobVars

\* A member's request starts at a label that claims nothing yet.
LEMMA RequestKeeps ==
  ASSUME IInv, NEW c \in Client, Request(c)
  PROVE  IInv'
<1>1. c \in Proc /\ TypeOK /\ Places /\ UpayOrders
  BY DEF Proc, IInv
<1>2. UNCHANGED <<dbVars, jobVars, upayVars, agreed, faults>>
  BY DEF Request
<1>3. attached \subseteq Order /\ 0 \in Quote /\ 1 .. MaxQuote \subseteq Quote /\ "NONE" \in Status
  BY <1>1, BoundAssumption DEF TypeOK, Quote, Status
<1>4. Places' /\ proc' \in [Proc -> PlaceType]
  <2>1. CASE CreateRequest(c)
    BY <1>1, <1>2, <1>3, <2>1, BeginSound DEF CreateRequest, dbVars, Op, Label
  <2>2. ASSUME NEW o \in attached, QuoteRequest(c, o)
        PROVE  Places' /\ proc' \in [Proc -> PlaceType]
    BY <1>1, <1>2, <1>3, <2>2, BeginSound DEF QuoteRequest, dbVars, Op, Label
  <2>3. ASSUME NEW o \in attached, ConfirmRequest(c, o)
        PROVE  Places' /\ proc' \in [Proc -> PlaceType]
    <3>1. PICK quote \in 1 .. MaxQuote : Begin(c, "confirm", "ask", o, quote, "NONE")
      BY <2>3 DEF ConfirmRequest
    <3>. QED BY <1>1, <1>2, <1>3, <3>1, BeginSound DEF dbVars, Op, Label
  <2>4. ASSUME NEW o \in attached, CancelRequest(c, o)
        PROVE  Places' /\ proc' \in [Proc -> PlaceType]
    BY <1>1, <1>2, <1>3, <2>4, BeginSound DEF CancelRequest, dbVars, Op, Label
  <2>5. ASSUME NEW o \in attached, Begin(c, "requote", "ask", o, 0, "NONE")
        PROVE  Places' /\ proc' \in [Proc -> PlaceType]
    BY <1>1, <1>2, <1>3, <2>5, BeginSound DEF dbVars, Op, Label
  <2>. QED BY <2>1, <2>2, <2>3, <2>4, <2>5 DEF Request, RequoteRequest
<1>. QED BY <1>1, <1>2, <1>4, UpayUntouched, Assembled, Parts
     DEF dbVars, jobVars, upayVars, Rest

\* Up to the password, a confirmation holds the quote the member named.
LEMMA QuoteStepsKeep ==
  ASSUME IInv, NEW p \in Proc,
         AskQuote(p) \/ RecordQuote(p) \/ CheckPassword(p) \/ Recheck(p)
  PROVE  IInv'
<1>1. TypeOK /\ Places /\ UpayOrders
  BY DEF IInv
<1>2. "NONE" \in Status /\ 0 \in Quote
  BY BoundAssumption DEF Status, Quote
<1>3. CASE AskQuote(p)
  <2>. DEFINE o == proc[p].o
              quote == QuoteInfo(o)
              kept == IF Usable(proc[p], quote) THEN quote ELSE 0
  <2>1. o \in Order
    BY <1>1, <1>3, HereFields DEF AskQuote, OrderInfo
  <2>2. kept \in Quote /\ upay[o].st \in Status
    BY <1>1, <1>2, <2>1, UpayFields DEF QuoteInfo
  <2>3. proc[p].op = "confirm" => kept \in {0, proc[p].named}
    BY DEF Usable
  <2>4. /\ Goto(p, "record", kept, upay[o].st)
        /\ UNCHANGED <<dbVars, jobVars, upayVars, agreed, faults>>
    BY <1>3 DEF AskQuote, OrderInfo
  <2>5. Places' /\ proc' \in [Proc -> PlaceType]
    <3>. HIDE DEF kept
    <3>. QED BY <1>1, <2>1, <2>2, <2>3, <2>4, GotoSound DEF dbVars, Label
  <2>. QED BY <1>1, <2>4, <2>5, UpayUntouched, Assembled, Parts
       DEF dbVars, jobVars, upayVars, Rest
<1>4. CASE RecordQuote(p)
  <2>. DEFINE here == proc[p]
  <2>1. /\ here.o \in Order /\ here.st \in Status /\ here.quote \in Quote
        /\ here.op = "confirm" => here.quote \in {0, here.named}
    BY <1>1, <1>4, HereFields DEF RecordQuote, Places, Sound
  <2>2. /\ row' \in [Order -> Status] /\ faults' \in 0 .. MaxFaults
    BY <1>1, <1>4, <2>1, StatusApplied DEF RecordQuote
  <2>3. UNCHANGED <<attached, confirmed, recorded, processed, jobVars, upayVars, agreed>>
    BY <1>4 DEF RecordQuote
  <2>4. Places' /\ proc' \in [Proc -> PlaceType]
    <3>1. CASE /\ here.op = "confirm" /\ StillValid(here.o, here.quote)
               /\ Goto(p, "password", here.quote, "NONE")
      <4>1. here.quote = here.named
        BY <2>1, <3>1 DEF StillValid
      <4>. QED BY <1>1, <1>2, <2>1, <2>3, <3>1, <4>1, GotoSound DEF Label
    <3>2. CASE Goto(p, "recheck", 0, "NONE")
      BY <1>1, <1>2, <2>1, <2>3, <3>2, GotoSound DEF Label
    <3>3. CASE Finish(p)
      BY <1>1, <2>3, <3>3, FinishSound
    <3>. QED BY <1>4, <3>1, <3>2, <3>3 DEF RecordQuote
  <2>. QED BY <1>1, <2>2, <2>3, <2>4, UpayUntouched, Assembled, Parts
       DEF jobVars, upayVars, Rest
<1>5. CASE CheckPassword(p)
  <2>1. UNCHANGED <<dbVars, jobVars, upayVars, faults>>
    BY <1>5 DEF CheckPassword
  <2>2. /\ proc[p].o \in Order /\ proc[p].named \in Quote /\ proc[p].quote \in Quote
        /\ proc[p].quote = proc[p].named
    BY <1>1, <1>5, HereFields DEF CheckPassword, Places, Sound
  <2>3. CASE /\ agreed' = agreed \union {<<proc[p].o, proc[p].named>>}
             /\ Goto(p, "confirm", proc[p].quote, "NONE")
    <3>1. <<proc[p].o, proc[p].quote>> \in agreed' /\ agreed \subseteq agreed'
      BY <2>2, <2>3
    <3>2. Places' /\ proc' \in [Proc -> PlaceType]
      BY <1>1, <1>2, <2>1, <2>2, <2>3, <3>1, GotoSound DEF dbVars, Label
    <3>3. Rest'
      BY <1>1, <2>1, <2>2, <2>3, Parts DEF Rest, dbVars, jobVars
    <3>. QED BY <1>1, <2>1, <3>1, <3>2, <3>3, UpayUntouched, Assembled, Parts
         DEF dbVars, jobVars, upayVars
  <2>4. CASE Finish(p) /\ UNCHANGED agreed
    <3>1. Places' /\ proc' \in [Proc -> PlaceType]
      BY <1>1, <2>1, <2>4, FinishSound DEF dbVars
    <3>. QED BY <1>1, <2>1, <2>4, <3>1, UpayUntouched, Assembled, Parts
         DEF dbVars, jobVars, upayVars, Rest
  <2>. QED BY <1>5, <2>3, <2>4 DEF CheckPassword
<1>6. CASE Recheck(p)
  <2>1. UNCHANGED <<dbVars, jobVars, upayVars, agreed, faults>>
    BY <1>6 DEF Recheck
  <2>2. proc[p].o \in Order
    BY <1>1, <1>6, HereFields DEF Recheck
  <2>3. Places' /\ proc' \in [Proc -> PlaceType]
    <3>1. CASE Goto(p, "cancel", 0, "NONE")
      BY <1>1, <1>2, <2>1, <2>2, <3>1, GotoSound DEF dbVars, Label
    <3>2. CASE Finish(p)
      BY <1>1, <2>1, <3>2, FinishSound DEF dbVars
    <3>. QED BY <1>6, <3>1, <3>2 DEF Recheck
  <2>. QED BY <1>1, <2>1, <2>3, UpayUntouched, Assembled, Parts
       DEF dbVars, jobVars, upayVars, Rest
<1>. QED BY <1>3, <1>4, <1>5, <1>6

\* The calls that change UPay's order: what is confirmed there was agreed to.
LEMMA CallsKeep ==
  ASSUME IInv, NEW p \in Proc, ConfirmOrder(p) \/ CancelOrder(p) \/ CreateOrder(p)
  PROVE  IInv'
<1>. DEFINE o == proc[p].o
<1>1. TypeOK /\ Places /\ UpayOrders
  BY DEF IInv
<1>2. /\ "NONE" \in Status /\ "CONFIRMED" \in Status /\ "CANCELED" \in Status
      /\ "QUOTING" \in Status /\ "QUOTEFAILED" \in Status /\ 0 \in Quote
  BY BoundAssumption DEF Status, Quote, Polled, Terminal, Cancelable
<1>3. /\ o \in Order /\ UNCHANGED <<dbVars, jobVars, agreed>>
  BY <1>1, HereFields DEF ConfirmOrder, CancelOrder, CreateOrder, CallConfirm, CallCancel,
                          CallCreate
<1>4. /\ upay[o].st \in Status /\ upay[o].quote \in Quote
      /\ upay[o].valid \in BOOLEAN /\ upay[o].taken \in Quote
      /\ upay[o].taken # 0 => <<o, upay[o].taken>> \in agreed
  BY <1>1, <1>3, UpayFields DEF UpayOrders, UpayKeeps
<1>5. /\ UpayOrders' /\ upay' \in [Order -> UpayType] /\ hist' \in [Order -> SUBSET Status]
  <2>1. CASE UNCHANGED upayVars
    BY <1>1, <1>3, <2>1, UpayUntouched, Parts DEF upayVars
  <2>2. CASE /\ ConfirmOrder(p)
             /\ Becomes(o, "CONFIRMED", proc[p].quote, upay[o].valid, upay[o].taken)
    <3>1. proc[p].quote \in Quote /\ <<o, proc[p].quote>> \in agreed
      BY <1>1, <2>2, HereFields DEF ConfirmOrder, Places, Sound, CallConfirm
    <3>. QED BY <1>1, <1>2, <1>3, <1>4, <2>2, <3>1, OneUpayOrder
  <2>3. CASE Becomes(o, "CANCELED", upay[o].quote, upay[o].valid, upay[o].taken)
    BY <1>1, <1>2, <1>3, <1>4, <2>3, OneUpayOrder
  <2>4. CASE Becomes(o, "QUOTING", 0, FALSE, 0)
    BY <1>1, <1>2, <1>3, <2>4, OneUpayOrder
  <2>. QED BY <2>1, <2>2, <2>3, <2>4 DEF ConfirmOrder, CancelOrder, CreateOrder, CallConfirm,
                                         CallCancel, CallCreate
<1>6. faults' \in 0 .. MaxFaults
  BY <1>1, FaultCounted, Parts DEF ConfirmOrder, CancelOrder, CreateOrder, CallConfirm, CallCancel,
                                   CallCreate
<1>7. Places' /\ proc' \in [Proc -> PlaceType]
  <2>1. CASE Finish(p)
    BY <1>1, <1>3, <2>1, FinishSound DEF dbVars
  <2>2. CASE Begin(p, "confirm", "accepted", o, 0, "NONE")
    BY <1>1, <1>2, <1>3, <2>2, BeginSound DEF dbVars, Label, Op
  <2>3. ASSUME NEW st \in {"CANCELED", "QUOTEFAILED"}, Goto(p, "apply", 0, st)
        PROVE  Places' /\ proc' \in [Proc -> PlaceType]
    BY <1>1, <1>2, <1>3, <2>3, GotoSound DEF dbVars, Label
  <2>4. CASE Goto(p, "attach", 0, "QUOTING")
    BY <1>1, <1>2, <1>3, <2>4, GotoSound DEF dbVars, Label
  <2>. QED BY <2>1, <2>2, <2>3, <2>4 DEF ConfirmOrder, CancelOrder, CreateOrder, CallConfirm,
                                         CallCancel, CallCreate
<1>. QED BY <1>1, <1>3, <1>5, <1>6, <1>7, Assembled, Parts DEF dbVars, jobVars, Rest

\* Statements on payout_orders leave UPay and the member's word as they are.
LEMMA RowStepsKeep ==
  ASSUME IInv, NEW p \in Proc,
         SetConfirmed(p) \/ InsertOrder(p) \/ AttachOrderNo(p) \/ ApplyAnswer(p)
  PROVE  IInv'
<1>1. TypeOK /\ Places /\ UpayOrders
  BY DEF IInv
<1>2. /\ "NONE" \in Status /\ "CONFIRMED" \in Status /\ "QUOTING" \in Status /\ 0 \in Quote
  BY BoundAssumption DEF Status, Quote, Polled, Cancelable
<1>3. UNCHANGED <<recorded, processed, jobVars, upayVars, agreed>>
  BY DEF SetConfirmed, InsertOrder, AttachOrderNo, ApplyAnswer, SetPayoutOrderConfirmed, CreateRow,
         SetPayoutOrderCreated
<1>4. /\ UpayOrders' /\ upay' \in [Order -> UpayType] /\ hist' \in [Order -> SUBSET Status]
  BY <1>1, <1>3, UpayUntouched, Parts DEF upayVars
<1>5. CASE SetConfirmed(p)
  <2>1. proc[p].o \in Order
    BY <1>1, <1>5, HereFields DEF SetConfirmed, SetPayoutOrderConfirmed
  <2>2. Places' /\ proc' \in [Proc -> PlaceType]
    BY <1>1, <1>2, <1>3, <1>5, <2>1, GotoSound DEF SetConfirmed, Label, SetPayoutOrderConfirmed
  <2>3. Rest' /\ UNCHANGED <<row, faults>>
    BY <1>1, <1>3, <1>5, <2>1, Parts DEF SetConfirmed, Rest, jobVars, SetPayoutOrderConfirmed
  <2>. QED BY <1>1, <1>4, <2>2, <2>3, Assembled, Parts
<1>6. CASE InsertOrder(p)
  <2>1. PICK o \in Order : /\ row' = [row EXCEPT ![o] = "QUOTING"]
                           /\ Begin(p, "create", "create", o, 0, "NONE")
    BY <1>6 DEF InsertOrder, CreateRow
  <2>2. Places' /\ proc' \in [Proc -> PlaceType]
    BY <1>1, <1>2, <1>3, <2>1, BeginSound DEF Label, Op
  <2>3. Rest' /\ UNCHANGED faults
    BY <1>1, <1>3, <1>6, Parts DEF InsertOrder, Rest, jobVars, CreateRow
  <2>. QED BY <1>1, <1>2, <1>4, <2>1, <2>2, <2>3, RowWritten, Assembled, Parts
<1>7. CASE AttachOrderNo(p)
  <2>1. proc[p].o \in Order /\ proc[p].st \in Status
    BY <1>1, <1>7, HereFields DEF AttachOrderNo, SetPayoutOrderCreated
  <2>2. Places' /\ proc' \in [Proc -> PlaceType]
    BY <1>1, <1>2, <1>3, <1>7, <2>1, GotoSound DEF AttachOrderNo, Label, SetPayoutOrderCreated
  <2>3. Rest' /\ UNCHANGED <<row, faults>>
    BY <1>1, <1>3, <1>7, <2>1, Parts DEF AttachOrderNo, Rest, jobVars, SetPayoutOrderCreated
  <2>. QED BY <1>1, <1>4, <2>2, <2>3, Assembled, Parts
<1>8. CASE ApplyAnswer(p)
  <2>1. proc[p].o \in Order /\ proc[p].st \in Status
    BY <1>1, <1>8, HereFields DEF ApplyAnswer
  <2>2. row' \in [Order -> Status] /\ faults' \in 0 .. MaxFaults
    BY <1>1, <1>8, <2>1, StatusApplied DEF ApplyAnswer
  <2>3. Places' /\ proc' \in [Proc -> PlaceType]
    <3>1. CASE Begin(p, "sync", "sync", proc[p].o, 0, "NONE")
      BY <1>1, <1>2, <1>3, <2>1, <3>1, BeginSound DEF Label, Op
    <3>2. CASE Begin(p, "create", "insert", NoOrder, 0, "NONE")
      BY <1>1, <1>2, <1>3, <3>2, BeginSound DEF Label, Op
    <3>3. CASE Finish(p)
      BY <1>1, <1>3, <3>3, FinishSound
    <3>. QED BY <1>8, <3>1, <3>2, <3>3 DEF ApplyAnswer
  <2>4. Rest'
    BY <1>1, <1>3, <1>8, Parts DEF ApplyAnswer, Rest, jobVars
  <2>. QED BY <1>4, <2>2, <2>3, <2>4, Assembled
<1>. QED BY <1>5, <1>6, <1>7, <1>8

\* Reading an order from UPay and storing it, for a push or for the job.
LEMMA SyncStepsKeep ==
  ASSUME IInv, NEW p \in Proc,
         LookUp(p) \/ ReadInfo(p) \/ StoreInfo(p) \/ MarkProcessed(p)
  PROVE  IInv'
<1>1. TypeOK /\ Places /\ UpayOrders
  BY DEF IInv
<1>2. "NONE" \in Status /\ 0 \in Quote
  BY BoundAssumption DEF Status, Quote
<1>3. UNCHANGED <<attached, confirmed, recorded, jobVars, upayVars, agreed, faults>>
  BY DEF LookUp, ReadInfo, StoreInfo, MarkProcessed, dbVars, HasRow, OrderInfo
<1>4. /\ UpayOrders' /\ upay' \in [Order -> UpayType] /\ hist' \in [Order -> SUBSET Status]
      /\ faults' \in 0 .. MaxFaults
  BY <1>1, <1>3, UpayUntouched, Parts DEF upayVars
<1>5. proc[p].o \in Order /\ proc[p].st \in Status
  BY <1>1, HereFields DEF LookUp, ReadInfo, StoreInfo, MarkProcessed, HasRow, OrderInfo
<1>6. CASE LookUp(p)
  <2>1. proc[p].op = "push"
    BY <1>1, <1>6, HereFields DEF LookUp, HasRow
  <2>2. Places' /\ proc' \in [Proc -> PlaceType]
    <3>1. CASE Goto(p, "sync", 0, "NONE")
      BY <1>1, <1>2, <1>3, <1>5, <3>1, GotoSound DEF Label
    <3>2. CASE Goto(p, "mark", 0, "NONE")
      BY <1>1, <1>2, <1>3, <1>5, <2>1, <3>2, GotoSound DEF Label
    <3>. QED BY <1>6, <3>1, <3>2 DEF LookUp, HasRow
  <2>3. UNCHANGED <<row, processed>>
    BY <1>6 DEF LookUp, dbVars, HasRow
  <2>. QED BY <1>1, <1>3, <1>4, <2>2, <2>3, Assembled, Parts DEF Rest, jobVars
<1>7. CASE ReadInfo(p)
  <2>1. upay[proc[p].o].st \in Status
    BY <1>1, <1>5, UpayFields
  <2>2. Places' /\ proc' \in [Proc -> PlaceType]
    BY <1>1, <1>2, <1>3, <1>5, <1>7, <2>1, GotoSound DEF ReadInfo, Label, OrderInfo
  <2>3. UNCHANGED <<row, processed>>
    BY <1>7 DEF ReadInfo, dbVars, OrderInfo
  <2>. QED BY <1>1, <1>3, <1>4, <2>2, <2>3, Assembled, Parts DEF Rest, jobVars
<1>8. CASE StoreInfo(p)
  <2>1. row' \in [Order -> Status]
    BY <1>1, <1>5, <1>8, RowWritten DEF StoreInfo
  <2>2. Places' /\ proc' \in [Proc -> PlaceType]
    <3>1. CASE proc[p].op = "push" /\ Goto(p, "mark", 0, "NONE")
      BY <1>1, <1>2, <1>3, <1>5, <3>1, GotoSound DEF Label
    <3>2. CASE Finish(p)
      BY <1>1, <1>3, <3>2, FinishSound
    <3>. QED BY <1>8, <3>1, <3>2 DEF StoreInfo
  <2>3. UNCHANGED processed
    BY <1>8 DEF StoreInfo
  <2>. QED BY <1>1, <1>3, <1>4, <2>1, <2>2, <2>3, Assembled, Parts DEF Rest, jobVars
<1>9. CASE MarkProcessed(p)
  <2>1. <<proc[p].o, proc[p].note>> \in recorded
    BY <1>1, <1>9, HereFields DEF MarkProcessed
  <2>2. Places' /\ proc' \in [Proc -> PlaceType]
    BY <1>1, <1>3, <1>9, FinishSound DEF MarkProcessed
  <2>3. Rest' /\ UNCHANGED row
    BY <1>1, <1>3, <1>9, <2>1, Parts DEF MarkProcessed, Rest, jobVars
  <2>. QED BY <1>1, <1>4, <2>2, <2>3, Assembled, Parts
<1>. QED BY <1>6, <1>7, <1>8, <1>9

\* A push is recorded before it is worked on.
LEMMA PushKeeps ==
  ASSUME IInv, NEW w \in Pusher, NEW o \in Order, NEW st \in Status, ReceivePush(w, o, st)
  PROVE  IInv'
<1>1. w \in Proc /\ TypeOK /\ Places /\ UpayOrders
  BY DEF Proc, IInv
<1>2. /\ UNCHANGED <<row, attached, confirmed, processed, jobVars, upayVars, agreed, faults>>
      /\ recorded' = recorded \union {<<o, st>>}
  BY DEF ReceivePush, InsertPayoutWebhookEvent
<1>3. Places' /\ proc' \in [Proc -> PlaceType]
  <2>1. 0 \in Quote
    BY BoundAssumption DEF Quote
  <2>. QED BY <1>1, <1>2, <2>1, BeginSound DEF ReceivePush, Label, Op, InsertPayoutWebhookEvent
<1>4. Rest'
  BY <1>1, <1>2, Parts DEF Rest, jobVars
<1>. QED BY <1>1, <1>2, <1>3, <1>4, UpayUntouched, Assembled, Parts DEF upayVars

\* The job only works on orders that exist and on pushes that were recorded, and
\* only orders grow old.
LEMMA JobKeeps ==
  ASSUME IInv, JobStep \/ \E o \in Order : GrowsOld(o)
  PROVE  IInv'
<1>1. Job \in Proc /\ TypeOK /\ Places /\ UpayOrders
  BY DEF Proc, IInv
<1>2. UNCHANGED <<dbVars, upayVars, agreed, faults>>
  BY DEF JobStep, ListOrders, ListPushes, SyncNext, ReplayNext, GrowsOld
<1>3. "NONE" \in Status /\ 0 \in Quote
  BY BoundAssumption DEF Status, Quote
<1>4. Places' /\ proc' \in [Proc -> PlaceType]
  <2>1. CASE UNCHANGED proc
    BY <1>1, <1>2, <2>1, Parts DEF Places, dbVars
  <2>2. ASSUME NEW o \in Order, SyncNext(o)
        PROVE  Places' /\ proc' \in [Proc -> PlaceType]
    BY <1>1, <1>2, <1>3, <2>2, BeginSound DEF SyncNext, dbVars, Label, Op
  <2>3. ASSUME NEW n \in Order \X Status, ReplayNext(n)
        PROVE  Places' /\ proc' \in [Proc -> PlaceType]
    <3>1. n = <<n[1], n[2]>> /\ n[1] \in Order /\ n[2] \in Status /\ n \in recorded
      BY <1>1, <2>3 DEF ReplayNext, TypeOK
    <3>. QED BY <1>1, <1>2, <1>3, <2>3, <3>1, BeginSound DEF ReplayNext, dbVars, Label, Op
  <2>. QED BY <2>1, <2>2, <2>3 DEF JobStep, ListOrders, ListPushes, GrowsOld
<1>5. /\ phase' \in {"orders", "pushes"} /\ todo' \subseteq Order /\ replay' \subseteq recorded
      /\ old' \subseteq Order
  BY <1>1 DEF TypeOK, JobStep, ListOrders, ListPushes, SyncNext, ReplayNext, GrowsOld, ToSync,
              Unprocessed
<1>. QED BY <1>1, <1>2, <1>4, <1>5, UpayUntouched, Assembled, Parts
     DEF dbVars, upayVars, Rest

\* Giving up and starting again leave idle places behind.
LEMMA FailuresKeep ==
  ASSUME IInv, Crash \/ \E p \in Proc : Fail(p)
  PROVE  IInv'
<1>1. TypeOK /\ Places /\ UpayOrders
  BY DEF IInv
<1>2. UNCHANGED <<dbVars, upayVars, agreed>> /\ faults' \in 0 .. MaxFaults
  BY <1>1, FaultCounted DEF Crash, Fail
<1>3. Places' /\ proc' \in [Proc -> PlaceType]
  <2>1. CASE Crash
    <3>1. Idle \in PlaceType
      BY IdleSound DEF Sound
    <3>. QED BY <2>1, <3>1, IdleSound DEF Crash, Places
  <2>2. ASSUME NEW p \in Proc, Fail(p) PROVE Places' /\ proc' \in [Proc -> PlaceType]
    BY <1>1, <1>2, <2>2, FinishSound DEF Fail, dbVars
  <2>. QED BY <2>1, <2>2
<1>4. /\ phase' \in {"orders", "pushes"} /\ todo' \subseteq Order /\ replay' \subseteq recorded
      /\ old' \subseteq Order
  BY <1>1 DEF TypeOK, Crash, Fail, jobVars
<1>. QED BY <1>1, <1>2, <1>3, <1>4, UpayUntouched, Assembled, Parts
     DEF dbVars, upayVars, Rest

LEMMA InitIInv == Init => IInv
<1>. SUFFICES ASSUME Init PROVE IInv
  OBVIOUS
<1>1. Places /\ proc \in [Proc -> PlaceType]
  <2>1. Idle \in PlaceType
    BY IdleSound DEF Sound
  <2>. QED BY <2>1, IdleSound DEF Init, Places
<1>2. NoUpayOrder \in UpayType
  BY BoundAssumption DEF NoUpayOrder, UpayType, Status, Quote
<1>3. UpayOrders
  BY <1>2 DEF Init, UpayOrders, UpayKeeps, NoUpayOrder
<1>4. TypeOK
  BY <1>1, <1>2, BoundAssumption DEF Init, TypeOK, PlaceType, UpayType, Status
<1>. QED BY <1>1, <1>3, <1>4 DEF IInv

LEMMA IInvStep == IInv /\ [Next]_vars => IInv'
<1>. SUFFICES ASSUME IInv, [Next]_vars PROVE IInv'
  OBVIOUS
<1>1. ASSUME NEW o \in Order, UpayStep(o) PROVE IInv'
  BY <1>1, UpayStepKeeps
<1>2. ASSUME NEW c \in Client, Request(c) PROVE IInv'
  BY <1>2, RequestKeeps
<1>3. ASSUME NEW w \in Pusher, NEW o \in Order, NEW st \in Status, ReceivePush(w, o, st)
      PROVE  IInv'
  BY <1>3, PushKeeps
<1>4. ASSUME NEW p \in Proc, Step(p) PROVE IInv'
  BY <1>4, QuoteStepsKeep, CallsKeep, RowStepsKeep, SyncStepsKeep DEF Step
<1>5. CASE Crash \/ \E p \in Proc : Fail(p)
  BY <1>5, FailuresKeep
<1>6. CASE JobStep \/ \E o \in Order : GrowsOld(o)
  BY <1>6, JobKeeps
<1>7. CASE UNCHANGED vars
  BY <1>7 DEF vars, dbVars, jobVars, upayVars, IInv, TypeOK, Places, UpayOrders
<1>. QED BY <1>1, <1>2, <1>3, <1>4, <1>5, <1>6, <1>7 DEF Next
-------------------------------------------------------------------------------
(* Theorems                                                                *)

\* IInv holds throughout.
THEOREM Invariance == Spec => []IInv
BY InitIInv, IInvStep, PTL DEF Spec

\* Every variable keeps its type, however requests, pushes, polls, errors and
\* restarts interleave (the payout tables of 0013_payout.up.sql).
THEOREM TypeCorrect == Spec => []TypeOK
BY Invariance, PTL DEF IInv

\* Whatever UPay and the goroutines do, money is only taken for a quote the
\* member named and confirmed with the trade password (Confirm).
THEOREM TakenIsAgreed == Spec => []OnlyAgreedQuotesAreTaken
<1>1. IInv => OnlyAgreedQuotesAreTaken
  BY DEF IInv, UpayOrders, UpayKeeps, OnlyAgreedQuotesAreTaken
<1>. QED BY <1>1, Invariance, PTL
===============================================================================
