-------------------------- MODULE TradePasswordProofs --------------------------
(***************************************************************************)
(* Proofs about TradePassword, for any number of requests at once, of      *)
(* guesses before the lock and of records lost.                            *)
(***************************************************************************)
EXTENDS TradePassword, FiniteSetTheorems, TLAPS

Missed == {c \in Client : pc[c] = "miss"}

(* A wrong guess that counts is recorded in fails, still to be recorded or *)
(* lost; once the lock is set those to come are as many as are in flight.  *)
Counted ==
  /\ hash = "NULL" => wrong = 0
  /\ lock = "open" => wrong <= fails + Cardinality(Missed) + lost

IInv == TypeOK /\ Counted /\ WrongGuessesAreBounded

-------------------------------------------------------------------------------
LEMMA TypeStep == TypeOK /\ [Next]_vars => TypeOK'
<1> SUFFICES ASSUME TypeOK, [Next]_vars PROVE TypeOK'
  OBVIOUS
<1> USE FailsAssumption, LostAssumption DEF TypeOK, Goto, rowVars
<1>1. CASE SetTradePassword
  BY <1>1 DEF SetTradePassword
<1>2. CASE LockExpires
  BY <1>2 DEF LockExpires
<1>3. ASSUME NEW c \in Client, CheckTradePassword(c) PROVE TypeOK'
  BY <1>3 DEF CheckTradePassword
<1>4. ASSUME NEW c \in Client, Fail(c) PROVE TypeOK'
  BY <1>4 DEF Fail
<1>5. ASSUME NEW c \in Client, ResetTradePasswordFailures(c) PROVE TypeOK'
  BY <1>5 DEF ResetTradePasswordFailures
<1>6. ASSUME NEW c \in Client, RecordTradePasswordFailure(c) PROVE TypeOK'
  BY <1>6 DEF RecordTradePasswordFailure
<1>7. CASE UNCHANGED vars
  BY <1>7 DEF vars
<1> QED
  BY <1>1, <1>2, <1>3, <1>4, <1>5, <1>6, <1>7 DEF Next

\* The guesses in flight are goroutines, one each.
LEMMA FewInFlight ==
  /\ Cardinality(Client) \in Nat /\ Cardinality(Missed) \in 0 .. Cardinality(Client)
  /\ Cardinality(Missed') \in Nat
<1>1. IsFiniteSet(Client) /\ Cardinality(Client) \in Nat
  BY ClientAssumption, FS_CardinalityType
<1>2. IsFiniteSet(Missed) /\ Cardinality(Missed) \in Nat /\ Cardinality(Missed) <= Cardinality(Client)
  BY <1>1, FS_Subset, FS_CardinalityType DEF Missed
<1>3. IsFiniteSet(Missed') /\ Cardinality(Missed') \in Nat
  BY <1>1, FS_Subset, FS_CardinalityType DEF Missed
<1> QED
  BY <1>1, <1>2, <1>3

\* A goroutine that comes to, or leaves, its record is one more, or one less.
LEMMA InFlightStep ==
  ASSUME TypeOK, NEW c \in Client, NEW label, Goto(c, label)
  PROVE  /\ pc[c] # "miss" /\ label = "miss" => Cardinality(Missed') = Cardinality(Missed) + 1
         /\ pc[c] = "miss" /\ label # "miss" => Cardinality(Missed') = Cardinality(Missed) - 1
         /\ pc[c] # "miss" /\ label # "miss" => Cardinality(Missed') = Cardinality(Missed)
<1>1. IsFiniteSet(Missed)
  BY ClientAssumption, FS_Subset DEF Missed
<1>2. Missed' = IF label = "miss" THEN Missed \union {c} ELSE Missed \ {c}
  BY DEF Goto, TypeOK, Missed
<1>3. CASE pc[c] # "miss" /\ label = "miss"
  <2>1. c \notin Missed /\ Missed' = Missed \union {c}
    BY <1>2, <1>3 DEF Missed
  <2> QED
    BY <1>1, <1>3, <2>1, FS_AddElement
<1>4. CASE pc[c] = "miss" /\ label # "miss"
  <2>1. c \in Missed /\ Missed' = Missed \ {c}
    BY <1>2, <1>4 DEF Missed
  <2> QED
    BY <1>1, <1>4, <2>1, FS_RemoveElement
<1>5. CASE pc[c] # "miss" /\ label # "miss"
  <2>1. Missed' = Missed
    BY <1>2, <1>5 DEF Missed
  <2> QED
    BY <1>5, <2>1
<1> QED
  BY <1>3, <1>4, <1>5

LEMMA BoundStep == IInv /\ TypeOK' /\ [Next]_vars => (Counted /\ WrongGuessesAreBounded)'
<1> SUFFICES ASSUME IInv, TypeOK', [Next]_vars
             PROVE  (Counted /\ WrongGuessesAreBounded)'
  OBVIOUS
<1> DEFINE Goal == (Counted /\ WrongGuessesAreBounded)'
<1>0. /\ Cardinality(Client) \in Nat /\ Cardinality(Missed') \in Nat
      /\ Cardinality(Missed) \in 0 .. Cardinality(Client)
  BY FewInFlight
<1>q. MaxFails \in Nat \ {0} /\ MaxLost \in Nat
  BY FailsAssumption, LostAssumption
<1> USE <1>0, <1>q DEF IInv, TypeOK, Counted, WrongGuessesAreBounded, rowVars
<1>1. CASE SetTradePassword
  <2>1. Cardinality(Missed') = Cardinality(Missed)
    BY <1>1 DEF SetTradePassword, Missed
  <2> QED
    BY <1>1, <2>1 DEF SetTradePassword
<1>2. CASE LockExpires
  BY <1>2 DEF LockExpires
<1>3. ASSUME NEW c \in Client, CheckTradePassword(c) PROVE Goal
  <2>1. /\ pc[c] = "idle" /\ hash' = "set" /\ lock = "open" /\ UNCHANGED <<fails, lock, lost>>
        /\ \/ Goto(c, "reset") /\ UNCHANGED wrong
           \/ Goto(c, "miss") /\ wrong' = wrong + 1
    BY <1>3 DEF CheckTradePassword, MayCompare
  <2>2. \/ Cardinality(Missed') = Cardinality(Missed) /\ wrong' = wrong
        \/ Cardinality(Missed') = Cardinality(Missed) + 1 /\ wrong' = wrong + 1
    BY <2>1, InFlightStep
  <2>3. Cardinality(Missed') <= Cardinality(Client)
    <3>1. Missed' \subseteq Client
      BY DEF Missed
    <3> QED
      BY <3>1, ClientAssumption, FS_Subset
  <2>4. Counted'
    BY <2>1, <2>2
  <2> QED
    BY <2>1, <2>2, <2>3, <2>4
<1>4. ASSUME NEW c \in Client, Fail(c) PROVE Goal
  <2>1. \/ Cardinality(Missed') = Cardinality(Missed) /\ lost' = lost
        \/ Cardinality(Missed') = Cardinality(Missed) - 1 /\ lost' = lost + 1
    BY <1>4, InFlightStep DEF Fail
  <2> QED
    BY <1>4, <2>1 DEF Fail
<1>5. ASSUME NEW c \in Client, ResetTradePasswordFailures(c) PROVE Goal
  BY <1>5 DEF ResetTradePasswordFailures
<1>6. ASSUME NEW c \in Client, RecordTradePasswordFailure(c) PROVE Goal
  <2>1. Cardinality(Missed') = Cardinality(Missed) - 1
    BY <1>6, InFlightStep DEF RecordTradePasswordFailure
  <2>2. /\ UNCHANGED <<hash, wrong, lost>>
        /\ \/ lock' = "locked"
           \/ lock' = lock /\ fails' = fails + 1
    BY <1>6 DEF RecordTradePasswordFailure
  <2> QED
    BY <2>1, <2>2
<1>7. CASE UNCHANGED vars
  <2>1. Cardinality(Missed') = Cardinality(Missed)
    BY <1>7 DEF vars, Missed
  <2> QED
    BY <1>7, <2>1 DEF vars
<1> QED
  BY <1>1, <1>2, <1>3, <1>4, <1>5, <1>6, <1>7 DEF Next

THEOREM Invariance == Spec => []IInv
<1>1. Init => IInv
  <2> SUFFICES ASSUME Init PROVE IInv
    OBVIOUS
  <2>1. TypeOK
    BY FailsAssumption, LostAssumption DEF Init, TypeOK
  <2> QED
    BY <2>1, FewInFlight, FailsAssumption
    DEF Init, IInv, TypeOK, Counted, WrongGuessesAreBounded
<1>2. IInv /\ [Next]_vars => IInv'
  BY TypeStep, BoundStep DEF IInv
<1> QED
  BY <1>1, <1>2, PTL DEF Spec

\* The variables keep their types; the count stays below the limit.
THEOREM TypeCorrect == Spec => []TypeOK
BY Invariance, PTL DEF IInv

\* However many guesses are compared at once, the lock holds back all but
\* those under way, and those whose record was lost.
THEOREM GuessesAreBounded == Spec => []WrongGuessesAreBounded
BY Invariance, PTL DEF IInv
===============================================================================
