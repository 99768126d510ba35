---------------------------- MODULE TradePassword ----------------------------
(***************************************************************************)
(* The trade password of one member: SetTradePassword and                  *)
(* CheckTradePassword of service/payout.go over the users row              *)
(* (repo/payout.go), called by any number of requests at once.             *)
(*                                                                         *)
(* A check reads the row, compares, and writes its result as a second      *)
(* statement; a stopped server is every goroutine failing.                 *)
(*                                                                         *)
(* Abstracted: the password itself (a guess is right or wrong) and the     *)
(* time of the lock, which ends at any moment (LockExpires).               *)
(***************************************************************************)
EXTENDS Naturals, FiniteSets

CONSTANTS
  Client,   \* goroutines serving requests
  MaxFails, \* wrong guesses that lock, tradePasswordFails
  MaxLost   \* bound on wrong guesses whose record is lost

ASSUME ClientAssumption == IsFiniteSet(Client)
ASSUME FailsAssumption == MaxFails \in Nat \ {0}
ASSUME LostAssumption == MaxLost \in Nat

VARIABLES
  hash,   \* users.trade_password_hash
  fails,  \* users.trade_password_fail_count
  lock,   \* "locked" until trade_password_locked_until, then "open"
  pc,     \* what each goroutine is at
  wrong,  \* wrong guesses compared since the lock last ended or was reset
  lost    \* wrong guesses that were compared and never recorded

rowVars == <<hash, fails, lock>>
vars == <<rowVars, pc, wrong, lost>>

TypeOK ==
  /\ hash \in {"NULL", "set"} /\ lock \in {"open", "locked"}
  /\ fails \in 0 .. MaxFails - 1
  /\ pc \in [Client -> {"idle", "reset", "miss"}]
  /\ wrong \in Nat
  /\ lost \in 0 .. MaxLost

Init ==
  /\ hash = "NULL" /\ fails = 0 /\ lock = "open"
  /\ pc = [c \in Client |-> "idle"]
  /\ wrong = 0 /\ lost = 0

Goto(c, label) == pc' = [pc EXCEPT ![c] = label]
-------------------------------------------------------------------------------
\* SetTradePasswordIfUnset, one statement
SetTradePassword ==
  /\ hash = "NULL"
  /\ hash' = "set" /\ fails' = 0 /\ lock' = "open"
  /\ UNCHANGED <<pc, wrong, lost>>

\* Mutant of MayCompare: the lock is not looked at.
IgnoresLock == hash = "set"

\* The row as CheckTradePassword reads it lets the guess be compared.
MayCompare == hash = "set" /\ lock = "open"

CheckTradePassword(c) ==
  /\ pc[c] = "idle" /\ MayCompare
  /\ \/ Goto(c, "reset") /\ UNCHANGED wrong
     \/ Goto(c, "miss") /\ wrong' = wrong + 1
  /\ UNCHANGED <<rowVars, lost>>

ResetTradePasswordFailures(c) ==
  /\ pc[c] = "reset"
  /\ fails' = 0 /\ lock' = "open" /\ wrong' = 0
  /\ Goto(c, "idle")
  /\ UNCHANGED <<hash, lost>>

\* Mutant of RecordTradePasswordFailure: the count is compared before it is
\* incremented.
LocksLate(c) ==
  /\ pc[c] = "miss"
  /\ LET full == fails >= MaxFails IN
       /\ fails' = IF full THEN 0 ELSE fails + 1
       /\ lock' = IF full THEN "locked" ELSE lock
  /\ Goto(c, "idle")
  /\ UNCHANGED <<hash, wrong, lost>>

RecordTradePasswordFailure(c) ==
  /\ pc[c] = "miss"
  /\ LET full == fails + 1 >= MaxFails IN
       /\ fails' = IF full THEN 0 ELSE fails + 1
       /\ lock' = IF full THEN "locked" ELSE lock
  /\ Goto(c, "idle")
  /\ UNCHANGED <<hash, wrong, lost>>

\* The result of a check is not written: an error, or the server stops.
Fail(c) ==
  /\ \/ pc[c] = "reset" /\ UNCHANGED lost
     \/ pc[c] = "miss" /\ lost < MaxLost /\ lost' = lost + 1
  /\ Goto(c, "idle")
  /\ UNCHANGED <<rowVars, wrong>>

LockExpires ==
  /\ lock = "locked"
  /\ lock' = "open" /\ wrong' = 0
  /\ UNCHANGED <<hash, fails, pc, lost>>

Next ==
  \/ SetTradePassword \/ LockExpires
  \/ \E c \in Client :
       \/ CheckTradePassword(c) \/ Fail(c)
       \/ ResetTradePasswordFailures(c) \/ RecordTradePasswordFailure(c)

Spec == Init /\ [][Next]_vars
-------------------------------------------------------------------------------
\* The lock after MaxFails wrong guesses holds back all but those already under
\* way: nothing is locked while a guess is compared, so each other goroutine
\* can add one, and so can each guess whose record was lost
\* (service/payout.go:816-830).
WrongGuessesAreBounded ==
  wrong <= MaxFails - 1 + Cardinality(Client) + lost
===============================================================================
