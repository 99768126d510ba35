SPECIFICATION FairSpec
CONSTANTS
  Order = {o1, o2}
  Refund = {r1, r2}
  Client = {c1, c2}
  Job = job
  None = none
  MaxFaults = 2
INVARIANTS
  TypeOK
  OutcomeIsTrue
  RefundedIffSettled
  UntrackedAreFaults
PROPERTIES
  RefundIsFinal
  ImplementsRefunding
  StoredRefundSettles
