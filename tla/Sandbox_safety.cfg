SPECIFICATION FairSpec
CONSTANTS
  Sim = {s1, s2}
  Address = {a1}
  Inspection = {i1, i2}
  Client = {c1}
  None = none
  MaxRetries = 2
  MaxFaults = 1
INVARIANTS
  TypeOK
  ApprovedIsReviewed
PROPERTIES
  RestIsFinal
  ReadyIsApproved
