SPECIFICATION FairSpec
CONSTANTS
  Order = {o1}
  Client = {c1, c2}
  Pusher = {}
  Job = job
  NoOrder = none
  Outcome = {"SUCCEEDED", "FAILED", "REFUNDING"}
  MaxQuote = 1
  MaxPushes = 0
  MaxOld = 0
  MaxFaults = 0
PROPERTIES
  ConfirmedSettles
