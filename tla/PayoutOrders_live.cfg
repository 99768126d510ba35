SPECIFICATION FairSpec
CONSTANTS
  Order = {o1}
  Client = {c1}
  Pusher = {w1}
  Job = job
  NoOrder = none
  Outcome = {"REFUNDING"}
  MaxQuote = 1
  MaxPushes = 1
  MaxOld = 1
  MaxFaults = 1
PROPERTIES
  PolledSettles
  
