SPECIFICATION Spec
CONSTANTS
  Order = {o1}
  Client = {c1, c2}
  Pusher = {}
  Job = job
  NoOrder = none
  Outcome = {"SUCCEEDED"}
  MaxQuote = 2
  MaxPushes = 0
  MaxOld = 0
  MaxFaults = 1
SYMMETRY Symmetry
INVARIANTS
  TypeOK
  OnlyAgreedQuotesAreTaken
  RowIsTrue
  UnattachedIsUntouched
  ShownMoneyWasTaken
PROPERTIES
  ImplementsRemittance
