SPECIFICATION Spec
CONSTANTS
  o1 = o1
  o2 = o2
  u1 = u1
  monthly = monthly
  Order = {o1, o2}
  User = {u1}
  Offer = {monthly}
  Owner <- OneOwner
  OfferOf <- OneOffer
  Days <- OneDays
  Handler = {h1}
  Rec = rec
  NoJob = none
  LastDay = 2
  MaxFaults = 1
SYMMETRY Symmetry
INVARIANTS
  TypeOK
  TermsStack
  NoInventedDays
  NoUntrackedPayment
PROPERTIES
  ImplementsMembership
  ImplementsActivations
  ActivationIsFinal
  WrittenOffStaysOff
