SPECIFICATION FairSpec
CONSTANTS
  o1 = o1
  o2 = o2
  u1 = u1
  monthly = monthly
  Order = {o1}
  User = {u1}
  Offer = {monthly}
  Owner <- OneOwner
  OfferOf <- OneOffer
  Days <- OneDays
  Handler = {h1}
  Rec = rec
  NoJob = none
  LastDay = 1
  MaxFaults = 1
PROPERTIES
  CompletedIsRepaired
