SPECIFICATION Spec
CONSTANTS
  Payer = {p1, p2, p3, p4}
  Recipient = {r1, r2}
  Account = {a1, a2, a3}
  Details = {d1, d2}
  Client = {c1, c2}
  None = none
  MaxFaults = 1
SYMMETRY Symmetry
INVARIANTS
  TypeOK
  BankIsShown
  OrdersAreBacked
  OrphansAreExplained
