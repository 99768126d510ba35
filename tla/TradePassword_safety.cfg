SPECIFICATION Spec
CONSTANTS
  Client = {c1, c2, c3}
  MaxFails = 3
  MaxLost = 2
SYMMETRY Symmetry
INVARIANTS
  TypeOK
  WrongGuessesAreBounded
