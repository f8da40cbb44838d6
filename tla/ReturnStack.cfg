CONSTANTS
  a1 = a1
  a2 = a2
  Junk = Junk
  Addr <- MCAddr
  Maxes <- MCMaxes
  Default = 2
SPECIFICATION Spec
INVARIANTS TypeOK AssertionsHold
PROPERTY ImplementsBoundedStack
