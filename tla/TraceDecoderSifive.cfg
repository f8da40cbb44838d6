CONSTANTS
  c1 = c1
  Msgs <- HTMSifive
  MaxMsgs = 6
  MSG_ICNT_MAX = 3
  MSG_HREPEAT_MAX = 3
  UINT32_MAX = 31
  INT32_MAX = 7
  HIST_BITS = 3
  AddrBits = 3
  WordBits = 4
  QuirkSifive = TRUE
  Requests = {2, 15}
  CallSites = {}
  MaxStack = 1
  WellFormed = TRUE
  TornEnd = FALSE
  Faults = FALSE
  Disciplined = TRUE
SPECIFICATION Spec
INVARIANTS AssertionsHold TntsConserved TimeConserved
PROPERTY TntsInOrder
