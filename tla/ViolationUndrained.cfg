CONSTANTS
  c1 = c1
  Msgs <- IcntThenEvent
  MaxMsgs = 4
  MSG_ICNT_MAX = 3
  MSG_HREPEAT_MAX = 3
  UINT32_MAX = 15
  INT32_MAX = 7
  HIST_BITS = 3
  AddrBits = 3
  WordBits = 4
  QuirkSifive = FALSE
  Requests = {1, 2, 15}
  CallSites = {}
  MaxStack = 1
  WellFormed = FALSE
  TornEnd = FALSE
  Faults = FALSE
  Disciplined = TRUE
SPECIFICATION Spec
INVARIANT AssertionsHold
