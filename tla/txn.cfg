SPECIFICATION FairSpec
CONSTANTS
  c1 = c1
  c2 = c2
  c3 = c3
  c4 = c4
  Calls <- ThreeCalls
  IdKinds = {"number", "string"}
  Serial = FALSE
  MaxTx = 2
  MaxFaults = 2
INVARIANTS TypeOK FlagNotStuck ActiveIsOpen ExpiredNotCommitted ResultIsTrue
PROPERTY NoOrphan
CHECK_DEADLOCK FALSE
