SPECIFICATION Spec
CONSTANTS
  c1 = c1
  c2 = c2
  c3 = c3
  c4 = c4
  Calls <- FourCalls
  IdKinds = {"number"}
  Serial = TRUE
  MaxTx = 2
  MaxFaults = 0
SYMMETRY CallSymmetry
INVARIANT FlagExact
CHECK_DEADLOCK FALSE
