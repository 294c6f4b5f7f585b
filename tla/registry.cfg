SPECIFICATION Spec
CONSTANTS
  a = a
  b = b
  p = p
  q = q
  r = r
  Callers <- TwoCallers
  Roots <- ThreeRoots
  MaxId = 3
  Times = {1}
  MAX_WORKSPACES = 2
SYMMETRY Symmetry
INVARIANTS TypeOK OneActive NoDuplicates DurableInTurn
