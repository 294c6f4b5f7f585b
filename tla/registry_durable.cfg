SPECIFICATION Spec
CONSTANTS
  a = a
  b = b
  p = p
  q = q
  r = r
  Callers <- TwoCallers
  Roots <- TwoRoots
  MaxId = 2
  Times = {1}
  MAX_WORKSPACES = 2
PROPERTY DurableReturn
