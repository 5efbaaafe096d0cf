SPECIFICATION Spec
CONSTANTS
  MaxLevel = 2
  Lit = {2}
INVARIANT NoZeroDelay
