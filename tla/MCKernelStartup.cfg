SPECIFICATION Spec
CONSTANTS
  Proc = {p1, p2}
  Root = {"r1", "r2"}
  Config <- MCConfig
  Unsafe = {3}
  LastInstant = 1
  MaxDeclared = 2
SYMMETRY Processes
INVARIANTS
  StartupTypeOK
  StampIsTrue
  AdvanceDeclared
  ClockRatchets
