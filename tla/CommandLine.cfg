CONSTANTS
  Invocations = {p1, p2, p3, p4}
  NoBoot = NoBoot
SPECIFICATION Spec
SYMMETRY Alike
INVARIANTS
  ChangesAreKept
  SettledChangesStay
  OneAuthority
CHECK_DEADLOCK FALSE
