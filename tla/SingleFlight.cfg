CONSTANTS
  Threads = {t1, t2, t3}
  Keys = {k1}
  Flights = {f1, f2, f3, f4}
  None = None
  Zero = Zero
  Outcomes = {"committed", "failed"}
SPECIFICATION FairSpec
INVARIANTS
  ExclusiveBuild
PROPERTIES
  EveryCallReturns
  FailureIsForgotten
  ImplementsBuildOnce
