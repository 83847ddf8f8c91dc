CONSTANTS
  Artifacts = {1, 2, 3, 4, 5}
  MaxNodes = 4
  None = None
SPECIFICATION FairSearchSpec
INVARIANTS
  TypeOK
  GraphAcyclic
  SearchExact
  OrderIsTopological
PROPERTIES
  ImplementsGraph
  EveryCallEnds
