CONSTANTS
  c1 = c1
  c2 = c2
  Contents <- Two
  NoContent = NoContent
  Bytes <- ByteCounts
  Artifacts = {1, 2}
  MaxNodes = 2
  PublishRequests <- Pair
  RegisterRequests <- Registrations
  Reports <- AllReports
  Causes = {"cause"}
  NoCause = NoCause
  Boots = {b1}
  NoBoot = NoBoot
  MaxEpoch = 2
  EnvelopeGenerations = {0, 1}
  MaxGeneration = 3
  RefModulus = 8
SPECIFICATION Spec
INVARIANTS
  TypeOK
  IndexesAgree
PROPERTIES
  WithdrawnForGood
