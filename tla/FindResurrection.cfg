CONSTANTS
  c1 = c1
  c2 = c2
  Contents <- Two
  NoContent = NoContent
  Bytes <- ByteCounts
  Artifacts = {1, 2, 3}
  MaxNodes = 4
  PublishRequests <- Direct
  RegisterRequests <- NoRegistrations
  Reports <- GoodReports
  Causes = {"cause"}
  NoCause = NoCause
  Boots = {}
  NoBoot = NoBoot
  MaxEpoch = 0
  EnvelopeGenerations = {0}
  MaxGeneration = 3
  RefModulus = 8
  Handles = {h1, h2}
  StagedRequests <- Planned
  Delivers <- AsPlanned
SPECIFICATION StagedSpec
PROPERTIES
  TransitionsAreLegal
