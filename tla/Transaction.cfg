CONSTANTS
  c1 = c1
  c2 = c2
  Contents <- Two
  NoContent = NoContent
  Bytes <- ByteCounts
  Artifacts = {1, 2, 3}
  MaxNodes = 2
  PublishRequests <- Direct
  RegisterRequests <- NoRegistrations
  Reports <- MixedReports
  Causes = {"cause"}
  NoCause = NoCause
  Boots = {b1}
  NoBoot = NoBoot
  MaxEpoch = 1
  EnvelopeGenerations = {0}
  MaxGeneration = 3
  RefModulus = 8
  Handles = {h1, h2}
  StagedRequests <- Planned
  Delivers <- LongerToo
SPECIFICATION StagedSpec
INVARIANTS
  NoLeftovers
  StagedStaysHidden
  ReservationsExact
  StagedReferencesExact
VIEW WhatStepsRead
SYMMETRY AnyClient
