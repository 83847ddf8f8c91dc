CONSTANTS
  c1 = c1
  c2 = c2
  Contents <- Two
  NoContent = NoContent
  Bytes <- ByteCounts
  Artifacts = {1, 2, 3, 4}
  MaxNodes = 3
  PublishRequests <- Awkward
  RegisterRequests <- Registrations
  Reports <- NoReports
  Causes = {"cause"}
  NoCause = NoCause
  Boots = {}
  NoBoot = NoBoot
  MaxEpoch = 0
  EnvelopeGenerations = {0}
  MaxGeneration = 3
  RefModulus = 8
SPECIFICATION PersistentSpec
INVARIANTS
  GraphSound
  ReferencesSurvive
  DependenciesSurvive
  SoundRecordsLoad
VIEW WhatIsRead
