CONSTANTS
  Questions <- SomeQuestions
  CatalogQuestions <- SomeCatalogQuestions
  ProtocolVersion = 1
SPECIFICATION Spec
INVARIANTS
  OutcomeIsWorst
  ReasonsComplete
  HandsOutTheFit
