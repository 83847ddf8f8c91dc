CONSTANTS
  Calls = 3
  Kinds = {"request", "malformed", "damaged", "oversized"}
  HeaderLen = 2
  FrameLen = 4
  Capacity = 3
SPECIFICATION Spec
INVARIANTS
  Aligned
  AnswersAreOurs
PROPERTIES
  EveryCallEnds
  EveryRequestAnswered
  ImplementsExchange
CHECK_DEADLOCK FALSE
