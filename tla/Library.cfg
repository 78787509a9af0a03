SPECIFICATION Spec
INVARIANTS
  FramesDelivered HpackInStep BlocksRoundTrip MessagesWellFormed ContainersKeep
  CreditExact AsioSound
PROPERTIES
  CallReturns SentWhole Progress
CHECK_DEADLOCK FALSE
