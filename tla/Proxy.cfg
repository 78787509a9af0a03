CONSTANT Shuffled = FALSE
SPECIFICATION Spec
CHECK_DEADLOCK FALSE
INVARIANTS
  QueueExact ExchangesIsolated  PipelineSound BackendInStep
   BackendsBalanced
