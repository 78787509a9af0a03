SPECIFICATION Spec
CHECK_DEADLOCK FALSE
INVARIANTS
  RequestsUnderstood  ProcessesSound ToolsSound

  
