SPECIFICATION FairSpec
CONSTANTS
  Scopes <- MCScopes
  MaxDistance = 1
  CycleMod = 4
INVARIANTS
  TreeConsistent 
PROPERTIES
  ImplementsReadySet
  
