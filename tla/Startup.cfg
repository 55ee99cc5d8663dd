CONSTANTS
  Values <- MCValues
  MAX_GIVEN = 3
SPECIFICATION Spec
INVARIANTS
  ParametersFromOwnKeys
  DetectsOnlyWhenReady
