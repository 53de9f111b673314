CONSTANTS
  RoiOnVals <- MCRoiOnVals
  ProiOnVals <- MCProiOnVals
  CountVals <- MCCountVals
SPECIFICATION Spec
INVARIANT LeaseUsesResolvedIndices
