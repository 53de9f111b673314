CONSTANTS
  RoiOnVals <- MCRoiOnVals
  ProiOnVals <- MCProiOnVals
  CountVals <- MCCountVals
SPECIFICATION Spec
INVARIANT RoiModeMatchesEncoder
PROPERTY RequestsMatchEncoderMode
