\* Marshaling round trip: encode decisions and delivery of outputs.
CONSTANTS
  W = 2
  NSlots = 2
  Values = {0, 1}
  WireSizes = {0, 3}
  InputOps <- MCInputOps
  Uuids <- MCUuids

SPECIFICATION Spec

INVARIANT TypeOK
PROPERTY EncodeDecidesAsSpecified
PROPERTY DecodeDeliversOutputs
INVARIANT UuidSentInNetworkOrder

\* A round trip ends after decoding (or after a rejected encode).
CHECK_DEADLOCK FALSE
