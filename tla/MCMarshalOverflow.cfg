\* Violation expected: EncodeKeepsWindowsInsideParent.
CONSTANTS
  W = 2
  NSlots = 2
  Values = {0, 1}
  WireSizes = {0, 3}
  InputOps <- MCInputOps
  Uuids <- MCUuids

SPECIFICATION Spec

PROPERTY EncodeKeepsWindowsInsideParent

CHECK_DEADLOCK FALSE
