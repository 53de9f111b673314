\* Violation expected: NoLeakedDescriptor.
CONSTANTS
  Fds = {f1, f2}
  Sids = {1, 2}
  Handles = {h1, h2}
  Owners <- MCOwners
  Bufs = {b1}
  Faults = {"ENOMEM"}
  OpenFaults = {"ENOENT"}
  DriverVersions <- MCDriverVersions
  MinVersion <- MCMinVersion
  ApiVersion <- MCApiVersion
  NoFd = NoFd
  NoOwner = NoOwner
  TeeErrors = {"TEEC_ERROR_ITEM_NOT_FOUND"}
  Ops <- MCOps
  W = 2
  NSlots = 1
  Values = {0}
  WireSizes = {0}

SPECIFICATION Spec

INVARIANT NoLeakedDescriptor
