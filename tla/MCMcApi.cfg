\* MobiCore session layer: live handles against the secure world's sessions.
CONSTANTS
  Fds = {f1, f2}
  Sids = {1, 2}
  McHandles = {m1, m2}
  Owners <- MCOwners
  Bufs = {b1}
  Faults = {"EFAULT"}
  OpenFaults = {"ENOENT"}
  DriverVersions <- MCDriverVersions
  MinVersion <- MCMinVersion
  ApiVersion <- MCApiVersion
  NoFd = NoFd
  NoOwner = NoOwner

SPECIFICATION Spec

INVARIANT TypeOK
INVARIANT LiveHandleOwnsItsSession
PROPERTY DeviceCloseCompletes
