CONSTANTS
  Files <- MCCutFiles
  SeekTimes <- MCSeekTimes
  NoSeek = NoSeek
  MaxSeeks = 2
  ReadFaults = {TRUE, FALSE}
  Garbage <- MCGarbage
  Reuse = TRUE
  APE_MIN_VERSION = 3970
  APE_MAX_COMPRESS = 4000
  SyncWindow = 12
  SyncSlack = 10
  Fills <- MCFills
SPECIFICATION Spec
CHECK_DEADLOCK FALSE
INVARIANT TableAccessValid
