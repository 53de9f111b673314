CONSTANTS
  Files <- MCFiles
  SeekTimes <- MCSeekTimes
  NoSeek = NoSeek
  MaxSeeks = 2
  ReadFaults = {TRUE, FALSE}
  Garbage <- MCGarbage
  Reuse = FALSE
  APE_MIN_VERSION = 3970
  APE_MAX_COMPRESS = 4000
  SyncWindow = 12
  SyncSlack = 10
  Fills <- MCFills
SPECIFICATION Spec
CHECK_DEADLOCK FALSE
INVARIANT TableAccessValid
 
PROPERTY ApeTrackSpec
INVARIANT SniffAsReference
PROPERTY SniffTerminates
