SPECIFICATION Spec
CONSTANTS
  Runs = {1}
  None = None
  ChunkBytes = 2
  Interval = 2
  Widths <- MCWidths
  Histories <- MCHistories
  MaxAppends = 3
  MaxBytes = 4
  StoreCrashes = 1
  ca = ca
  cb = cb
  Convs = {ca, cb}
  Hosts <- MCHosts
  Attempts = {1, 2}
  Requests = {r1, r2}
  Absent = Absent
  Calls <- MCCalls
  Scripts <- MCScripts
  DeltaBytes = 2
  BatchMax = 3
INVARIANTS StoreSafe LogsLossless ReclaimSafe TranscriptExact
PROPERTY Reclaims
\* A part comes to rest when its bounds are used up.
CHECK_DEADLOCK FALSE
