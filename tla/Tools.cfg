CONSTANTS
  HeadCaps = {0, 1, 3}
  TailCaps = {0, 1, 2, 3, 5}
  MaxChunk = 7
  MaxTotal = 20
  MaxSeqLen = 1
  EchoCap = 2
  MaxBytes = 2
  MaxSignals = 1
  MaxWrites = 3
  p1 = p1
  p2 = p2
  Procs = {p1, p2}
  Versions = {0, 1, 2, 3, 4}
  AloneBelow = 2
  Users = {p1, p2}
  MaxVersion = 2
SPECIFICATION SpecTools
INVARIANT TypeOK
INVARIANT HeadAndTail
INVARIANT AtMostTwoCopies
INVARIANT FeedChunkInvariant
INVARIANT ExecMirrors
INVARIANT HangupStoresRead
INVARIANT MigrateOnce
INVARIANT UpgradeInstalls
PROPERTY ExecReturns
PROPERTY HangupFlushes
\* Every part comes to its end.
CHECK_DEADLOCK FALSE
