CONSTANTS
  p1 = p1
  p2 = p2
  Procs = {p1, p2}
  Versions = {1}
  AloneBelow = 0
SPECIFICATION Spec
INVARIANT VersionTracks
CHECK_DEADLOCK FALSE
