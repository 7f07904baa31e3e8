CONSTANTS
  secret = secret
  Crowd = Crowd
  masked = masked
  Procs = {p1, p2}
  Texts = {secret, masked}
  Redacted <- MaskSecret
  Blank = Blank
  Keys = {k1}
  Null = Null
  Times = {1, 2}
  MaxId = 2
  MaxAdds = 3
  MaxCrashes = 2
  OldBinary = TRUE
SPECIFICATION SpecScenarios
INVARIANT TypeOK
INVARIANT NoDrift
INVARIANT ScrubbedAlone
SYMMETRY ProcSymmetry
