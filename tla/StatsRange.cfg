\* Half stands for 2^63 nanoseconds, 292 years, so that 11 is 25 of them: times
\* the 12 buckets that is no longer a word.
CONSTANTS
  Half = 128
  Buckets = 12
  Starts = {0, 1, 2, 9, 12}
  Keys = {"k", "j"}
  MaxCmds = 3
SPECIFICATION Spec
INVARIANT SparksInRange
