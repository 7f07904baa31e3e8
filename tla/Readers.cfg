CONSTANTS
  Cmds = {"a", "b"}
  MaxAt = 2
  MaxId = 3
  MaxSize = {1, 3}
  Rounds = 2
  Formats = {"bash", "zsh", "fish", "pwsh", "nu"}
  MaxTime = 2
  MaxEntries = 3
  WithinSecond = FALSE
  Half = 128
  Buckets = 12
  Starts = {0, 1, 2, 5, 7, 9, 11}
  Keys = {"k", "j"}
  MaxCmds = 3
SPECIFICATION SpecReaders
INVARIANT SearchIsNewest
INVARIANT WalksBack
INVARIANT ParsedBack
INVARIANT ImportedOnce
INVARIANT SparksInRange
INVARIANT PageShowsText
INVARIANT HunksLikeGrep
INVARIANT CutHonest
INVARIANT ToldBack
INVARIANT DiffRight
PROPERTY PrunedOldest
 
\* Inputs are of a bounded length, and so are histories.
CHECK_DEADLOCK FALSE
