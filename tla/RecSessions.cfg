CONSTANTS
  Snippets <- AllSnippets
  Natives <- AllNatives
  Kinds <- AllKinds
  StdoutFails = TRUE
  MaxCommands = 3
  MaxText = 2
  MaxIdle = 1
  MaxPending = 0
SPECIFICATION SpecScenarios
INVARIANT TypeOK
INVARIANT Attribution
INVARIANT Complete
INVARIANT PausedNotStored
INVARIANT KeptIfWritable
\* The session ends.
CHECK_DEADLOCK FALSE
