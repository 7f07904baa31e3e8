CONSTANTS
  Width = 6
  MaxRows = 4
  Words <- SomeWords
  MaxChars = 6
  MaxLines = 2
  RightPrompt <- Clock
  Clearance = 3
  EraseWith = {"J"}
  Tricks = {"absolute"}
SPECIFICATION Spec
INVARIANT GridOK
INVARIANT LineReadBack
INVARIANT KilledNotRead
\* The line is accepted or killed.
CHECK_DEADLOCK FALSE
