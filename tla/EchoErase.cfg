CONSTANTS
  Width = 6
  MaxRows = 4
  Words <- SomeWords
  MaxChars = 6
  MaxLines = 2
  RightPrompt <- None
  Clearance = 3
  EraseWith = {"K"}
  Tricks = {}
SPECIFICATION Spec
INVARIANT LineReadBack
\* The line is accepted or killed.
CHECK_DEADLOCK FALSE
