\* Reading bytes and iterating.
SPECIFICATION Spec
CONSTANTS
  Length = 5
  ReadSize = 2
  Calls <- ReadAndIterate
  Whences <- NoSeek
INVARIANT PositionCorrect
