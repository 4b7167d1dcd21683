\* Seeking relative to the current position.
SPECIFICATION SearchSpec
CONSTANTS
  Length = 5
  ReadSize = 2
  Calls <- WithoutPeeking
  Whences <- SeekCur
PROPERTY SeekFindsTarget
