\* Two vectors of up to three elements, with and without a preallocated buffer
\* of two, of a type that is trivially copyable or not.
SPECIFICATION Spec
CONSTANTS
  v1 = v1  v2 = v2  b1 = b1  b2 = b2  b3 = b3  x = x  y = y
  Vectors <- TwoVectors
  Param = Param
  Blocks <- ThreeBlocks
  Null = Null
  Values <- TwoValues
  Default = x
  Raw = Raw
  Gone = Gone
  BufferSizes <- NoneOrTwo
  Lists <- SomeLists
  MaxSize = 3
  IndexWidth = 3
  Debug <- Release
SYMMETRY VectorSymmetry
INVARIANT StorageOK
PROPERTY ImplementsLists
\* Undefined behaviour of the code ends the behaviour.
CHECK_DEADLOCK FALSE
