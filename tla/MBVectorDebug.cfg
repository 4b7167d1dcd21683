\* Two vectors of up to three elements, with and without a preallocated buffer
\* of two, that check themselves against a second copy of their elements.
SPECIFICATION Spec
CONSTANTS
  v1 = v1  v2 = v2  b1 = b1  b2 = b2  b3 = b3  x = x  y = y
  Vectors <- TwoVectors
  Param = Param
  Blocks <- ThreeBlocks
  Null = Null
  Values <- TwoValues
  Default = x
  Raw = Raw
  Gone = Gone
  BufferSizes <- NoneOrTwo
  Lists <- SomeLists
  MaxSize = 3
  IndexWidth = 3
  Debug <- Debugging
SYMMETRY VectorSymmetry
INVARIANT AssertionsHold
\* Undefined behaviour of the code ends the behaviour.
CHECK_DEADLOCK FALSE
