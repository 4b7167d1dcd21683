\* Every sequential part, each on an instance of its own.
SPECIFICATION MCSpec
CONSTANTS
  \* Searches of containers of up to five elements.
  Keys = {1, 2, 3, 4}
  MaxLength = 5
  \* Three lists of up to two elements.
  MergeKeys = {1, 2, 3}
  ListCount = 3
  ListLength = 2
  \* Determinants and inverses of small matrices.
  Shapes <- ShapeDef
  \* Two objects of each class that holds a value, three values of two types.
  Classes = {"OptionalMemcpy", "OptionalPlain", "OptionalClass", "DynamicVariant",
             "SmartPtr", "CopyableUnique", "Dynamic", "MOFunction"}
  Names = {"a", "b"}
  Values = {"x", "y", "z"}
  Default = "x"
  TypeOf <- TypeDef
  Empty = "empty"
  Spent = "spent"
  \* Lines of every input of up to five bytes, in chunks of two.
  RecieveChunkSize = 2
  MaxOffset = 2
  TextLength = 5
  \* Up to three bytes of input and of output, copied in chunks of two.
  ReadChunkSize = 2
  MaxInput = 3
  MaxOutput = 3
  \* Five bytes through a buffer of two, every call, and seeks to positions.
  Length = 5
  ReadSize = 2
  Calls <- EveryCall
  Whences <- SeekSet
INVARIANTS SearchRight CopyComplete InverseRight BufferOK AnswersRight
PROPERTIES ImplementsCells ImplementsLineSource ImplementsByteReader PositionFollows CallsEnd
\* Each part stops when its call or its input is done.
CHECK_DEADLOCK FALSE
