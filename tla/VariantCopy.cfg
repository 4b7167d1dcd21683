\* Two variants of two types.
SPECIFICATION HoldersSpec
CONSTANTS
  Classes = {"DynamicVariant"}
  Names = {"a", "b"}
  Values = {"x", "y", "z"}
  Default = "x"
  TypeOf <- TypeDef
  Empty = "empty"
  Spent = "spent"
PROPERTY CopyHoldsSource
