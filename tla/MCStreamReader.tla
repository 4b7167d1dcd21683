--------------------------- MODULE MCStreamReader ---------------------------
(* Instances of StreamReader and SearchableStreamReader for TLC.           *)
EXTENDS SearchableStreamReader
ASSUME ReaderAssumption == LengthAssumption /\ CallsAssumption /\ WhencesAssumption
EveryCall == {"ReadWhile", "SkipWhile", "ReadLine", "ReadByte", "PeekByte", "ReadSome",
              "Read", "ReadExact", "PeekWhile", "Iterate"}
WithoutPeeking == Reading
ReadAndIterate == {"ReadByte", "Iterate"}
NoSeek == {}
SeekSet == {"SEEK_SET"}
SeekCur == {"SEEK_CUR"}
=============================================================================
