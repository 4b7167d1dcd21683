----------------------- MODULE SearchableStreamReader -----------------------
(***************************************************************************)
(* MBUtility::SearchableStreamReader (SearchableStreamReader.h), a         *)
(* StreamReader that can be positioned, over a stream that can, such as    *)
(* InputFileStream (FileStreams.h).  streamPos is the stream's position.   *)
(***************************************************************************)
EXTENDS StreamReader, Integers

CONSTANT Whences  \* the kinds of seek the client uses

WhencesAssumption == Whences \subseteq {"SEEK_SET", "SEEK_CUR", "SEEK_END"}

\* The position a seek asks for, from a current position.
Target(offset, whence, current) ==
  CASE whence = "SEEK_SET" -> offset
    [] whence = "SEEK_CUR" -> current + offset
    [] whence = "SEEK_END" -> Length + offset

\* SetInputPosition: the stream moves by itself, then the reader forgets its
\* buffer and sets its own position.  The client asks for positions of the
\* input, and uses no iterator afterwards.
SetInputPosition(offset, whence) ==
  /\ call = "idle"
  /\ streamPos' = Target(offset, whence, streamPos)
  /\ m_Buffer' = <<>> /\ m_CurrentOffset' = 0 /\ m_EOFReached' = FALSE
  /\ m_TotalOffset' = CASE whence = "SEEK_SET" -> offset
                        [] whence = "SEEK_CUR" -> Position + offset
                        [] whence = "SEEK_END" -> 0
  /\ iterator' = "none" /\ m_Offset' = 0
  /\ seen' = <<>> /\ threw' = FALSE
  /\ arg' = Target(offset, whence, Consumed)
  /\ UNCHANGED <<capacity, call>>

\* Both the reader and the stream, as the code moves it, stay in the input.
InInput(offset, whence) ==
  /\ Target(offset, whence, Consumed) \in 0..Length
  /\ Target(offset, whence, streamPos) \in 0..Length

Seek == \E whence \in Whences, offset \in -Length..Length :
          InInput(offset, whence) /\ SetInputPosition(offset, whence)

SearchNext == Next \/ Seek

SearchSpec == Init /\ [][SearchNext]_vars

\* A call that can go on does.
SearchFairSpec == SearchSpec /\ WF_vars(Step)

\* The bytes that are read next after a seek are those at the position asked
\* for, counted from the reader's own position with SEEK_CUR.
SeekFindsTarget ==
  [][\A whence \in Whences, offset \in -Length..Length :
       InInput(offset, whence) /\ SetInputPosition(offset, whence) =>
         Consumed' = Target(offset, whence, Consumed)]_vars

\* Position() follows the bytes that are read, whether they came with a refill
\* or not, and is right after a stored position has been sought.  (A peek may
\* set it back, but no step that reads does.)
PositionFollows ==
  [][IF Seek THEN Position' = Consumed'
             ELSE call \notin {"PeekWhile", "Increment"} =>
                    Position' + Consumed = Position + Consumed']_vars
=============================================================================
