--------------------------- MODULE LineRetriever ---------------------------
(***************************************************************************)
(* MBUtility::LineRetriever (LineRetriever.cpp): the lines of an input     *)
(* stream, which is read in chunks.  A read returns less than a chunk only *)
(* at the end.  A byte in the buffer is its position in the input, and a   *)
(* buffer offset is the number of bytes before it.                         *)
(***************************************************************************)
EXTENDS Naturals, Sequences

CONSTANTS
  RecieveChunkSize,  \* 4096 in the code
  MaxOffset,         \* the offset beyond which the buffer is cut, 1000000 in the code
  TextLength         \* bound on the input

RetrieverAssumption ==
  RecieveChunkSize \in Nat \ {0} /\ MaxOffset \in Nat /\ TextLength \in Nat

VARIABLES
  text, textPos,     \* the stream: its bytes, how many have been read
  lineBuffer,        \* m_Buffer
  m_BufferOffset, m_CurrentLine,
  m_Finished, m_StreamFinished, m_LineBuffered,
  lineCall,          \* the call in progress
  searching,         \* whether it is in the loop of GetLine
  searchOffset       \* SearchOffset of that loop

lineVars == <<text, textPos, lineBuffer, m_BufferOffset, m_CurrentLine, m_Finished,
          m_StreamFinished, m_LineBuffered, lineCall, searching, searchOffset>>
streamVars == <<text, textPos, lineBuffer, m_StreamFinished>>

LineInit ==
  /\ \E n \in 0..TextLength : text \in [1..n -> {"x", "CR", "LF"}]
  /\ textPos = 0 /\ lineBuffer = <<>> /\ m_BufferOffset = 0 /\ m_CurrentLine = <<>>
  /\ m_Finished = FALSE /\ m_StreamFinished = FALSE /\ m_LineBuffered = FALSE
  /\ lineCall = "idle" /\ searching = FALSE /\ searchOffset = 0

\* m_Buffer.find('\n', offset)
NewlinesFrom(offset) == {i \in offset + 1..Len(lineBuffer) : text[lineBuffer[i]] = "LF"}
FirstNewline(offset) ==
  CHOOSE i \in NewlinesFrom(offset) : \A j \in NewlinesFrom(offset) : i <= j

\* Mutant of BeginCall: DiscardLine keeps the buffered line.
BeginCallKeeping(op) ==
  /\ lineCall = "idle" /\ lineCall' = op
  /\ UNCHANGED <<streamVars, m_BufferOffset, m_CurrentLine, m_Finished, m_LineBuffered, searching,
                 searchOffset>>

\* A call begins; DiscardLine drops the buffered line.
BeginCall(op) ==
  /\ lineCall = "idle" /\ lineCall' = op
  /\ m_LineBuffered' = (m_LineBuffered /\ op # "DiscardLine")
  /\ UNCHANGED <<streamVars, m_BufferOffset, m_CurrentLine, m_Finished, searching, searchOffset>>

\* GetLine and PeekLine return the buffered line, if there is one.
UseBuffered ==
  /\ lineCall # "idle" /\ m_LineBuffered
  /\ m_LineBuffered' = (lineCall = "PeekLine")
  /\ lineCall' = "idle"
  /\ UNCHANGED <<streamVars, m_BufferOffset, m_CurrentLine, m_Finished, searching, searchOffset>>

\* Otherwise one is fetched.
Fetches == lineCall # "idle" /\ ~m_LineBuffered /\ ~searching

\* There is none.  PeekLine and DiscardLine pass m_CurrentLine for the line,
\* which is emptied, and take it for buffered.
NoLine ==
  /\ Fetches /\ m_StreamFinished /\ lineBuffer = <<>>
  /\ m_Finished' = TRUE
  /\ m_CurrentLine' = IF lineCall = "GetLine" THEN m_CurrentLine ELSE <<>>
  /\ m_LineBuffered' = (lineCall # "GetLine")
  /\ lineCall' = "idle"
  /\ UNCHANGED <<streamVars, m_BufferOffset, searching, searchOffset>>

BeginSearch ==
  /\ Fetches /\ ~(m_StreamFinished /\ lineBuffer = <<>>)
  /\ searching' = TRUE /\ searchOffset' = m_BufferOffset
  /\ UNCHANGED <<streamVars, m_BufferOffset, m_CurrentLine, m_Finished, m_LineBuffered, lineCall>>

\* Mutant of ReadChunk: the end of the buffer is taken for searched before the
\* chunk is appended to it.
ReadChunkSkipping ==
  /\ searching /\ NewlinesFrom(searchOffset) = {} /\ ~m_StreamFinished
  /\ LET room == Len(text) - textPos
         size == IF room < RecieveChunkSize THEN room ELSE RecieveChunkSize
     IN /\ lineBuffer' = lineBuffer \o [i \in 1..size |-> textPos + i]
        /\ textPos' = textPos + size
        /\ m_StreamFinished' = (size < RecieveChunkSize)
  /\ searchOffset' = Len(lineBuffer')
  /\ UNCHANGED <<text, m_BufferOffset, m_CurrentLine, m_Finished, m_LineBuffered, lineCall,
                 searching>>

\* The loop reads a chunk, and searches on where the buffer ended.
ReadChunk ==
  /\ searching /\ NewlinesFrom(searchOffset) = {} /\ ~m_StreamFinished
  /\ searchOffset' = Len(lineBuffer)
  /\ LET room == Len(text) - textPos
         size == IF room < RecieveChunkSize THEN room ELSE RecieveChunkSize
     IN /\ lineBuffer' = lineBuffer \o [i \in 1..size |-> textPos + i]
        /\ textPos' = textPos + size
        /\ m_StreamFinished' = (size < RecieveChunkSize)
  /\ UNCHANGED <<text, m_BufferOffset, m_CurrentLine, m_Finished, m_LineBuffered, lineCall,
                 searching>>

\* Mutant of ReturnLine: a peeked line is not held, so that it is skipped.
ReturnLineForgetting ==
  /\ m_LineBuffered' = (lineCall = "DiscardLine")
  /\ lineCall' = "idle" /\ searching' = FALSE
  /\ UNCHANGED <<text, textPos, m_StreamFinished, m_Finished, searchOffset>>

\* GetLine returns to the caller, or to PeekLine or DiscardLine.
ReturnLine ==
  /\ m_LineBuffered' = (lineCall # "GetLine")
  /\ lineCall' = "idle" /\ searching' = FALSE
  /\ UNCHANGED <<text, textPos, m_StreamFinished, m_Finished, searchOffset>>

\* The bytes after the last newline.
LastLine ==
  /\ searching /\ NewlinesFrom(searchOffset) = {} /\ m_StreamFinished
  /\ m_CurrentLine' = SubSeq(lineBuffer, m_BufferOffset + 1, Len(lineBuffer))
  /\ lineBuffer' = <<>> /\ m_BufferOffset' = 0
  /\ ReturnLine

\* A line that ends with a newline; the buffer is cut when it is used up, or
\* when a lot of it is.
FoundLine ==
  /\ searching /\ NewlinesFrom(searchOffset) # {}
  /\ LET newline == FirstNewline(searchOffset)
         hasReturn == newline > 1 /\ text[lineBuffer[newline - 1]] = "CR"
     IN /\ m_CurrentLine' = SubSeq(lineBuffer, m_BufferOffset + 1,
                                   IF hasReturn THEN newline - 2 ELSE newline - 1)
        /\ IF newline = Len(lineBuffer) \/ newline > MaxOffset
           THEN /\ lineBuffer' = SubSeq(lineBuffer, newline + 1, Len(lineBuffer))
                /\ m_BufferOffset' = 0
           ELSE m_BufferOffset' = newline /\ UNCHANGED lineBuffer
  /\ ReturnLine

LineNext ==
  \/ \E op \in {"GetLine", "PeekLine", "DiscardLine"} : BeginCall(op)
  \/ UseBuffered \/ NoLine \/ BeginSearch \/ ReadChunk \/ LastLine \/ FoundLine

LineSpec == LineInit /\ [][LineNext]_lineVars
-----------------------------------------------------------------------------
\* The lines, at their bytes in the stream.
Source == INSTANCE LineSource WITH
  input <- text, pos <- textPos - (Len(lineBuffer) - m_BufferOffset),
  line <- m_CurrentLine, held <- m_LineBuffered, ended <- m_Finished, op <- lineCall

\* Whatever calls are mixed, and wherever chunks end and the buffer is cut, each
\* call does what it is for: the lines are those of the input, GetLine and PeekLine
\* skip none and only a peeked line is returned again, DiscardLine drops the one
\* that is held and no other, and the end is not reported before it.
ImplementsLineSource == Source!Spec
=============================================================================
