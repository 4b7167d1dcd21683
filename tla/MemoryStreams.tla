--------------------------- MODULE MemoryStreams ---------------------------
(***************************************************************************)
(* The streams of MBInterfaces.h and WriteData, which copies what is left  *)
(* of an input to an output.  The input is an MBBufferInputStream, or an   *)
(* MBFileInputStream over a std::ifstream; the output an                   *)
(* MBStringOutputStream or an MBFileOutputStream.  Positions count from 0. *)
(* A byte is where it comes from: its place in the input, 0 for the byte 0 *)
(* that fills a gap, or Written if the program wrote it itself.            *)
(***************************************************************************)
EXTENDS Integers, Sequences

CONSTANTS
  ReadChunkSize,  \* of WriteData, 4096 in the code
  MaxInput,       \* bounds on the input,
  MaxOutput       \* on where the output ends

VARIABLES
  kinds,     \* <<kind of the input, kind of the output>>
  input,     \* the bytes of the input,
  offset,    \* m_ReadOffset, or the position of the ifstream,
  failed,    \* whether the ifstream has its failbit set
  content,   \* the bytes of the string, or written to the ofstream,
  position,  \* m_OutputPosition, or the position of the ofstream,
  visible,   \* the bytes the string or the file has
  chunk,     \* Buffer of WriteData
  copyPhase, \* "idle", or where WriteData is: "read", "write", "flush", "copied"
  begun      \* the streams when WriteData was called

inputVars  == <<input, offset, failed>>
outputVars == <<content, position, visible>>
streamsVars == <<kinds, inputVars, outputVars, chunk, copyPhase, begun>>

StreamsAssumption ==
  /\ ReadChunkSize \in Nat \ {0} /\ MaxInput \in Nat /\ MaxOutput \in Nat

Written == -1

InFile == kinds[1] # "buffer"
Unopened == kinds[1] = "unopened"
ToFile == kinds[2] = "file"

\* A string that is written to can have anything in it; opening a file empties it.
StreamsInit ==
  /\ kinds \in {"buffer", "file", "unopened"} \X {"string", "file"}
  /\ input \in {[i \in 1..n |-> i] : n \in 0..MaxInput} /\ offset = 0 /\ failed = FALSE
  /\ content \in IF ToFile THEN {<<>>} ELSE {<<>>, <<Written, Written>>}
  /\ position \in IF ToFile THEN {0} ELSE 0..1
  /\ visible = content /\ chunk = <<>> /\ copyPhase = "idle" /\ begun = <<>>

\* Calls of the program are made while WriteData does not run.
ProgramCalls ==
  copyPhase \in {"idle", "copied"} /\ copyPhase' = "idle" /\ begun' = <<>> /\ UNCHANGED <<kinds, chunk>>
-----------------------------------------------------------------------------
(* The input                                                               *)

\* What a read of n bytes gets: no more than there are, and nothing from a file
\* that is not open, has failed, or is read past its end.
Fetched(n) == IF failed \/ Unopened THEN <<>>
              ELSE SubSeq(input, offset + 1, IF offset + n < Len(input) THEN offset + n
                                             ELSE Len(input))

\* A read past the end of a file sets eofbit and failbit, and Read clears them;
\* a failbit without eofbit stays.
Advance(read) == offset' = offset + Len(read) /\ UNCHANGED <<input, failed>>

Read(n) == ProgramCalls /\ Advance(Fetched(n)) /\ UNCHANGED outputVars

\* A position before the start sets failbit, which nothing clears.
SeekInput(o, whence) ==
  /\ ProgramCalls /\ InFile /\ UNCHANGED <<input, outputVars>>
  /\ LET to == o + (CASE whence = "SEEK_SET" -> 0 [] whence = "SEEK_CUR" -> offset
                      [] whence = "SEEK_END" -> Len(input))
     IN IF failed \/ Unopened THEN UNCHANGED <<offset, failed>>
        ELSE IF to < 0 THEN failed' = TRUE /\ UNCHANGED offset
        ELSE to <= MaxInput + 1 /\ offset' = to /\ UNCHANGED failed
-----------------------------------------------------------------------------
(* The output                                                              *)

\* Mutant of Extended: resized whether or not the string is long enough.
Resized(data) ==
  [i \in 1..position + Len(data) |-> IF i \in DOMAIN content THEN content[i] ELSE 0]

\* The string is made to reach to the end of the bytes even if there are none; a
\* file only by bytes.  What comes after them is kept, what is skipped is 0.
Extended(data) ==
  IF position + Len(data) > Len(content) /\ ~(ToFile /\ data = <<>>)
  THEN content \o [i \in 1..position + Len(data) - Len(content) |-> 0]
  ELSE content

Put(data) ==
  /\ position + Len(data) <= MaxOutput
  /\ content' = [i \in DOMAIN Extended(data) |->
                   IF i - position \in DOMAIN data THEN data[i - position] ELSE Extended(data)[i]]
  /\ position' = position + Len(data)
  /\ visible' \in {content'} \cup IF ToFile THEN {visible} ELSE {}

\* An ofstream may keep what is written until it is flushed or moved.
Flush == visible' = content /\ UNCHANGED <<content, position>>

Write(data) == ProgramCalls /\ Put(data) /\ UNCHANGED inputVars

SeekOutput(p) ==
  /\ ProgramCalls /\ p <= MaxOutput
  /\ position' = p /\ visible' = content
  /\ UNCHANGED <<inputVars, content>>

FlushOutput == ProgramCalls /\ Flush /\ UNCHANGED inputVars
-----------------------------------------------------------------------------
(* WriteData(Input, Output)                                                *)

WriteData ==
  /\ copyPhase \in {"idle", "copied"} /\ copyPhase' = "read"
  /\ begun' = <<content, position, Fetched(Len(input))>>
  /\ UNCHANGED <<kinds, inputVars, outputVars, chunk>>

FetchChunk ==
  /\ copyPhase = "read" /\ copyPhase' = "write"
  /\ chunk' = Fetched(ReadChunkSize) /\ Advance(Fetched(ReadChunkSize))
  /\ UNCHANGED <<kinds, outputVars, begun>>

\* A chunk that is not full is the last.
WriteChunk ==
  /\ copyPhase = "write"
  /\ Put(chunk)
  /\ copyPhase' = IF Len(chunk) < ReadChunkSize THEN "flush" ELSE "read"
  /\ UNCHANGED <<kinds, inputVars, chunk, begun>>

FlushCopy ==
  /\ copyPhase = "flush" /\ copyPhase' = "copied"
  /\ Flush /\ chunk' = <<>>
  /\ UNCHANGED <<kinds, inputVars, begun>>

StreamsNext ==
  \/ \E n \in 1..ReadChunkSize : Read(n)
  \/ \E o \in -MaxInput - 1..MaxInput, whence \in {"SEEK_SET", "SEEK_CUR", "SEEK_END"} :
       SeekInput(o, whence)
  \/ \E data \in {<<>>, <<Written>>} : Write(data)
  \/ \E p \in 0..MaxOutput : SeekOutput(p)
  \/ FlushOutput
  \/ WriteData \/ FetchChunk \/ WriteChunk \/ FlushCopy

StreamsSpec == StreamsInit /\ [][StreamsNext]_streamsVars
-----------------------------------------------------------------------------
\* Whatever was read, written and moved before, WriteData leaves in the string or
\* the file all that was left of the input, where the output stood, and
\* otherwise what was there, with zeros for what nothing was written to; both
\* streams then stand behind it.
CopyComplete ==
  copyPhase = "copied" =>
    LET before == begun[1]  at == begun[2]  rest == begun[3]
        end == at + Len(rest)
    IN /\ \A i \in 1..Len(rest) : visible[at + i] = rest[i]
       /\ \A i \in DOMAIN visible \ (at + 1..end) :
            visible[i] = IF i \in DOMAIN before THEN before[i] ELSE 0
       /\ Len(visible) = IF end > Len(before) /\ (rest # <<>> \/ ~ToFile) THEN end
                         ELSE Len(before)
       /\ position = end
       /\ Fetched(1) = <<>>
=============================================================================
