---------------------------- MODULE StreamReader ----------------------------
(***************************************************************************)
(* MBUtility::StreamReader (StreamReader.h): buffered reading, peeking and *)
(* iterating over a stream that returns as much as it has, and 0 at its    *)
(* end.  Byte number i of the input is i, so that a byte out of place      *)
(* shows; a predicate is the first byte that fails it.  A call is a loop,  *)
(* and an action is one turn of it.  m_Buffer is the valid part of the     *)
(* code's, whose size is capacity.  The stream returns 0 again after its   *)
(* end, as those of the library do.                                        *)
(***************************************************************************)
EXTENDS Naturals, Sequences

CONSTANTS
  Length,    \* bytes in the input
  ReadSize,  \* the buffer's size at first, 4096 in the code
  Calls      \* the operations the client calls, see Operations

\* The operations that read through p_FillBuffer; those that peek.
Reading == {"ReadWhile", "SkipWhile", "ReadLine", "ReadByte", "PeekByte",
            "ReadSome", "Read", "ReadExact"}
Operations == Reading \cup {"PeekWhile", "Iterate"}

LengthAssumption == Length \in Nat /\ ReadSize \in Nat \ {0}
CallsAssumption == Calls \subseteq Operations

VARIABLES
  streamPos,        \* bytes the stream has handed out
  m_Buffer, capacity, m_CurrentOffset, m_TotalOffset, m_EOFReached,
  iterator,         \* "none", "at" a byte or "finished"
  m_Offset,         \* of the iterator, relative to m_CurrentOffset
  call, arg,        \* the call in progress; its size, the byte to stop at, or
                    \* after a seek the position asked for
  seen,             \* the bytes it returns
  threw             \* whether the last call threw

bufferVars == <<m_Buffer, capacity, m_CurrentOffset, streamPos>>
iteratorVars == <<iterator, m_Offset>>
vars == <<bufferVars, m_TotalOffset, m_EOFReached, iteratorVars, call, arg,
          seen, threw>>

Init ==
  /\ streamPos = 0 /\ m_Buffer = <<>> /\ capacity = ReadSize
  /\ m_CurrentOffset = 0 /\ m_TotalOffset = 0 /\ m_EOFReached = FALSE
  /\ iterator = "none" /\ m_Offset = 0
  /\ call = "idle" /\ arg = 0 /\ seen = <<>>
  /\ threw = FALSE

\* What ReadSome of the stream may return, given room for that many bytes.
Chunk(room) ==
  {k \in 0..room : IF streamPos >= Length THEN k = 0 ELSE k > 0 /\ streamPos + k <= Length}
NextBytes(k) == [i \in 1..k |-> streamPos + i]

Buffered == m_CurrentOffset < Len(m_Buffer)
CurrentByte == m_Buffer[m_CurrentOffset + 1]

\* Mutant of Fill: the offset is not set back.
FillOffsetKept ==
  /\ call \in Reading /\ ~m_EOFReached /\ ~Buffered
  /\ m_TotalOffset' = m_TotalOffset + Len(m_Buffer)
  /\ \E k \in Chunk(capacity) :
       /\ m_Buffer' = NextBytes(k) /\ streamPos' = streamPos + k
       /\ m_EOFReached' = (k = 0)
  /\ UNCHANGED <<capacity, m_CurrentOffset, iteratorVars, call, arg, seen, threw>>

\* Mutant of Fill: the end is not noted.
FillEndless ==
  /\ call \in Reading /\ ~m_EOFReached /\ ~Buffered
  /\ m_TotalOffset' = m_TotalOffset + Len(m_Buffer)
  /\ \E k \in Chunk(capacity) :
       m_Buffer' = NextBytes(k) /\ streamPos' = streamPos + k
  /\ m_CurrentOffset' = 0
  /\ UNCHANGED <<capacity, m_EOFReached, iteratorVars, call, arg, seen, threw>>

\* Mutant of Fill: the bytes that leave the buffer are not counted.
FillUncounted ==
  /\ call \in Reading /\ ~m_EOFReached /\ ~Buffered
  /\ \E k \in Chunk(capacity) :
       /\ m_Buffer' = NextBytes(k) /\ streamPos' = streamPos + k
       /\ m_EOFReached' = (k = 0)
  /\ m_CurrentOffset' = 0
  /\ UNCHANGED <<capacity, m_TotalOffset, iteratorVars, call, arg, seen, threw>>

\* Mutant of Fill: the buffer is filled again before it is used up.
FillEarly ==
  /\ call \in Reading /\ ~m_EOFReached /\ streamPos < Length
  /\ m_TotalOffset' = m_TotalOffset + Len(m_Buffer)
  /\ \E k \in Chunk(capacity) :
       /\ m_Buffer' = NextBytes(k) /\ streamPos' = streamPos + k
       /\ m_EOFReached' = (k = 0)
  /\ m_CurrentOffset' = 0
  /\ UNCHANGED <<capacity, iteratorVars, call, arg, seen, threw>>

\* p_FillBuffer, when a loop has used up the buffer.
Fill ==
  /\ call \in Reading /\ ~m_EOFReached /\ ~Buffered
  /\ m_TotalOffset' = m_TotalOffset + Len(m_Buffer)
  /\ \E k \in Chunk(capacity) :
       /\ m_Buffer' = NextBytes(k) /\ streamPos' = streamPos + k
       /\ m_EOFReached' = (k = 0)
  /\ m_CurrentOffset' = 0
  /\ UNCHANGED <<capacity, iteratorVars, call, arg, seen, threw>>

\* The size p_ExtendBuffer gives the buffer.
ExtendedSize(min) ==
  LET size == IF m_CurrentOffset = 0 THEN 2 * capacity ELSE capacity
  IN IF min > size THEN min ELSE size

\* p_ExtendBuffer(min), if it is called, and p_AddToBuffer, whose assertion
\* stops the program when there is no room.
AddToBuffer(extend, min) ==
  LET size == IF extend THEN ExtendedSize(min) ELSE capacity
      kept == IF extend THEN SubSeq(m_Buffer, m_CurrentOffset + 1, Len(m_Buffer))
                        ELSE m_Buffer
  IN /\ Len(kept) # size
     /\ capacity' = size
     /\ m_CurrentOffset' = IF extend THEN 0 ELSE m_CurrentOffset
     /\ \E k \in Chunk(size - Len(kept)) :
          m_Buffer' = kept \o NextBytes(k) /\ streamPos' = streamPos + k
-----------------------------------------------------------------------------
(* Reading                                                                 *)

\* A call begins.  The client does not use an iterator after it.
Call(op, n) ==
  /\ call = "idle" /\ op \in Calls \ {"Iterate"}
  /\ call' = op /\ arg' = n /\ seen' = <<>> /\ threw' = FALSE
  /\ iterator' = "none" /\ m_Offset' = 0
  /\ UNCHANGED <<bufferVars, m_TotalOffset, m_EOFReached>>

\* The end: ReadByte, PeekByte and ReadExact throw, the others return.
End ==
  /\ call \in Reading /\ m_EOFReached
  /\ call' = "idle"
  /\ threw' = (call \in {"ReadByte", "PeekByte", "ReadExact"})
  /\ UNCHANGED <<bufferVars, m_TotalOffset, m_EOFReached, iteratorVars, arg, seen>>

\* ReadWhile, DoWhile, SkipWhile and the loop of ReadLine take a byte.
TakeByte ==
  /\ call \in {"ReadWhile", "SkipWhile", "ReadLine"} /\ ~m_EOFReached /\ Buffered
  /\ CurrentByte # arg
  /\ seen' = IF call = "SkipWhile" THEN seen ELSE Append(seen, CurrentByte)
  /\ m_CurrentOffset' = m_CurrentOffset + 1
  /\ UNCHANGED <<m_Buffer, capacity, streamPos, m_TotalOffset, m_EOFReached,
                 iteratorVars, call, arg, threw>>

\* Mutant of Stop: every operation takes the byte at which it stops.
StopTaking ==
  /\ call \in {"ReadWhile", "SkipWhile", "ReadLine"} /\ ~m_EOFReached /\ Buffered
  /\ CurrentByte = arg
  /\ call' = "idle"
  /\ m_CurrentOffset' = m_CurrentOffset + 1
  /\ UNCHANGED <<m_Buffer, capacity, streamPos, m_TotalOffset, m_EOFReached,
                 iteratorVars, arg, seen, threw>>

\* They stop at the byte that fails the predicate; ReadLine drops it.
Stop ==
  /\ call \in {"ReadWhile", "SkipWhile", "ReadLine"} /\ ~m_EOFReached /\ Buffered
  /\ CurrentByte = arg
  /\ call' = "idle"
  /\ m_CurrentOffset' = m_CurrentOffset + (IF call = "ReadLine" THEN 1 ELSE 0)
  /\ UNCHANGED <<m_Buffer, capacity, streamPos, m_TotalOffset, m_EOFReached,
                 iteratorVars, arg, seen, threw>>

\* Mutant of PeekByte: it reads the byte.
PeekByteTaking ==
  /\ call = "PeekByte" /\ ~m_EOFReached /\ Buffered
  /\ seen' = <<CurrentByte>>
  /\ call' = "idle"
  /\ m_CurrentOffset' = m_CurrentOffset + 1
  /\ UNCHANGED <<m_Buffer, capacity, streamPos, m_TotalOffset, m_EOFReached,
                 iteratorVars, arg, threw>>

PeekByte ==
  /\ call = "PeekByte" /\ ~m_EOFReached /\ Buffered
  /\ seen' = <<CurrentByte>>
  /\ call' = "idle"
  /\ UNCHANGED <<bufferVars, m_TotalOffset, m_EOFReached, iteratorVars, arg,
                 threw>>

\* Mutant of TakeSome: it copies from the beginning of the buffer.
TakeSomeFromStart ==
  /\ call \in {"ReadByte", "ReadSome", "Read", "ReadExact"} /\ ~m_EOFReached /\ Buffered
  /\ LET wanted == arg - Len(seen)
         held == Len(m_Buffer) - m_CurrentOffset
         size == IF wanted < held THEN wanted ELSE held
     IN /\ seen' = seen \o SubSeq(m_Buffer, 1, size)
        /\ m_CurrentOffset' = m_CurrentOffset + size
  /\ call' = IF call \in {"Read", "ReadExact"} /\ Len(seen') < arg THEN call ELSE "idle"
  /\ UNCHANGED <<m_Buffer, capacity, streamPos, m_TotalOffset, m_EOFReached,
                 iteratorVars, arg, threw>>

\* Mutant of TakeSome: a ReadByte does not move the offset.
ReadByteStaying ==
  /\ call \in {"ReadByte", "ReadSome", "Read", "ReadExact"} /\ ~m_EOFReached /\ Buffered
  /\ LET wanted == arg - Len(seen)
         held == Len(m_Buffer) - m_CurrentOffset
         size == IF wanted < held THEN wanted ELSE held
     IN /\ seen' = seen \o SubSeq(m_Buffer, m_CurrentOffset + 1, m_CurrentOffset + size)
        /\ m_CurrentOffset' = m_CurrentOffset + (IF call = "ReadByte" THEN 0 ELSE size)
  /\ call' = IF call \in {"Read", "ReadExact"} /\ Len(seen') < arg THEN call ELSE "idle"
  /\ UNCHANGED <<m_Buffer, capacity, streamPos, m_TotalOffset, m_EOFReached,
                 iteratorVars, arg, threw>>

\* One ReadSome copies what the buffer has: ReadByte asks for one byte, Read
\* and ReadExact ask again until they have arg bytes.
TakeSome ==
  /\ call \in {"ReadByte", "ReadSome", "Read", "ReadExact"} /\ ~m_EOFReached /\ Buffered
  /\ LET wanted == arg - Len(seen)
         held == Len(m_Buffer) - m_CurrentOffset
         size == IF wanted < held THEN wanted ELSE held
     IN /\ seen' = seen \o SubSeq(m_Buffer, m_CurrentOffset + 1, m_CurrentOffset + size)
        /\ m_CurrentOffset' = m_CurrentOffset + size
  /\ call' = IF call \in {"Read", "ReadExact"} /\ Len(seen') < arg THEN call ELSE "idle"
  /\ UNCHANGED <<m_Buffer, capacity, streamPos, m_TotalOffset, m_EOFReached,
                 iteratorVars, arg, threw>>
-----------------------------------------------------------------------------
(* Peeking                                                                 *)

PeekEnd ==
  /\ call = "PeekWhile" /\ m_EOFReached
  /\ call' = "idle"
  /\ UNCHANGED <<bufferVars, m_TotalOffset, m_EOFReached, iteratorVars, arg,
                 seen, threw>>

PeekPos == m_CurrentOffset + Len(seen)

PeekAdd ==
  /\ call = "PeekWhile" /\ ~m_EOFReached /\ PeekPos = Len(m_Buffer)
  /\ AddToBuffer(PeekPos = capacity, 0)
  /\ UNCHANGED <<m_TotalOffset, m_EOFReached, iteratorVars, call, arg, seen,
                 threw>>

PeekTake ==
  /\ call = "PeekWhile" /\ ~m_EOFReached /\ PeekPos < Len(m_Buffer)
  /\ LET byte == m_Buffer[PeekPos + 1]
     IN IF byte = arg THEN call' = "idle" /\ UNCHANGED seen
                      ELSE seen' = Append(seen, byte) /\ UNCHANGED call
  /\ UNCHANGED <<bufferVars, m_TotalOffset, m_EOFReached, iteratorVars, arg,
                 threw>>
-----------------------------------------------------------------------------
(* PeekIterator                                                            *)

IteratorPos == m_CurrentOffset + m_Offset

\* begin(): an iterator before the first byte is incremented.
Begin ==
  /\ call = "idle" /\ "Iterate" \in Calls
  /\ iterator' = "at" /\ m_Offset' = 0
  /\ call' = "Increment" /\ seen' = <<>> /\ threw' = FALSE
  /\ UNCHANGED <<bufferVars, m_TotalOffset, m_EOFReached, arg>>

\* operator++, which a client does not call at the end.
Increment ==
  /\ call = "idle" /\ iterator = "at"
  /\ m_Offset' = m_Offset + 1
  /\ call' = "Increment"
  /\ UNCHANGED <<bufferVars, m_TotalOffset, m_EOFReached, iterator, arg, seen,
                 threw>>

IncrementFound ==
  /\ call = "Increment" /\ IteratorPos < Len(m_Buffer)
  /\ call' = "idle"
  /\ UNCHANGED <<bufferVars, m_TotalOffset, m_EOFReached, iteratorVars, arg,
                 seen, threw>>

IncrementAdd ==
  /\ call = "Increment" /\ IteratorPos >= Len(m_Buffer)
  /\ AddToBuffer(IteratorPos >= capacity, IteratorPos)
  /\ IF streamPos' = streamPos THEN iterator' = "finished" /\ call' = "idle"
                               ELSE UNCHANGED <<iterator, call>>
  /\ UNCHANGED <<m_TotalOffset, m_EOFReached, m_Offset, arg, seen, threw>>

Decrement ==
  /\ call = "idle" /\ iterator # "none" /\ m_Offset > 0
  /\ m_Offset' = m_Offset - 1
  /\ iterator' = "at"
  /\ UNCHANGED <<bufferVars, m_TotalOffset, m_EOFReached, call, arg, seen,
                 threw>>

\* operator*
GetRef ==
  /\ call = "idle" /\ iterator = "at"
  /\ seen' = <<m_Buffer[IteratorPos + 1]>>
  /\ UNCHANGED <<bufferVars, m_TotalOffset, m_EOFReached, iteratorVars, call,
                 arg, threw>>

\* Consume, within the limits in which it does not throw.
Consume(n) ==
  /\ call = "idle" /\ iterator # "none"
  /\ n <= m_Offset /\ m_CurrentOffset + n <= Len(m_Buffer)
  /\ m_CurrentOffset' = m_CurrentOffset + n
  /\ m_Offset' = m_Offset - n
  /\ UNCHANGED <<m_Buffer, capacity, streamPos, m_TotalOffset, m_EOFReached,
                 iterator, call, arg, seen, threw>>
-----------------------------------------------------------------------------
\* A call goes on.
Step ==
  \/ Fill \/ End \/ TakeByte \/ Stop \/ PeekByte \/ TakeSome
  \/ PeekEnd \/ PeekAdd \/ PeekTake \/ IncrementFound \/ IncrementAdd

\* The client begins a call, or uses its iterator.
Client ==
  \/ \E op \in Calls, n \in 1..Length + 1 :
       (op \in {"ReadByte", "PeekByte"} => n = 1) /\ Call(op, n)
  \/ Begin \/ Increment \/ Decrement \/ GetRef
  \/ \E n \in 1..Length : Consume(n)

Next == Step \/ Client

Spec == Init /\ [][Next]_vars

\* A call that can go on does.
FairSpec == Spec /\ WF_vars(Step)
-----------------------------------------------------------------------------
\* How many bytes the client has read.
Consumed == streamPos - (Len(m_Buffer) - m_CurrentOffset)

\* Position() of the code.
Position == m_TotalOffset + m_CurrentOffset

\* Every variable has its type, and the buffer holds the last bytes the stream
\* has handed out, in order, whether it was refilled, extended or appended to.
BufferOK ==
  /\ streamPos \in 0..Length /\ capacity \in Nat \ {0}
  /\ Len(m_Buffer) <= streamPos /\ Len(m_Buffer) <= capacity
  /\ m_Buffer = [i \in 1..Len(m_Buffer) |-> streamPos - Len(m_Buffer) + i]
  /\ m_CurrentOffset \in 0..Len(m_Buffer)
  /\ m_TotalOffset \in Nat /\ m_EOFReached \in BOOLEAN
  /\ iterator \in {"none", "at", "finished"} /\ m_Offset \in Nat
  /\ call \in Operations \cup {"idle", "Increment"} /\ arg \in Nat
  /\ threw \in BOOLEAN

\* Position() is the number of bytes read.
PositionCorrect == Position = Consumed

\* Every call returns; only a PeekWhile whose predicate holds of all the bytes
\* that are left does not.
CallsReturn ==
  call # "idle" ~>
    \/ call = "idle"
    \/ call = "PeekWhile" /\ arg \notin (Consumed + 1)..Length

\* To its client, the reader is a position in the input.
Reader == INSTANCE ByteReader WITH
  pos <- Consumed, op <- call, ahead <- m_Offset, end <- m_EOFReached

\* Each call does what it is for: those that read return every byte that follows
\* the position, in order and once, and move it past those and no further, peeks
\* return them and leave it, and the end is reported only there, however the
\* stream cuts its input and the buffer is refilled, shifted and grown.
ImplementsByteReader == Reader!Spec
=============================================================================
