---------------------------- MODULE ReaderProofs ----------------------------
(***************************************************************************)
(* Safety of StreamReader and SearchableStreamReader, for inputs and       *)
(* buffers of any size and every mix of calls.  The argument: the buffer   *)
(* is a window that ends where the stream stands, an iterator never points *)
(* past it, and the end is reported only with the window used up.          *)
(*                                                                         *)
(* Then LineRetriever implements LineSource for inputs, chunks and cuts of *)
(* any size: its buffer is such a window, the part that has been searched  *)
(* holds no newline, and the byte before the part that is left, if it is   *)
(* still in the buffer, is one.                                            *)
(***************************************************************************)
EXTENDS SearchableStreamReader, LineRetriever, Integers, SequenceTheorems,
        WellFoundedInduction, TLAPS

\* The buffer is a window of the input that ends at the stream's position.
Window ==
  /\ streamPos \in 0..Length /\ capacity \in Nat \ {0}
  /\ m_Buffer \in Seq(Nat)
  /\ Len(m_Buffer) <= streamPos /\ Len(m_Buffer) <= capacity
  /\ \A i \in 1..Len(m_Buffer) : m_Buffer[i] = streamPos - Len(m_Buffer) + i
  /\ m_CurrentOffset \in 0..Len(m_Buffer)

Types ==
  /\ m_TotalOffset \in Int /\ m_EOFReached \in BOOLEAN
  /\ iterator \in {"none", "at", "finished"} /\ m_Offset \in Nat
  /\ call \in Operations \cup {"idle", "Increment"} /\ arg \in Nat
  /\ threw \in BOOLEAN

\* An iterator is in the buffer, or just behind it while it moves or has finished.
IteratorInWindow ==
  /\ iterator = "none" => m_Offset = 0
  /\ iterator = "at" => /\ call \in {"idle", "Increment"}
                        /\ IteratorPos <= Len(m_Buffer)
                        /\ call = "idle" => IteratorPos < Len(m_Buffer)
  /\ iterator = "finished" => /\ call = "idle" /\ streamPos = Length
                              /\ IteratorPos = Len(m_Buffer)
  /\ call = "Increment" => iterator = "at"

\* The end is reported when the buffer is used up and the stream at its end, and
\* what was thrown there until the next call.
EndReached ==
  /\ m_EOFReached => /\ streamPos = Length /\ m_CurrentOffset = Len(m_Buffer)
                     /\ m_Offset = 0
                     /\ iterator = "at" => call = "Increment"
  /\ threw => m_EOFReached /\ call = "idle" /\ iterator = "none"

\* A call has returned less than it was asked for.
SeenLess ==
  /\ seen \in Seq(Nat)
  /\ call \in {"ReadByte", "ReadSome", "Read", "ReadExact"} => Len(seen) < arg

IInv == Window /\ Types /\ IteratorInWindow /\ EndReached /\ SeenLess

\* The reader begins with an empty window.
LEMMA InitInv == ASSUME LengthAssumption, Init PROVE IInv
<1>1. m_Buffer \in Seq(Nat) /\ Len(m_Buffer) = 0 /\ seen \in Seq(Nat)
  BY DEF Init
<1>2. Window
  BY <1>1 DEF Init, Window, LengthAssumption
<1>3. Types
  <2>1. m_TotalOffset \in Int /\ m_Offset \in Nat /\ arg \in Nat
    BY DEF Init
  <2> QED
    BY <2>1, Zenon DEF Init, Types
<1>4. IteratorInWindow /\ EndReached
  BY <1>1 DEF Init, IteratorInWindow, EndReached
<1>5. SeenLess
  BY <1>1 DEF Init, SeenLess
<1> QED
  BY <1>2, <1>3, <1>4, <1>5 DEF IInv
-----------------------------------------------------------------------------
(* What the buffer's operations do to the window                           *)

\* The bytes the stream hands out next.
LEMMA NextBytesProperties ==
  ASSUME Window, NEW k \in Nat
  PROVE  /\ NextBytes(k) \in Seq(Nat) /\ Len(NextBytes(k)) = k
         /\ \A i \in 1..k : NextBytes(k)[i] = streamPos + i
<1>1. \A i \in 1..k : streamPos + i \in Nat
  BY DEF Window
<1> QED
  BY <1>1 DEF NextBytes

\* p_FillBuffer moves the window to the bytes that follow it.
LEMMA FillWindow ==
  ASSUME LengthAssumption, Window, Fill
  PROVE  /\ Window' /\ Consumed' = Consumed /\ m_CurrentOffset = Len(m_Buffer)
         /\ m_EOFReached' \in BOOLEAN
         /\ m_EOFReached' => streamPos' = Length /\ m_CurrentOffset' = Len(m_Buffer')
<1>1. PICK k \in Chunk(capacity) : /\ m_Buffer' = NextBytes(k) /\ streamPos' = streamPos + k
                                   /\ m_EOFReached' = (k = 0)
  BY DEF Fill
<1>2. k \in Nat /\ k <= capacity /\ streamPos + k <= Length /\ (k = 0 => streamPos = Length)
  BY DEF Chunk, Window, LengthAssumption
<1>3. /\ m_Buffer' \in Seq(Nat) /\ Len(m_Buffer') = k
      /\ \A i \in 1..k : m_Buffer'[i] = streamPos + i
  BY <1>1, <1>2, NextBytesProperties
<1>4. m_CurrentOffset = Len(m_Buffer) /\ m_CurrentOffset' = 0 /\ capacity' = capacity
  BY DEF Fill, Buffered, Window
<1>5. Window'
  BY <1>1, <1>2, <1>3, <1>4 DEF Window, LengthAssumption
<1>6. Consumed' = Consumed
  BY <1>1, <1>2, <1>3, <1>4 DEF Consumed, Window
<1>7. m_EOFReached' \in BOOLEAN
  BY <1>1
<1>8. m_EOFReached' => k = 0
  BY <1>1
<1>9. k = 0 => streamPos' = Length /\ m_CurrentOffset' = Len(m_Buffer')
  BY <1>1, <1>2, <1>3, <1>4 DEF Window
<1> QED
  BY <1>4, <1>5, <1>6, <1>7, <1>8, <1>9

\* p_ExtendBuffer and p_AddToBuffer leave the bytes that are not read in the window,
\* and add some unless the stream is at its end.
LEMMA AddWindow ==
  ASSUME LengthAssumption, Window, NEW extend \in BOOLEAN, NEW min \in Nat,
         AddToBuffer(extend, min)
  PROVE  /\ Window' /\ Consumed' = Consumed
         /\ \E k, c \in Nat :
              /\ streamPos' = streamPos + k /\ m_CurrentOffset' = c
              /\ Len(m_Buffer') = c + (Len(m_Buffer) - m_CurrentOffset) + k
              /\ k = 0 <=> streamPos = Length
<1> DEFINE size == IF extend THEN ExtendedSize(min) ELSE capacity
           kept == IF extend THEN SubSeq(m_Buffer, m_CurrentOffset + 1, Len(m_Buffer))
                             ELSE m_Buffer
<1>1. size \in Nat \ {0} /\ size >= capacity
  BY DEF ExtendedSize, Window
<1>2. /\ kept \in Seq(Nat)
      /\ Len(kept) = IF extend THEN Len(m_Buffer) - m_CurrentOffset ELSE Len(m_Buffer)
      /\ \A i \in 1..Len(kept) : kept[i] = streamPos - Len(kept) + i
  <2>1. CASE extend
    <3>1. /\ SubSeq(m_Buffer, m_CurrentOffset + 1, Len(m_Buffer)) \in Seq(Nat)
          /\ Len(SubSeq(m_Buffer, m_CurrentOffset + 1, Len(m_Buffer)))
               = Len(m_Buffer) - m_CurrentOffset
          /\ \A i \in 1..Len(m_Buffer) - m_CurrentOffset :
               SubSeq(m_Buffer, m_CurrentOffset + 1, Len(m_Buffer))[i]
                 = m_Buffer[m_CurrentOffset + i]
      BY SubSeqProperties DEF Window
    <3>2. kept = SubSeq(m_Buffer, m_CurrentOffset + 1, Len(m_Buffer))
      BY <2>1
    <3> HIDE DEF kept
    <3>3. \A i \in 1..Len(kept) : kept[i] = streamPos - Len(kept) + i
      <4> TAKE i \in 1..Len(kept)
      <4>1. i \in 1..Len(m_Buffer) - m_CurrentOffset /\ m_CurrentOffset + i \in 1..Len(m_Buffer)
        BY <3>1, <3>2 DEF Window
      <4>2. /\ kept[i] = m_Buffer[m_CurrentOffset + i]
            /\ m_Buffer[m_CurrentOffset + i] = streamPos - Len(m_Buffer) + (m_CurrentOffset + i)
        BY <3>1, <3>2, <4>1 DEF Window
      <4>3. Len(kept) = Len(m_Buffer) - m_CurrentOffset /\ Len(m_Buffer) \in Int
        BY <3>1, <3>2 DEF Window
      <4>4. streamPos - Len(m_Buffer) + (m_CurrentOffset + i) = streamPos - Len(kept) + i
        BY <4>1, <4>3 DEF Window
      <4> QED
        BY <4>2, <4>4
    <3> QED
      BY <2>1, <3>1, <3>2, <3>3
  <2>2. CASE ~extend
    BY <2>2 DEF Window
  <2> QED
    BY <2>1, <2>2
<1>3. PICK k \in Chunk(size - Len(kept)) :
        m_Buffer' = kept \o NextBytes(k) /\ streamPos' = streamPos + k
  BY DEF AddToBuffer
<1>4. /\ capacity' = size /\ Len(kept) # size
      /\ m_CurrentOffset' = IF extend THEN 0 ELSE m_CurrentOffset
  BY DEF AddToBuffer
<1> HIDE DEF size, kept
<1>5. Len(kept) \in Nat /\ Len(kept) <= Len(m_Buffer)
  BY <1>2 DEF Window
<1>6. size - Len(kept) \in Nat \ {0}
  BY <1>1, <1>4, <1>5 DEF Window
<1>7. /\ k \in Nat /\ k <= size - Len(kept) /\ streamPos + k <= Length
      /\ k = 0 <=> streamPos = Length
  BY <1>6 DEF Chunk, Window, LengthAssumption
<1>8. /\ NextBytes(k) \in Seq(Nat) /\ Len(NextBytes(k)) = k
      /\ \A i \in 1..k : NextBytes(k)[i] = streamPos + i
  BY <1>7, NextBytesProperties
<1>9. /\ m_Buffer' \in Seq(Nat) /\ Len(m_Buffer') = Len(kept) + k
      /\ \A i \in 1..Len(kept) : m_Buffer'[i] = kept[i]
      /\ \A i \in Len(kept) + 1..Len(kept) + k : m_Buffer'[i] = NextBytes(k)[i - Len(kept)]
  <2> DEFINE next == NextBytes(k)
  <2>1. kept \in Seq(Nat) /\ next \in Seq(Nat) /\ Len(next) = k /\ m_Buffer' = kept \o next
    BY <1>2, <1>3, <1>8
  <2> HIDE DEF next
  <2>2. /\ kept \o next \in Seq(Nat) /\ Len(kept \o next) = Len(kept) + Len(next)
        /\ \A i \in 1..Len(kept) + Len(next) :
             (kept \o next)[i] = IF i <= Len(kept) THEN kept[i] ELSE next[i - Len(kept)]
    BY <2>1, ConcatProperties, Zenon
  <2>3. m_Buffer' \in Seq(Nat) /\ Len(m_Buffer') = Len(kept) + k
    BY <2>1, <2>2
  <2>4. \A i \in 1..Len(kept) : m_Buffer'[i] = kept[i]
    BY <1>5, <1>7, <2>1, <2>2
  <2>5. \A i \in Len(kept) + 1..Len(kept) + k : m_Buffer'[i] = next[i - Len(kept)]
    BY <1>5, <1>7, <2>1, <2>2
  <2> QED
    BY <2>3, <2>4, <2>5 DEF next
<1>10. \A i \in 1..Len(m_Buffer') : m_Buffer'[i] = streamPos' - Len(m_Buffer') + i
  <2> TAKE i \in 1..Len(m_Buffer')
  <2>1. CASE i <= Len(kept)
    <3>1. i \in 1..Len(kept)
      BY <1>5, <1>7, <1>9, <2>1
    <3>2. m_Buffer'[i] = streamPos - Len(kept) + i
      BY <1>2, <1>9, <3>1
    <3> QED
      BY <1>3, <1>5, <1>7, <1>9, <3>2 DEF Window
  <2>2. CASE i > Len(kept)
    <3>1. i - Len(kept) \in 1..k
      BY <1>5, <1>7, <1>9, <2>2
    <3> QED
      BY <1>3, <1>5, <1>7, <1>8, <1>9, <2>2, <3>1 DEF Window
  <2> QED
    BY <1>5, <2>1, <2>2
<1>11. m_CurrentOffset' \in 0..Len(m_Buffer')
  BY <1>2, <1>4, <1>5, <1>7, <1>9 DEF Window
<1>12. /\ Len(m_Buffer') <= streamPos' /\ Len(m_Buffer') <= capacity'
       /\ streamPos' \in 0..Length /\ capacity' \in Nat \ {0}
  BY <1>1, <1>3, <1>4, <1>5, <1>6, <1>7, <1>9 DEF Window, LengthAssumption
<1>13. Window'
  BY <1>9, <1>10, <1>11, <1>12 DEF Window
<1>14. PICK c \in Nat : /\ m_CurrentOffset' = c
                       /\ Len(m_Buffer') = c + (Len(m_Buffer) - m_CurrentOffset) + k
  <2>1. CASE extend
    <3>1. m_CurrentOffset' = 0 /\ 0 \in Nat
      BY <1>4, <2>1
    <3>2. Len(m_Buffer') = 0 + (Len(m_Buffer) - m_CurrentOffset) + k
      BY <1>2, <1>7, <1>9, <2>1 DEF Window
    <3> QED
      BY <3>1, <3>2
  <2>2. CASE ~extend
    <3>1. m_CurrentOffset' = m_CurrentOffset /\ m_CurrentOffset \in Nat
      BY <1>4, <2>2 DEF Window
    <3>2. Len(m_Buffer') = m_CurrentOffset + (Len(m_Buffer) - m_CurrentOffset) + k
      BY <1>2, <1>7, <1>9, <2>2 DEF Window
    <3> QED
      BY <3>1, <3>2
  <2> QED
    BY <2>1, <2>2
<1>15. Consumed' = Consumed
  BY <1>3, <1>7, <1>14 DEF Consumed, Window
<1> QED
  BY <1>3, <1>7, <1>13, <1>14, <1>15

\* A step that only moves the offset leaves a window, and reads what it moves by.
LEMMA OffsetWindow ==
  ASSUME Window, UNCHANGED <<m_Buffer, capacity, streamPos>>,
         m_CurrentOffset' \in 0..Len(m_Buffer)
  PROVE  Window' /\ Consumed' = Consumed + (m_CurrentOffset' - m_CurrentOffset)
  BY DEF Window, Consumed

\* The bytes in the window are those of the input.
LEMMA ByteInWindow ==
  ASSUME Window, NEW i \in 1..Len(m_Buffer) - m_CurrentOffset
  PROVE  m_Buffer[m_CurrentOffset + i] = Consumed + i
  BY DEF Window, Consumed

\* The elements from one position to another.
LEMMA Cut ==
  ASSUME NEW s \in Seq(Nat), NEW m \in Nat, NEW k \in Nat, m + k <= Len(s),
         NEW r, r = SubSeq(s, m + 1, m + k)
  PROVE  r \in Seq(Nat) /\ Len(r) = k /\ \A i \in 1..k : r[i] = s[m + i]
<1>1. PICK first \in Int : first = m + 1
  OBVIOUS
<1>2. PICK last \in Int : last = m + k
  OBVIOUS
<1>3. \A j \in first..last : s[j] \in Nat
  BY <1>1, <1>2
<1>4. /\ SubSeq(s, first, last) \in Seq(Nat)
      /\ Len(SubSeq(s, first, last)) = IF first <= last THEN last - first + 1 ELSE 0
      /\ \A i \in 1..last - first + 1 : SubSeq(s, first, last)[i] = s[first + i - 1]
  BY <1>3, SubSeqProperties
<1>5. r = SubSeq(s, first, last)
  BY <1>1, <1>2
<1>6. /\ (IF first <= last THEN last - first + 1 ELSE 0) = k
      /\ 1..last - first + 1 = 1..k
  BY <1>1, <1>2
<1>7. \A i \in 1..k : first + i - 1 = m + i
  BY <1>1
<1>8. \A i \in 1..k : r[i] = s[m + i]
  BY <1>4, <1>5, <1>6, <1>7, Zenon
<1> QED
  BY <1>4, <1>5, <1>6, <1>8, Zenon

\* So is a run of them.
LEMMA BytesInWindow ==
  ASSUME Window, NEW k \in Nat, m_CurrentOffset + k <= Len(m_Buffer)
  PROVE  /\ SubSeq(m_Buffer, m_CurrentOffset + 1, m_CurrentOffset + k) \in Seq(Nat)
         /\ Len(SubSeq(m_Buffer, m_CurrentOffset + 1, m_CurrentOffset + k)) = k
         /\ SubSeq(m_Buffer, m_CurrentOffset + 1, m_CurrentOffset + k)
              = [i \in 1..k |-> Consumed + i]
<1>1. PICK run : run = SubSeq(m_Buffer, m_CurrentOffset + 1, m_CurrentOffset + k)
  OBVIOUS
<1>2. m_Buffer \in Seq(Nat) /\ m_CurrentOffset \in Nat
  BY DEF Window
<1>3. /\ run \in Seq(Nat) /\ Len(run) = k
      /\ \A i \in 1..k : run[i] = m_Buffer[m_CurrentOffset + i]
  BY <1>1, <1>2, Cut
<1>4. ASSUME NEW i \in 1..k PROVE run[i] = Consumed + i
  <2>1. i \in 1..Len(m_Buffer) - m_CurrentOffset
    BY <1>2
  <2> QED
    BY <1>3, <2>1, ByteInWindow, Zenon
<1>5. run \in [1..k -> Nat]
  <2>1. run \in [1..Len(run) -> Nat]
    BY <1>3, LenProperties, Zenon
  <2> QED
    BY <1>3, <2>1, Zenon
<1>6. run = [i \in 1..k |-> Consumed + i]
  BY <1>4, <1>5
<1> QED
  BY <1>1, <1>3, <1>6, Zenon

\* One ReadSome takes as much as is wanted or as the buffer has.
LEMMA TakenSize ==
  ASSUME IInv, TakeSome
  PROVE  \E size \in Nat \ {0} :
           /\ size <= arg - Len(seen) /\ m_CurrentOffset + size <= Len(m_Buffer)
           /\ m_CurrentOffset' = m_CurrentOffset + size
           /\ m_CurrentOffset' \in 0..Len(m_Buffer)
           /\ seen' = seen \o [i \in 1..size |-> Consumed + i]
           /\ seen' \in Seq(Nat) /\ Len(seen') = Len(seen) + size
<1> DEFINE wanted == arg - Len(seen)
           held == Len(m_Buffer) - m_CurrentOffset
           size == IF wanted < held THEN wanted ELSE held
<1>1. wanted \in Nat \ {0} /\ held \in Nat \ {0}
  BY DEF IInv, TakeSome, SeenLess, Types, Window, Buffered
<1>2. size \in Nat \ {0} /\ size <= wanted /\ size <= held
  BY <1>1
<1>3. /\ seen' = seen \o SubSeq(m_Buffer, m_CurrentOffset + 1, m_CurrentOffset + size)
      /\ m_CurrentOffset' = m_CurrentOffset + size
  BY DEF TakeSome
<1> HIDE DEF size
<1>4. m_CurrentOffset + size <= Len(m_Buffer)
  BY <1>2 DEF IInv, Window
<1> DEFINE run == SubSeq(m_Buffer, m_CurrentOffset + 1, m_CurrentOffset + size)
<1>5. run \in Seq(Nat) /\ Len(run) = size /\ run = [i \in 1..size |-> Consumed + i]
  BY <1>2, <1>4, BytesInWindow DEF IInv
<1> HIDE DEF run
<1>6. seen' \in Seq(Nat) /\ Len(seen') = Len(seen) + size
  BY <1>3, <1>5, ConcatProperties DEF run, IInv, SeenLess
<1>7. m_CurrentOffset' \in 0..Len(m_Buffer)
  BY <1>2, <1>3, <1>4 DEF IInv, Window
<1>8. seen' = seen \o [i \in 1..size |-> Consumed + i]
  BY <1>3, <1>5 DEF run
<1> QED
  BY <1>2, <1>3, <1>4, <1>6, <1>7, <1>8, Zenon
-----------------------------------------------------------------------------
(* The invariant is inductive                                              *)

\* Every step keeps the types; only the offset of a seek may be negative.
LEMMA TypesKept ==
  ASSUME LengthAssumption, CallsAssumption, WhencesAssumption, IInv, [SearchNext]_vars
  PROVE  Types'
<1> USE DEF IInv
<1>1. CASE Fill
  <2>1. m_TotalOffset' \in Int
    BY <1>1 DEF Fill, Types, Window
  <2>2. m_EOFReached' \in BOOLEAN
    BY <1>1, FillWindow
  <2> QED
    BY <1>1, <2>1, <2>2, Zenon DEF Fill, Types, iteratorVars
<1>2. CASE End
  <2>1. threw' \in BOOLEAN
    BY <1>2 DEF End
  <2>2. call' \in Operations \cup {"idle", "Increment"}
    BY <1>2 DEF End
  <2> QED
    BY <2>1, <2>2, <1>2, Zenon DEF End, Types, bufferVars, iteratorVars
<1>3. CASE TakeByte \/ PeekByte \/ PeekEnd \/ PeekAdd \/ PeekTake \/ IncrementFound \/ GetRef
  BY <1>3, Zenon DEF TakeByte, PeekByte, PeekEnd, PeekAdd, PeekTake, IncrementFound, GetRef,
                     Types, bufferVars, iteratorVars
<1>4. CASE Stop
  BY <1>4, Zenon DEF Stop, Types, iteratorVars
<1>5. CASE TakeSome
  BY <1>5, Zenon DEF TakeSome, Types, iteratorVars
<1>6. CASE IncrementAdd
  BY <1>6, Zenon DEF IncrementAdd, Types
<1>7. CASE \E op \in Calls, n \in 1..Length + 1 :
             (op \in {"ReadByte", "PeekByte"} => n = 1) /\ Call(op, n)
  <2>1. PICK op \in Calls, n \in 1..Length + 1 : Call(op, n)
    BY <1>7
  <2>2. n \in Nat /\ 0 \in Nat
    BY DEF LengthAssumption
  <2>3. op \in Operations
    BY DEF CallsAssumption
  <2> QED
    BY <2>1, <2>2, <2>3, Zenon DEF Call, Types, bufferVars
<1>8. CASE Begin
  <2>1. 0 \in Nat
    OBVIOUS
  <2> QED
    BY <1>8, <2>1, Zenon DEF Begin, Types, bufferVars
<1>9. CASE Increment
  <2>1. m_Offset' \in Nat
    BY <1>9 DEF Increment, Types
  <2> QED
    BY <1>9, <2>1, Zenon DEF Increment, Types, bufferVars
<1>10. CASE Decrement
  <2>1. m_Offset' \in Nat
    BY <1>10 DEF Decrement, Types
  <2> QED
    BY <1>10, <2>1, Zenon DEF Decrement, Types, bufferVars
<1>11. CASE \E n \in 1..Length : Consume(n)
  <2>1. PICK n \in 1..Length : Consume(n)
    BY <1>11
  <2>2. m_Offset' \in Nat
    BY <2>1 DEF Consume, Types, LengthAssumption
  <2> QED
    BY <2>1, <2>2, Zenon DEF Consume, Types
<1>12. CASE Seek
  <2>1. PICK whence \in Whences, offset \in -Length..Length :
          InInput(offset, whence) /\ SetInputPosition(offset, whence)
    BY <1>12 DEF Seek
  <2>2. whence \in {"SEEK_SET", "SEEK_CUR", "SEEK_END"}
    BY DEF WhencesAssumption
  <2>3. m_TotalOffset' \in Int /\ m_Offset' \in Nat
    BY <2>1, <2>2 DEF SetInputPosition, Types, Position, Window, LengthAssumption
  <2>4. arg' \in Nat
    BY <2>1 DEF SetInputPosition, InInput, LengthAssumption
  <2> QED
    BY <2>1, <2>3, <2>4, Zenon DEF SetInputPosition, Types
<1>13. CASE UNCHANGED vars
  BY <1>13, Zenon DEF vars, Types, bufferVars, iteratorVars
<1> QED
  BY <1>1, <1>2, <1>3, <1>4, <1>5, <1>6, <1>7, <1>8, <1>9, <1>10, <1>11, <1>12, <1>13, Zenon
     DEF SearchNext, Next, Step, Client

\* Every step leaves a window; how far the position moves is what the step reads.
LEMMA WindowKept ==
  ASSUME LengthAssumption, IInv, [SearchNext]_vars
  PROVE  Window'
<1> USE DEF IInv
<1>1. CASE Fill
  BY <1>1, FillWindow
<1>2. CASE \/ End \/ PeekByte \/ PeekEnd \/ PeekTake \/ IncrementFound \/ Begin
           \/ Increment \/ Decrement \/ GetRef \/ UNCHANGED vars
           \/ \E op \in Calls, n \in 1..Length + 1 : Call(op, n)
  <2>1. UNCHANGED bufferVars
    BY <1>2, Zenon DEF End, PeekByte, PeekEnd, PeekTake, IncrementFound, Begin, Increment,
                       Decrement, GetRef, vars, Call
  <2> QED
    BY <2>1 DEF bufferVars, Window
<1>3. CASE TakeByte
  <2>1. m_CurrentOffset' \in 0..Len(m_Buffer)
    BY <1>3 DEF TakeByte, Buffered, Window
  <2> QED
    BY <1>3, <2>1, OffsetWindow DEF TakeByte
<1>4. CASE Stop
  <2>1. m_CurrentOffset' \in 0..Len(m_Buffer)
    BY <1>4 DEF Stop, Buffered, Window
  <2> QED
    BY <1>4, <2>1, OffsetWindow DEF Stop
<1>5. CASE TakeSome
  <2>1. m_CurrentOffset' \in 0..Len(m_Buffer)
    BY <1>5, TakenSize
  <2> QED
    BY <1>5, <2>1, OffsetWindow DEF TakeSome
<1>6. CASE PeekAdd
  BY <1>6, AddWindow DEF PeekAdd, Types
<1>7. CASE IncrementAdd
  <2>1. IteratorPos \in Nat
    BY DEF IteratorPos, Window, Types
  <2>2. AddToBuffer(IteratorPos >= capacity, IteratorPos) /\ (IteratorPos >= capacity) \in BOOLEAN
    BY <1>7 DEF IncrementAdd
  <2> QED
    BY <2>1, <2>2, AddWindow, Zenon
<1>8. CASE \E n \in 1..Length : Consume(n)
  <2>1. PICK n \in 1..Length : Consume(n)
    BY <1>8
  <2>2. m_CurrentOffset' \in 0..Len(m_Buffer)
    BY <2>1 DEF Consume, Window, LengthAssumption
  <2> QED
    BY <2>1, <2>2, OffsetWindow DEF Consume
<1>9. CASE Seek
  <2>1. PICK whence \in Whences, offset \in -Length..Length :
          InInput(offset, whence) /\ SetInputPosition(offset, whence)
    BY <1>9 DEF Seek
  <2>2. streamPos' \in 0..Length
    BY <2>1 DEF InInput, SetInputPosition
  <2>3. m_Buffer' = <<>> /\ m_CurrentOffset' = 0 /\ capacity' = capacity
    BY <2>1 DEF SetInputPosition
  <2>4. m_Buffer' \in Seq(Nat) /\ Len(m_Buffer') = 0
    BY <2>3
  <2> QED
    BY <2>2, <2>3, <2>4 DEF Window
<1> QED
  BY <1>1, <1>2, <1>3, <1>4, <1>5, <1>6, <1>7, <1>8, <1>9, Zenon
     DEF SearchNext, Next, Step, Client

\* What appending to the buffer means for an iterator that waits for its byte.
LEMMA IncrementAddIterator ==
  ASSUME LengthAssumption, IInv, IncrementAdd
  PROVE  /\ Window' /\ Consumed' = Consumed /\ m_Offset' = m_Offset
         /\ \E p, k \in Nat : /\ IteratorPos' = p /\ Len(m_Buffer') = p + k
                              /\ k = 0 <=> streamPos' = streamPos
                              /\ k = 0 <=> streamPos = Length
         /\ streamPos = Length => streamPos' = Length
         /\ streamPos = Length /\ m_CurrentOffset = Len(m_Buffer)
              => m_CurrentOffset' = Len(m_Buffer')
<1>1. IteratorPos \in Nat /\ m_Offset' = m_Offset /\ m_Offset = Len(m_Buffer) - m_CurrentOffset
  BY DEF IncrementAdd, IInv, IteratorInWindow, IteratorPos, Window, Types
<1>2. AddToBuffer(IteratorPos >= capacity, IteratorPos) /\ (IteratorPos >= capacity) \in BOOLEAN
  BY DEF IncrementAdd
<1>3. Window
  BY DEF IInv
<1>4. Window' /\ Consumed' = Consumed
  BY <1>1, <1>2, <1>3, AddWindow, Zenon
<1>5. PICK k, c \in Nat : /\ streamPos' = streamPos + k /\ m_CurrentOffset' = c
                          /\ Len(m_Buffer') = c + (Len(m_Buffer) - m_CurrentOffset) + k
                          /\ k = 0 <=> streamPos = Length
  BY <1>1, <1>2, <1>3, AddWindow, Zenon
<1>6. c + m_Offset \in Nat
  BY DEF IInv, Types
<1>7. IteratorPos' = c + m_Offset /\ Len(m_Buffer') = (c + m_Offset) + k
  BY <1>1, <1>5 DEF IteratorPos
<1>8. k = 0 <=> streamPos' = streamPos
  BY <1>3, <1>5 DEF Window
<1>9. streamPos = Length => streamPos' = Length
  BY <1>3, <1>5 DEF Window
<1>10. streamPos = Length /\ m_CurrentOffset = Len(m_Buffer)
         => m_CurrentOffset' = Len(m_Buffer')
  BY <1>1, <1>3, <1>5 DEF Window
<1> QED
  BY <1>1, <1>4, <1>5, <1>6, <1>7, <1>8, <1>9, <1>10

\* Every step leaves the iterator in the window.
LEMMA IteratorKept ==
  ASSUME LengthAssumption, CallsAssumption, IInv, [SearchNext]_vars
  PROVE  IteratorInWindow'
<1>0. Window /\ IteratorInWindow /\ EndReached /\ m_Offset \in Nat
  BY DEF IInv, Types
<1>1. CASE Fill \/ End \/ TakeByte \/ Stop \/ PeekByte \/ TakeSome \/ PeekEnd \/ PeekAdd \/ PeekTake
  <2>1. call \notin {"idle", "Increment"}
    BY <1>1 DEF Fill, End, TakeByte, Stop, PeekByte, TakeSome, PeekEnd, PeekAdd, PeekTake, Reading
  <2>2. iterator = "none" /\ m_Offset = 0
    BY <1>0, <2>1, Zenon DEF IteratorInWindow, IInv, Types
  <2>3. UNCHANGED iteratorVars /\ call' \in {"idle", call}
    BY <1>1, Zenon DEF Fill, End, TakeByte, Stop, PeekByte, TakeSome, PeekEnd, PeekAdd, PeekTake
  <2> QED
    BY <2>1, <2>2, <2>3 DEF iteratorVars, IteratorInWindow
<1>2. CASE \/ GetRef \/ UNCHANGED vars
  BY <1>0, <1>2 DEF GetRef, vars, iteratorVars, bufferVars, IteratorInWindow, IteratorPos
<1>3. CASE IncrementFound
  BY <1>0, <1>3 DEF IncrementFound, iteratorVars, bufferVars, IteratorInWindow, IteratorPos
<1>4. CASE IncrementAdd
  BY <1>0, <1>4, IncrementAddIterator DEF IncrementAdd, IteratorInWindow
<1>5. CASE \E op \in Calls, n \in 1..Length + 1 : Call(op, n)
  <2>1. iterator' = "none" /\ m_Offset' = 0 /\ call' # "Increment"
    BY <1>5 DEF Call, CallsAssumption, Operations, Reading
  <2> QED
    BY <2>1 DEF IteratorInWindow
<1>6. CASE Begin
  BY <1>0, <1>6 DEF Begin, bufferVars, IteratorInWindow, IteratorPos, Window
<1>7. CASE Increment
  BY <1>0, <1>7 DEF Increment, bufferVars, IteratorInWindow, IteratorPos, Window
<1>8. CASE Decrement
  BY <1>0, <1>8 DEF Decrement, bufferVars, IteratorInWindow, IteratorPos, Window, IInv, Types
<1>9. CASE \E n \in 1..Length : Consume(n)
  <2>1. PICK n \in 1..Length : Consume(n)
    BY <1>9
  <2>2. IteratorPos' = IteratorPos /\ m_Offset' = m_Offset - n
    BY <1>0, <2>1 DEF Consume, IteratorPos, Window, LengthAssumption
  <2> QED
    BY <1>0, <2>1, <2>2 DEF Consume, IteratorInWindow
<1>10. CASE Seek
  <2>1. iterator' = "none" /\ m_Offset' = 0 /\ call' = "idle"
    BY <1>10 DEF Seek, SetInputPosition
  <2> QED
    BY <2>1 DEF IteratorInWindow
<1> QED
  BY <1>1, <1>2, <1>3, <1>4, <1>5, <1>6, <1>7, <1>8, <1>9, <1>10, Zenon
     DEF SearchNext, Next, Step, Client

\* Every step that leaves the end reported leaves the buffer used up.
LEMMA EndKept ==
  ASSUME LengthAssumption, CallsAssumption, IInv, [SearchNext]_vars
  PROVE  EndReached'
<1>0. Window /\ IteratorInWindow /\ EndReached /\ m_Offset \in Nat
  BY DEF IInv, Types
<1>1. CASE Fill
  <2>1. call \in Reading /\ ~m_EOFReached /\ UNCHANGED <<iterator, m_Offset, call, threw>>
    BY <1>1 DEF Fill, iteratorVars
  <2>2. ~threw /\ iterator = "none" /\ m_Offset = 0
    BY <1>0, <2>1 DEF EndReached, IteratorInWindow, Reading, IInv, Types
  <2>3. m_EOFReached' => streamPos' = Length /\ m_CurrentOffset' = Len(m_Buffer')
    BY <1>0, <1>1, FillWindow
  <2>4. ~threw' /\ iterator' = "none" /\ m_Offset' = 0
    BY <2>1, <2>2
  <2> QED
    BY <2>3, <2>4 DEF EndReached
<1>2. CASE End
  <2>1. call \in Reading /\ m_EOFReached /\ call' = "idle" /\ UNCHANGED <<iterator, m_Offset>>
    BY <1>2 DEF End, iteratorVars
  <2>2. iterator = "none" /\ m_Offset = 0
    BY <1>0, <2>1 DEF IteratorInWindow, Reading, IInv, Types
  <2>3. m_EOFReached' = m_EOFReached /\ UNCHANGED <<m_Buffer, m_CurrentOffset, streamPos>>
    BY <1>2 DEF End, bufferVars
  <2> QED
    BY <1>0, <2>1, <2>2, <2>3, Zenon DEF EndReached
<1>3. CASE TakeByte \/ Stop \/ PeekByte \/ TakeSome \/ PeekAdd \/ PeekTake
  <2>1. ~m_EOFReached /\ UNCHANGED <<m_EOFReached, threw>>
    BY <1>3, Zenon DEF TakeByte, Stop, PeekByte, TakeSome, PeekAdd, PeekTake
  <2> QED
    BY <1>0, <2>1 DEF EndReached
<1>4. CASE PeekEnd \/ GetRef \/ UNCHANGED vars
  BY <1>0, <1>4 DEF PeekEnd, GetRef, vars, iteratorVars, bufferVars, EndReached, IteratorInWindow
<1>5. CASE IncrementFound
  <2>1. ~m_EOFReached
    BY <1>0, <1>5 DEF IncrementFound, EndReached, IteratorPos, Window
  <2> QED
    BY <1>0, <1>5, <2>1 DEF IncrementFound, EndReached
<1>6. CASE IncrementAdd
  BY <1>0, <1>6, IncrementAddIterator DEF IncrementAdd, EndReached
<1>7. CASE \E op \in Calls, n \in 1..Length + 1 : Call(op, n)
  BY <1>0, <1>7 DEF Call, bufferVars, EndReached
<1>8. CASE Begin
  BY <1>0, <1>8 DEF Begin, bufferVars, EndReached
<1>9. CASE Increment \/ Decrement \/ \E n \in 1..Length : Consume(n)
  <2>1. ~m_EOFReached
    <3>1. CASE Increment
      BY <1>0, <3>1 DEF Increment, EndReached
    <3>2. CASE Decrement
      BY <1>0, <3>2 DEF Decrement, EndReached
    <3>3. CASE \E n \in 1..Length : Consume(n)
      BY <1>0, <3>3 DEF Consume, EndReached, LengthAssumption
    <3> QED
      BY <1>9, <3>1, <3>2, <3>3
  <2>2. UNCHANGED <<m_EOFReached, threw>>
    BY <1>9, Zenon DEF Increment, Decrement, Consume
  <2> QED
    BY <1>0, <2>1, <2>2 DEF EndReached
<1>10. CASE Seek
  BY <1>10 DEF Seek, SetInputPosition, EndReached
<1> QED
  BY <1>1, <1>2, <1>3, <1>4, <1>5, <1>6, <1>7, <1>8, <1>9, <1>10, Zenon
     DEF SearchNext, Next, Step, Client

\* Every step keeps what is returned below what is asked for.
LEMMA SeenKept ==
  ASSUME LengthAssumption, IInv, [SearchNext]_vars
  PROVE  SeenLess'
<1>0. Window /\ SeenLess /\ seen \in Seq(Nat) /\ m_CurrentOffset \in Nat /\ arg \in Nat
  BY DEF IInv, Types, SeenLess, Window
<1>1. CASE Fill \/ End \/ Stop \/ PeekEnd \/ PeekAdd \/ IncrementFound \/ IncrementAdd
           \/ Increment \/ Decrement \/ (\E n \in 1..Length : Consume(n)) \/ UNCHANGED vars
  <2>1. UNCHANGED <<seen, arg>> /\ (call' = call \/ call' \in {"idle", "Increment"})
    BY <1>1, Zenon DEF Fill, End, Stop, PeekEnd, PeekAdd, IncrementFound, IncrementAdd,
                       Increment, Decrement, Consume, vars
  <2> QED
    BY <1>0, <2>1 DEF SeenLess
<1>2. CASE TakeByte
  <2>1. CurrentByte \in Nat
    BY <1>0, <1>2 DEF TakeByte, Buffered, CurrentByte, Window
  <2>2. seen' \in Seq(Nat)
    BY <1>0, <1>2, <2>1 DEF TakeByte
  <2> QED
    BY <1>2, <2>2 DEF TakeByte, SeenLess
<1>3. CASE PeekByte
  <2>1. CurrentByte \in Nat
    BY <1>0, <1>3 DEF PeekByte, Buffered, CurrentByte, Window
  <2>2. seen' \in Seq(Nat) /\ call' = "idle"
    BY <1>3, <2>1 DEF PeekByte
  <2> QED
    BY <2>2 DEF SeenLess
<1>4. CASE TakeSome
  <2>1. seen' \in Seq(Nat) /\ arg' = arg
    BY <1>4, TakenSize, Zenon DEF TakeSome
  <2>2. call' = "idle" \/ Len(seen') < arg
    BY <1>4 DEF TakeSome
  <2> QED
    BY <2>1, <2>2 DEF SeenLess
<1>5. CASE PeekTake
  <2>1. PeekPos + 1 \in 1..Len(m_Buffer)
    BY <1>0, <1>5 DEF PeekTake, PeekPos, Window
  <2>2. m_Buffer[PeekPos + 1] \in Nat
    BY <1>0, <2>1 DEF Window
  <2>3. seen' \in Seq(Nat)
    BY SMTT(30), <1>0, <1>5, <2>2 DEF PeekTake
  <2> QED
    BY <1>5, <2>3 DEF PeekTake, SeenLess
<1>6. CASE \E op \in Calls, n \in 1..Length + 1 : Call(op, n)
  <2>1. PICK op \in Calls, n \in 1..Length + 1 : Call(op, n)
    BY <1>6
  <2>2. seen' = <<>> /\ arg' = n /\ n \in Nat /\ 0 < n
    BY <2>1 DEF Call, LengthAssumption
  <2>3. seen' \in Seq(Nat) /\ Len(seen') = 0
    BY <2>2
  <2> QED
    BY <2>2, <2>3 DEF SeenLess
<1>7. CASE Begin \/ Seek
  <2>1. seen' = <<>> /\ call' \in {"idle", "Increment"}
    BY <1>7 DEF Begin, Seek, SetInputPosition
  <2>2. seen' \in Seq(Nat)
    BY <2>1
  <2> QED
    BY <2>1, <2>2 DEF SeenLess
<1>8. CASE GetRef
  <2>1. IteratorPos + 1 \in 1..Len(m_Buffer)
    BY <1>0, <1>8 DEF GetRef, IteratorPos, IInv, IteratorInWindow, Types, Window
  <2>2. m_Buffer[IteratorPos + 1] \in Nat
    BY <1>0, <2>1 DEF Window
  <2>3. seen' \in Seq(Nat) /\ call' = "idle"
    BY <1>8, <2>2 DEF GetRef
  <2> QED
    BY <2>3 DEF SeenLess
<1> QED
  BY <1>1, <1>2, <1>3, <1>4, <1>5, <1>6, <1>7, <1>8, Zenon DEF SearchNext, Next, Step, Client

\* The invariant holds in every reachable state.
LEMMA Invariance ==
  ASSUME LengthAssumption, CallsAssumption, WhencesAssumption
  PROVE  SearchSpec => []IInv
<1>1. Init => IInv
  BY InitInv
<1>2. IInv /\ [SearchNext]_vars => IInv'
  BY TypesKept, WindowKept, IteratorKept, EndKept, SeenKept, Zenon DEF IInv
<1> QED
  BY <1>1, <1>2, PTL DEF SearchSpec

\* The count of the bytes that have left the buffer is an unsigned number.
CountNatural == m_TotalOffset \in Nat

\* It stays one, unless the client seeks from a position that a peek may have set back.
LEMMA CountKept ==
  ASSUME LengthAssumption, WhencesAssumption, "SEEK_CUR" \notin Whences,
         IInv, [SearchNext]_vars, CountNatural
  PROVE  CountNatural'
<1>1. CASE Fill
  BY <1>1 DEF Fill, IInv, Window, CountNatural
<1>2. CASE Seek
  <2>1. PICK whence \in Whences, offset \in -Length..Length :
          InInput(offset, whence) /\ SetInputPosition(offset, whence)
    BY <1>2 DEF Seek
  <2>2. CASE whence = "SEEK_SET"
    BY <2>1, <2>2 DEF InInput, SetInputPosition, Target, CountNatural
  <2>3. CASE whence = "SEEK_END"
    BY <2>1, <2>3 DEF SetInputPosition, CountNatural
  <2> QED
    BY <2>2, <2>3 DEF WhencesAssumption
<1>3. CASE ~Fill /\ ~Seek
  <2>1. m_TotalOffset' = m_TotalOffset
    BY <1>3, Zenon
       DEF SearchNext, Next, Step, Client, vars, End, TakeByte, Stop, PeekByte, TakeSome, PeekEnd,
           PeekAdd, PeekTake, IncrementFound, IncrementAdd, Call, Begin, Increment,
           Decrement, GetRef, Consume
  <2> QED
    BY <2>1 DEF CountNatural
<1> QED
  BY <1>1, <1>2, <1>3

\* StreamReader.h: whatever is read, peeked, iterated and sought, in whatever order,
\* the buffer holds the last bytes the stream has handed out, none lost, doubled or
\* displaced by a refill, a shift or a growth, and its offset stays inside it.
THEOREM BufferIsWindow ==
  ASSUME LengthAssumption, CallsAssumption, WhencesAssumption, "SEEK_CUR" \notin Whences
  PROVE  SearchSpec => []BufferOK
<1>1. Init => CountNatural
  BY DEF Init, CountNatural
<1>2. IInv /\ [SearchNext]_vars /\ CountNatural => CountNatural'
  BY CountKept
<1>3. IInv /\ CountNatural => BufferOK
  <2> SUFFICES ASSUME IInv, CountNatural PROVE BufferOK
    OBVIOUS
  <2>1. m_Buffer \in [1..Len(m_Buffer) -> Nat]
    BY LenProperties DEF IInv, Window
  <2>2. m_Buffer = [i \in 1..Len(m_Buffer) |-> streamPos - Len(m_Buffer) + i]
    BY <2>1 DEF IInv, Window
  <2> QED
    BY <2>2, Zenon DEF IInv, Window, Types, BufferOK, CountNatural
<1>4. SearchSpec => []IInv
  BY Invariance
<1> QED
  BY <1>1, <1>2, <1>3, <1>4, PTL DEF SearchSpec
-----------------------------------------------------------------------------
(* The reader is a position in the input                                   *)

\* What the client sees of a state, and a step in which it sees nothing.
Seen == <<Consumed, call, arg, seen, iterator, m_Offset, m_EOFReached, threw>>

\* The position is in the input, at its end once that has been noticed, and an
\* iterator is ahead of it by its offset.
LEMMA PositionInInput ==
  ASSUME LengthAssumption, IInv
  PROVE  /\ Consumed \in 0..Length /\ Length \in Nat /\ m_Offset \in Nat
         /\ m_EOFReached => Consumed = Length
         /\ iterator = "at" /\ call = "idle" => Consumed + m_Offset < Length
         /\ iterator = "finished" => Consumed + m_Offset = Length
<1>0. Window /\ m_Offset \in Nat /\ Length \in Nat
  BY DEF IInv, Types, LengthAssumption
<1>1. Consumed \in 0..Length
  BY <1>0 DEF Window, Consumed
<1>2. m_EOFReached => Consumed = Length
  BY <1>0 DEF IInv, EndReached, Window, Consumed
<1>3. iterator = "at" /\ call = "idle" => Consumed + m_Offset < Length
  BY <1>0 DEF IInv, IteratorInWindow, IteratorPos, Window, Consumed
<1>4. iterator = "finished" => Consumed + m_Offset = Length
  <2>1. iterator = "finished" => streamPos = Length /\ m_CurrentOffset + m_Offset = Len(m_Buffer)
    BY DEF IInv, IteratorInWindow, IteratorPos
  <2>2. Len(m_Buffer) \in Nat /\ m_CurrentOffset \in Nat
    BY <1>0 DEF Window
  <2> QED
    BY <1>0, <2>1, <2>2 DEF Consumed
<1> QED
  BY <1>0, <1>1, <1>2, <1>3, <1>4, Zenon

\* The first byte in the buffer that is not read is the one at the position.
LEMMA FrontByte ==
  ASSUME LengthAssumption, Window, Buffered
  PROVE  /\ CurrentByte = Consumed + 1 /\ Consumed < Length /\ Consumed + 1 <= Length
         /\ m_CurrentOffset + 1 \in 0..Len(m_Buffer)
<1>1. 1 \in 1..Len(m_Buffer) - m_CurrentOffset
  BY DEF Window, Buffered
<1>2. m_Buffer[m_CurrentOffset + 1] = Consumed + 1
  BY <1>1, ByteInWindow
<1>3. /\ Consumed < Length /\ Consumed + 1 <= Length
      /\ m_CurrentOffset + 1 \in 0..Len(m_Buffer)
  BY <1>1 DEF Window, Consumed, LengthAssumption
<1> QED
  BY <1>2, <1>3, Zenon DEF CurrentByte

\* A call begins as ByteReader says it does, or an iterator.
LEMMA BeginningMaps ==
  ASSUME CallsAssumption,
         Begin \/ \E op \in Calls, n \in 1..Length + 1 :
                    (op \in {"ReadByte", "PeekByte"} => n = 1) /\ Call(op, n)
  PROVE  Reader!Call \/ Reader!Begin
<1>1. CASE Begin
  BY <1>1 DEF Begin, bufferVars, Consumed, Reader!Begin
<1>2. CASE \E op \in Calls, n \in 1..Length + 1 :
             (op \in {"ReadByte", "PeekByte"} => n = 1) /\ Call(op, n)
  <2>1. PICK op \in Calls, n \in 1..Length + 1 :
          (op \in {"ReadByte", "PeekByte"} => n = 1) /\ Call(op, n)
    BY <1>2
  <2>2. op \in Reader!Operations
    BY <2>1 DEF CallsAssumption, Operations, Reading, Call, Reader!Operations, Reader!Reading,
                Reader!Until, Reader!Sized
  <2>3. UNCHANGED Consumed
    BY <2>1 DEF Call, bufferVars, Consumed
  <2> QED
    BY <2>1, <2>2, <2>3, Zenon DEF Call, Reader!Call
<1> QED
  BY <1>1, <1>2

\* A refill is not seen, but for the end.
LEMMA FillMaps ==
  ASSUME LengthAssumption, IInv, Fill
  PROVE  Reader!NoticeEnd \/ UNCHANGED Seen
<1>1. /\ call \in Reading /\ ~m_EOFReached
      /\ UNCHANGED <<call, arg, seen, iterator, m_Offset, threw>>
  BY DEF Fill, iteratorVars
<1>2. /\ Window' /\ Consumed' = Consumed /\ m_EOFReached' \in BOOLEAN
      /\ m_EOFReached' => streamPos' = Length /\ m_CurrentOffset' = Len(m_Buffer')
  BY FillWindow DEF IInv
<1>3. CASE m_EOFReached'
  <2>1. Consumed = Length
    BY <1>2, <1>3 DEF Window, Consumed
  <2>2. call \in Reader!Reading
    BY <1>1 DEF Reading, Reader!Reading, Reader!Until, Reader!Sized
  <2>3. m_EOFReached' = TRUE
    BY <1>2, <1>3
  <2> QED
    BY <1>1, <1>2, <2>1, <2>2, <2>3, Zenon DEF Reader!NoticeEnd
<1>4. CASE ~m_EOFReached'
  <2>1. m_EOFReached' = m_EOFReached
    BY <1>1, <1>2, <1>4 DEF IInv, Types
  <2> QED
    BY <1>1, <1>2, <2>1, Zenon DEF Seen
<1> QED
  BY <1>3, <1>4

\* What is taken from the buffer follows the position, and moves it.
LEMMA ReadingMaps ==
  ASSUME LengthAssumption, IInv, TakeByte \/ Stop \/ TakeSome
  PROVE  Reader!TakeByte \/ Reader!Stop \/ \E k \in 1..Length : Reader!TakeSome(k)
<1>0. /\ Window /\ arg \in Nat /\ Length \in Nat /\ Consumed \in 0..Length
      /\ m_CurrentOffset \in Nat
  BY PositionInInput DEF IInv, Types, LengthAssumption, Window
<1>1. CASE TakeByte
  <2>1. CurrentByte = Consumed + 1 /\ Consumed < Length /\ m_CurrentOffset + 1 \in 0..Len(m_Buffer)
    BY <1>0, <1>1, FrontByte DEF TakeByte
  <2>2. Consumed' = Consumed + 1
    BY <1>0, <1>1, <2>1 DEF TakeByte, Consumed, Window
  <2>3. call \in Reader!Until
    BY <1>1 DEF TakeByte, Reader!Until
  <2>4. seen' = IF call = "SkipWhile" THEN seen ELSE Append(seen, Consumed + 1)
    BY <1>1, <2>1 DEF TakeByte
  <2>5. Consumed + 1 # arg
    BY <1>1, <2>1 DEF TakeByte
  <2>6. UNCHANGED <<call, arg, iterator, m_Offset, m_EOFReached, threw>>
    BY <1>1 DEF TakeByte, iteratorVars
  <2>7. Reader!TakeByte
    BY <2>1, <2>2, <2>3, <2>4, <2>5, <2>6, Zenon DEF Reader!TakeByte, Reader!GoOn
  <2> QED
    BY <2>7
<1>2. CASE Stop
  <2>1. CurrentByte = Consumed + 1 /\ Consumed < Length /\ m_CurrentOffset + 1 \in 0..Len(m_Buffer)
    BY <1>0, <1>2, FrontByte DEF Stop
  <2>2. Consumed' = IF call = "ReadLine" THEN Consumed + 1 ELSE Consumed
    BY <1>0, <1>2, <2>1 DEF Stop, Consumed, Window
  <2>3. call \in Reader!Until
    BY <1>2 DEF Stop, Reader!Until
  <2>4. Consumed + 1 = arg
    BY <1>2, <2>1 DEF Stop
  <2>5. call' = "idle" /\ UNCHANGED <<arg, seen, iterator, m_Offset, m_EOFReached, threw>>
    BY <1>2 DEF Stop, iteratorVars
  <2>6. Reader!Stop
    BY <2>1, <2>2, <2>3, <2>4, <2>5, Zenon DEF Reader!Stop, Reader!Return
  <2> QED
    BY <2>6
<1>3. CASE TakeSome
  <2>1. PICK size \in Nat \ {0} :
           /\ size <= arg - Len(seen) /\ m_CurrentOffset + size <= Len(m_Buffer)
           /\ m_CurrentOffset' = m_CurrentOffset + size
           /\ seen' = seen \o [i \in 1..size |-> Consumed + i]
    BY <1>3, TakenSize
  <2>2. UNCHANGED <<m_Buffer, streamPos, arg, iterator, m_Offset, m_EOFReached, threw>>
    BY <1>3 DEF TakeSome, iteratorVars
  <2>3. Consumed' = Consumed + size
    BY <1>0, <2>1, <2>2 DEF Consumed, Window
  <2>4. Consumed + size <= Length /\ size \in 1..Length
    BY <1>0, <2>1 DEF Consumed, Window
  <2>5. call \in Reader!Sized
    BY <1>3 DEF TakeSome, Reader!Sized
  <2>6. IF call \in Reader!Whole /\ Len(seen') < arg
        THEN Reader!GoOn ELSE Reader!Return
    <3>1. CASE call \in {"Read", "ReadExact"} /\ Len(seen') < arg
      BY <1>3, <2>2, <3>1 DEF TakeSome, Reader!Whole, Reader!GoOn
    <3>2. CASE ~(call \in {"Read", "ReadExact"} /\ Len(seen') < arg)
      BY <1>3, <2>2, <3>2 DEF TakeSome, Reader!Whole, Reader!Return
    <3> QED
      BY <3>1, <3>2
  <2>7. Reader!TakeSome(size)
    BY <2>1, <2>2, <2>3, <2>4, <2>5, <2>6, Zenon DEF Reader!TakeSome, Reader!BytesAfter
  <2> QED
    BY <2>4, <2>7
<1> QED
  BY <1>1, <1>2, <1>3

\* What is peeked is the byte ByteReader says, and the position stays.
LEMMA PeekingMaps ==
  ASSUME LengthAssumption, IInv, PeekByte \/ PeekTake
  PROVE  Reader!PeekByte \/ Reader!PeekMore
<1>0. Window /\ Length \in Nat /\ Consumed \in 0..Length /\ m_CurrentOffset \in Nat
  BY PositionInInput DEF IInv, LengthAssumption, Window
<1>1. CASE PeekByte
  <2>1. CurrentByte = Consumed + 1 /\ Consumed < Length
    BY <1>0, <1>1, FrontByte DEF PeekByte
  <2>2. UNCHANGED <<Consumed, arg, iterator, m_Offset, m_EOFReached, threw>>
    BY <1>1 DEF PeekByte, bufferVars, iteratorVars, Consumed
  <2>3. call = "PeekByte" /\ call' = "idle" /\ seen' = <<Consumed + 1>>
    BY <1>1, <2>1 DEF PeekByte
  <2>4. Reader!PeekByte
    BY <2>1, <2>2, <2>3, Zenon DEF Reader!PeekByte, Reader!Return
  <2> QED
    BY <2>4
<1>2. CASE PeekTake
  <2>1. Len(seen) \in Nat
    BY DEF IInv, SeenLess
  <2>2. PeekPos + 1 \in 1..Len(m_Buffer)
    BY <1>0, <1>2, <2>1 DEF PeekTake, PeekPos, Window
  <2>3. m_Buffer[PeekPos + 1] = Reader!Peeked + 1 /\ Reader!Peeked < Length
    BY <1>0, <2>1, <2>2 DEF PeekPos, Window, Consumed, Reader!Peeked
  <2>4. call = "PeekWhile" /\ UNCHANGED <<Consumed, arg, iterator, m_Offset, m_EOFReached, threw>>
    BY <1>2 DEF PeekTake, bufferVars, iteratorVars, Consumed
  <2>5. IF Reader!Peeked + 1 = arg THEN call' = "idle" /\ UNCHANGED seen
        ELSE seen' = Append(seen, Reader!Peeked + 1) /\ UNCHANGED call
    BY <1>2, <2>3, Zenon DEF PeekTake
  <2>6. Reader!PeekMore
    BY <2>3, <2>4, <2>5, Zenon DEF Reader!PeekMore, Reader!Return, Reader!GoOn
  <2> QED
    BY <2>6
<1> QED
  BY <1>1, <1>2

\* At the end calls return, or throw.
LEMMA EndMaps ==
  ASSUME LengthAssumption, IInv, End \/ PeekEnd
  PROVE  Reader!AtEnd
<1>1. m_EOFReached /\ call \in Reader!Operations
  BY DEF End, PeekEnd, Reading, Reader!Operations, Reader!Reading, Reader!Until, Reader!Sized
<1>2. call' = "idle" /\ UNCHANGED <<Consumed, arg, seen, iterator, m_Offset, m_EOFReached>>
  BY DEF End, PeekEnd, bufferVars, iteratorVars, Consumed
<1>3. threw' = (call \in {"ReadByte", "PeekByte", "ReadExact"})
  <2>1. CASE End
    BY <2>1 DEF End
  <2>2. CASE PeekEnd
    <3>1. call = "PeekWhile" /\ threw' = threw /\ ~threw
      BY <2>2 DEF PeekEnd, IInv, EndReached
    <3> QED
      BY <3>1 DEF IInv, Types
  <2> QED
    BY <2>1, <2>2
<1> QED
  BY <1>1, <1>2, <1>3, Zenon DEF Reader!AtEnd, Reader!Return

\* The iterator moves a byte at a time, finishes at the end, shows the byte it is at,
\* and the position can be moved towards it.
LEMMA IteratorMaps ==
  ASSUME LengthAssumption, IInv,
         \/ Increment \/ IncrementFound \/ IncrementAdd \/ Decrement \/ GetRef
         \/ \E n \in 1..Length : Consume(n)
  PROVE  \/ Reader!Forward \/ Reader!Moved \/ Reader!Backward \/ Reader!LookAhead
         \/ \E k \in 1..Length : Reader!Consume(k)
         \/ UNCHANGED Seen
<1>0. /\ Window /\ IteratorInWindow /\ Length \in Nat /\ m_Offset \in Nat
      /\ Consumed \in 0..Length /\ m_CurrentOffset \in Nat /\ Consumed \in Nat
  BY PositionInInput DEF IInv, LengthAssumption, Window
<1>1. CASE Increment
  BY <1>1 DEF Increment, bufferVars, Consumed, Reader!Forward
<1>2. CASE IncrementFound
  <2>1. Consumed + m_Offset < Length /\ iterator = "at"
    BY <1>0, <1>2 DEF IncrementFound, IteratorInWindow, IteratorPos, Window, Consumed
  <2>2. /\ call = "Increment" /\ call' = "idle"
        /\ UNCHANGED <<Consumed, arg, seen, iterator, m_Offset, m_EOFReached, threw>>
    BY <1>2 DEF IncrementFound, bufferVars, iteratorVars, Consumed
  <2>3. Reader!Moved
    BY <2>1, <2>2, Zenon DEF Reader!Moved
  <2> QED
    BY <2>3
<1>3. CASE IncrementAdd
  <2>1. /\ Consumed' = Consumed /\ call = "Increment"
        /\ UNCHANGED <<arg, seen, m_Offset, m_EOFReached, threw>>
    BY <1>3, IncrementAddIterator DEF IncrementAdd
  <2>2. CASE streamPos' # streamPos
    <3>1. UNCHANGED <<iterator, call>>
      BY <1>3, <2>2 DEF IncrementAdd
    <3> QED
      BY <2>1, <3>1, Zenon DEF Seen
  <2>3. CASE streamPos' = streamPos
    <3>1. streamPos = Length /\ iterator' = "finished" /\ call' = "idle"
      BY <1>3, <2>3, IncrementAddIterator DEF IncrementAdd
    <3>2. ~(Consumed + m_Offset < Length)
      BY <1>0, <1>3, <3>1 DEF IncrementAdd, IteratorPos, Window, Consumed
    <3>3. Reader!Moved
      BY <2>1, <3>1, <3>2, Zenon DEF Reader!Moved
    <3> QED
      BY <3>3
  <2> QED
    BY <2>2, <2>3
<1>4. CASE Decrement
  BY <1>4 DEF Decrement, bufferVars, Consumed, Reader!Backward
<1>5. CASE GetRef
  <2>1. IteratorPos + 1 \in 1..Len(m_Buffer)
    BY <1>0, <1>5 DEF GetRef, IteratorPos, IteratorInWindow, Window
  <2>2. m_Buffer[IteratorPos + 1] = Consumed + m_Offset + 1 /\ Consumed + m_Offset < Length
    BY <1>0, <2>1 DEF IteratorPos, Window, Consumed
  <2>3. /\ call = "idle" /\ iterator = "at" /\ seen' = <<Consumed + m_Offset + 1>>
        /\ UNCHANGED <<Consumed, call, arg, iterator, m_Offset, m_EOFReached, threw>>
    BY <1>5, <2>2 DEF GetRef, bufferVars, iteratorVars, Consumed
  <2>4. Reader!LookAhead
    BY <2>2, <2>3, Zenon DEF Reader!LookAhead
  <2> QED
    BY <2>4
<1>6. CASE \E n \in 1..Length : Consume(n)
  <2>1. PICK n \in 1..Length : Consume(n)
    BY <1>6
  <2>2. /\ call = "idle" /\ iterator # "none" /\ n <= m_Offset /\ m_Offset' = m_Offset - n
        /\ m_CurrentOffset' = m_CurrentOffset + n
        /\ UNCHANGED <<m_Buffer, streamPos, iterator, call, arg, seen, m_EOFReached, threw>>
    BY <2>1 DEF Consume
  <2>3. Consumed' = Consumed + n
    BY <1>0, <2>2 DEF Consumed, Window
  <2>4. Reader!Consume(n)
    BY <2>2, <2>3, Zenon DEF Reader!Consume
  <2> QED
    BY <2>4
<1> QED
  BY <1>1, <1>2, <1>3, <1>4, <1>5, <1>6

\* A seek, but one from where the stream stands, goes where it was asked to.
LEMMA SeekMaps ==
  ASSUME LengthAssumption, WhencesAssumption, "SEEK_CUR" \notin Whences, IInv, Seek
  PROVE  Reader!Seek
<1>0. ASSUME streamPos' \in 0..Length, Len(m_Buffer') = 0 /\ m_CurrentOffset' = 0
      PROVE  Consumed' = streamPos'
  <2>1. \A p \in Int : p - (0 - 0) = p
    OBVIOUS
  <2>2. streamPos' \in Int
    BY <1>0 DEF LengthAssumption
  <2> QED
    BY <1>0, <2>1, <2>2, Zenon DEF Consumed
<1>1. PICK whence \in Whences, offset \in -Length..Length :
        InInput(offset, whence) /\ SetInputPosition(offset, whence)
  BY DEF Seek
<1>2. Target(offset, whence, Consumed) = Target(offset, whence, streamPos)
  BY DEF WhencesAssumption, Target
<1>3. arg' \in 0..Length /\ streamPos' = arg'
  BY <1>1, <1>2 DEF InInput, SetInputPosition
<1>4. Len(m_Buffer') = 0 /\ m_CurrentOffset' = 0
  BY <1>1 DEF SetInputPosition
<1>5. Consumed' = arg'
  BY <1>0, <1>3, <1>4, Zenon
<1>6. /\ call = "idle" /\ call' = call /\ iterator' = "none" /\ m_Offset' = 0 /\ seen' = <<>>
      /\ m_EOFReached' = FALSE /\ threw' = FALSE
  BY <1>1 DEF SetInputPosition
<1> QED
  BY <1>3, <1>5, <1>6, Zenon DEF Reader!Seek

\* Growing the buffer under a PeekWhile is not seen.
LEMMA PeekAddMaps ==
  ASSUME LengthAssumption, IInv, PeekAdd
  PROVE  UNCHANGED Seen
<1>1. Consumed' = Consumed
  BY AddWindow DEF PeekAdd, IInv
<1> QED
  BY <1>1, Zenon DEF PeekAdd, iteratorVars, Seen

\* Every step is one ByteReader allows the call in progress, or one its client does
\* not see.
LEMMA StepMaps ==
  ASSUME LengthAssumption, CallsAssumption, WhencesAssumption, "SEEK_CUR" \notin Whences,
         IInv, [SearchNext]_vars
  PROVE  [Reader!Next]_(Reader!vars)
<1>1. CASE UNCHANGED Seen
  BY <1>1, Zenon DEF Seen, Reader!vars
<1>2. CASE UNCHANGED vars
  BY <1>1, <1>2 DEF vars, bufferVars, iteratorVars, Seen, Consumed
<1>3. CASE Begin \/ \E op \in Calls, n \in 1..Length + 1 :
                      (op \in {"ReadByte", "PeekByte"} => n = 1) /\ Call(op, n)
  BY <1>3, BeginningMaps, Zenon DEF Reader!Next
<1>4. CASE Fill
  BY <1>1, <1>4, FillMaps, Zenon DEF Reader!Next
<1>5. CASE TakeByte \/ Stop \/ TakeSome
  BY <1>5, ReadingMaps, Zenon DEF Reader!Next
<1>6. CASE PeekByte \/ PeekTake
  BY <1>6, PeekingMaps, Zenon DEF Reader!Next
<1>7. CASE PeekAdd
  BY <1>1, <1>7, PeekAddMaps
<1>8. CASE End \/ PeekEnd
  BY <1>8, EndMaps, Zenon DEF Reader!Next
<1>9. CASE \/ Increment \/ IncrementFound \/ IncrementAdd \/ Decrement \/ GetRef
           \/ \E n \in 1..Length : Consume(n)
  BY <1>1, <1>9, IteratorMaps, Zenon DEF Reader!Next
<1>10. CASE Seek
  BY <1>10, SeekMaps, Zenon DEF Reader!Next
<1> QED
  BY <1>2, <1>3, <1>4, <1>5, <1>6, <1>7, <1>8, <1>9, <1>10, Zenon
     DEF SearchNext, Next, Step, Client

\* StreamReader.h: to its client the reader is a position in the input, and each call
\* does to it what the call is for, over inputs and buffers of any size and whatever
\* is mixed.  A read returns the bytes that follow the position, in order and once,
\* moves it past them and stops where it should; a peek returns them and does not move
\* it; only an iterator's Consume and a seek to a position or from the end move it
\* otherwise, by as much as they are asked to; and the end is reported only there.
THEOREM ReaderImplementsByteReader ==
  ASSUME LengthAssumption, CallsAssumption, WhencesAssumption, "SEEK_CUR" \notin Whences
  PROVE  SearchSpec => ImplementsByteReader
<1>1. Init => Reader!Init
  <2> SUFFICES ASSUME Init PROVE Reader!Init
    OBVIOUS
  <2>1. Len(m_Buffer) = 0 /\ streamPos = 0 /\ m_CurrentOffset = 0
    BY DEF Init
  <2>2. Consumed = 0
    BY <2>1 DEF Consumed
  <2> QED
    BY <2>2, Zenon DEF Init, Reader!Init
<1>2. IInv /\ [SearchNext]_vars => [Reader!Next]_(Reader!vars)
  BY StepMaps
<1>3. SearchSpec => []IInv
  BY Invariance
<1> QED
  BY <1>1, <1>2, <1>3, PTL DEF SearchSpec, ImplementsByteReader, Reader!Spec
-----------------------------------------------------------------------------
(* Position()                                                              *)

\* What a step that reads does to Position.
LEMMA StepPosition ==
  ASSUME LengthAssumption, IInv, IInv', [SearchNext]_vars, ~Seek,
         call \notin {"PeekWhile", "Increment"}
  PROVE  Position' + Consumed = Position + Consumed'
<1>0. /\ Window /\ m_TotalOffset \in Int /\ m_CurrentOffset \in Nat /\ Consumed \in Int
      /\ Len(m_Buffer) \in Nat /\ Length \in Nat
  BY DEF IInv, Types, Window, Consumed, LengthAssumption
<1>1. CASE Fill
  <2>1. Consumed' = Consumed /\ m_CurrentOffset = Len(m_Buffer)
    BY <1>0, <1>1, FillWindow
  <2>2. m_TotalOffset' = m_TotalOffset + Len(m_Buffer) /\ m_CurrentOffset' = 0
    BY <1>1 DEF Fill
  <2>3. Position' = Position
    BY <1>0, <2>1, <2>2 DEF Position
  <2> QED
    BY <2>1, <2>3
<1>2. CASE m_TotalOffset' = m_TotalOffset /\ UNCHANGED <<m_Buffer, streamPos>>
           /\ \E k \in Nat : m_CurrentOffset' = m_CurrentOffset + k
  <2>1. PICK k \in Nat : m_CurrentOffset' = m_CurrentOffset + k
    BY <1>2
  <2>2. Position' = Position + k /\ Consumed' = Consumed + k
    BY <1>0, <1>2, <2>1 DEF Position, Consumed, Window
  <2>3. Position \in Int
    BY <1>0 DEF Position
  <2> QED
    BY <1>0, <2>2, <2>3
<1>3. CASE \/ End \/ PeekByte \/ Begin \/ Increment \/ Decrement \/ GetRef \/ UNCHANGED vars
           \/ \E op \in Calls, n \in 1..Length + 1 : Call(op, n)
  <2>1. UNCHANGED bufferVars /\ m_TotalOffset' = m_TotalOffset
    BY <1>3, Zenon DEF End, PeekByte, Begin, Increment, Decrement, GetRef, vars, Call
  <2>2. m_CurrentOffset' = m_CurrentOffset + 0 /\ 0 \in Nat
    BY <1>0, <2>1 DEF bufferVars
  <2> QED
    BY <1>2, <2>1, <2>2 DEF bufferVars
<1>4. CASE TakeByte
  BY <1>2, <1>4 DEF TakeByte
<1>5. CASE Stop
  <2>1. \E k \in Nat : m_CurrentOffset' = m_CurrentOffset + k
    BY <1>5 DEF Stop
  <2> QED
    BY <1>2, <1>5, <2>1 DEF Stop
<1>6. CASE TakeSome
  <2>1. \E k \in Nat : m_CurrentOffset' = m_CurrentOffset + k
    BY <1>6, TakenSize
  <2> QED
    BY <1>2, <1>6, <2>1 DEF TakeSome
<1>7. CASE \E n \in 1..Length : Consume(n)
  <2>1. PICK n \in 1..Length : Consume(n)
    BY <1>7
  <2>2. n \in Nat
    BY <1>0
  <2> QED
    BY <1>2, <2>1, <2>2 DEF Consume
<1>8. ~PeekEnd /\ ~PeekAdd /\ ~PeekTake /\ ~IncrementFound /\ ~IncrementAdd
  BY DEF PeekEnd, PeekAdd, PeekTake, IncrementFound, IncrementAdd
<1> QED
  BY <1>1, <1>3, <1>4, <1>5, <1>6, <1>7, <1>8, Zenon DEF SearchNext, Next, Step, Client

\* StreamReader.h: Position() moves with the bytes that are read, through every refill,
\* and is the position sought after a seek to a stored one.
THEOREM PositionFollowsReads ==
  ASSUME LengthAssumption, CallsAssumption, Whences \subseteq {"SEEK_SET"}
  PROVE  SearchSpec => PositionFollows
<1>0. WhencesAssumption
  BY DEF WhencesAssumption
<1>1. Seek => Position' = Consumed'
  <2> SUFFICES ASSUME Seek PROVE Position' = Consumed'
    OBVIOUS
  <2>1. PICK offset \in -Length..Length : SetInputPosition(offset, "SEEK_SET")
    BY DEF Seek
  <2>2. offset \in Int
    BY DEF LengthAssumption
  <2>3. /\ m_TotalOffset' = offset /\ m_CurrentOffset' = 0 /\ streamPos' = offset
        /\ m_Buffer' = <<>>
    BY <2>1 DEF SetInputPosition, Target
  <2>4. Len(m_Buffer') = 0
    BY <2>3
  <2> QED
    BY <2>2, <2>3, <2>4 DEF Position, Consumed
<1>2. IInv /\ IInv' /\ [SearchNext]_vars
        => [IF Seek THEN Position' = Consumed'
                    ELSE call \notin {"PeekWhile", "Increment"} =>
                           Position' + Consumed = Position + Consumed']_vars
  BY <1>1, StepPosition
<1>3. SearchSpec => []IInv
  BY <1>0, Invariance
<1> QED
  BY <1>2, <1>3, PTL DEF SearchSpec, PositionFollows
-----------------------------------------------------------------------------
(* LineRetriever                                                           *)

\* The stream, and the window of it that is buffered.
LineWindow ==
  /\ text \in Seq({"x", "CR", "LF"}) /\ textPos \in 0..Len(text)
  /\ m_StreamFinished => textPos = Len(text)
  /\ lineBuffer \in Seq(Nat) /\ Len(lineBuffer) <= textPos
  /\ \A i \in 1..Len(lineBuffer) : lineBuffer[i] = textPos - Len(lineBuffer) + i
  /\ m_BufferOffset \in 0..Len(lineBuffer)

\* What a search has passed holds no newline.
Searched ==
  searching =>
    /\ lineCall # "idle"
    /\ searchOffset \in m_BufferOffset..Len(lineBuffer)
    /\ \A i \in m_BufferOffset + 1..searchOffset : text[lineBuffer[i]] # "LF"
    /\ ~m_LineBuffered

\* A line begins behind a newline.
AfterNewline == m_BufferOffset > 0 => text[lineBuffer[m_BufferOffset]] = "LF"

\* After the end has been reported there is nothing left to search.
Over == m_Finished => m_StreamFinished /\ lineBuffer = <<>> /\ ~searching

LineTypes ==
  /\ searching \in BOOLEAN
  /\ m_LineBuffered \in BOOLEAN /\ m_Finished \in BOOLEAN /\ m_StreamFinished \in BOOLEAN
  /\ lineCall \in {"idle", "GetLine", "PeekLine", "DiscardLine"}

LineInv == LineWindow /\ Searched /\ AfterNewline /\ Over /\ LineTypes

\* A set of numbers that is not empty has a least one, which CHOOSE finds.
LEMMA LeastChosen ==
  ASSUME NEW S \in SUBSET Nat, S # {}
  PROVE  LET least == CHOOSE i \in S : \A j \in S : i <= j
         IN  least \in S /\ \A j \in S : least <= j
<1>1. \E x \in S : \A y \in S : ~ (<<y, x>> \in OpToRel(<, Nat))
  BY NatLessThanWellFounded, WFMin
<1>2. \A x, y \in Nat : y < x => <<y, x>> \in OpToRel(<, Nat)
  BY DEF OpToRel
<1>3. \E x \in S : \A y \in S : x <= y
  <2>1. PICK x \in S : \A y \in S : ~ (<<y, x>> \in OpToRel(<, Nat))
    BY <1>1
  <2>2. \A y \in S : ~ (y < x)
    BY <1>2, <2>1, Zenon
  <2> QED
    BY <2>2
<1> QED
  BY <1>3, Zenon

\* The bytes of a chunk.
LEMMA RunProperties ==
  ASSUME NEW n \in Nat, NEW k \in Nat
  PROVE  /\ [i \in 1..k |-> n + i] \in Seq(Nat) /\ Len([i \in 1..k |-> n + i]) = k
         /\ \A i \in 1..k : [j \in 1..k |-> n + j][i] = n + i
  OBVIOUS

\* An input, nothing of it buffered.
LEMMA LineInitInv == LineInit => LineInv
<1> SUFFICES ASSUME LineInit PROVE LineInv
  OBVIOUS
<1>1. text \in Seq({"x", "CR", "LF"}) /\ Len(text) \in Nat
  BY DEF LineInit
<1>2. lineBuffer \in Seq(Nat) /\ Len(lineBuffer) = 0 /\ textPos = 0 /\ m_BufferOffset = 0
  BY DEF LineInit
<1>3. LineWindow
  BY <1>1, <1>2 DEF LineInit, LineWindow
<1>4. Searched /\ AfterNewline /\ Over
  BY <1>2 DEF LineInit, Searched, AfterNewline, Over
<1>5. LineTypes
  BY Zenon DEF LineInit, LineTypes
<1> QED
  BY <1>3, <1>4, <1>5 DEF LineInv

-----------------------------------------------------------------------------
(* The steps, on the window                                                *)

\* A chunk is added to the window; nothing that is searched or left changes.
LEMMA ReadChunkWindow ==
  ASSUME RetrieverAssumption, LineInv, ReadChunk
  PROVE  /\ LineInv'
         /\ \E k \in Nat : textPos' = textPos + k /\ Len(lineBuffer') = Len(lineBuffer) + k
<1>0. /\ LineWindow /\ LineTypes /\ Len(lineBuffer) \in Nat /\ Len(text) \in Nat /\ textPos \in Nat
      /\ m_BufferOffset \in Nat
  BY DEF LineInv, LineWindow
<1> DEFINE room == Len(text) - textPos
           added == IF room < RecieveChunkSize THEN room ELSE RecieveChunkSize
<1>1. /\ added \in Nat /\ added <= room /\ (added < RecieveChunkSize => added = room)
  BY <1>0 DEF LineWindow, RetrieverAssumption
<1>2. PICK size \in Nat : size = added
  BY <1>1
<1> DEFINE chunk == [i \in 1..size |-> textPos + i]
<1>3. /\ lineBuffer' = lineBuffer \o chunk /\ textPos' = textPos + size
      /\ m_StreamFinished' = (size < RecieveChunkSize)
      /\ UNCHANGED <<text, m_BufferOffset, m_Finished, m_LineBuffered, lineCall, searching>>
      /\ searchOffset' = Len(lineBuffer) /\ searching
  BY <1>2 DEF ReadChunk
<1>4. size \in Nat /\ size <= Len(text) - textPos
       /\ (size < RecieveChunkSize => size = Len(text) - textPos)
  BY <1>1, <1>2
<1> HIDE DEF added
<1>5. chunk \in Seq(Nat) /\ Len(chunk) = size /\ \A i \in 1..size : chunk[i] = textPos + i
  BY <1>0, RunProperties
<1> HIDE DEF chunk
<1>6. /\ lineBuffer' \in Seq(Nat) /\ Len(lineBuffer') = Len(lineBuffer) + size
      /\ \A i \in 1..Len(lineBuffer) + size :
           lineBuffer'[i] = IF i <= Len(lineBuffer) THEN lineBuffer[i]
                            ELSE chunk[i - Len(lineBuffer)]
  <2>1. lineBuffer \in Seq(Nat)
    BY <1>0 DEF LineWindow
  <2>2. /\ lineBuffer \o chunk \in Seq(Nat)
        /\ Len(lineBuffer \o chunk) = Len(lineBuffer) + Len(chunk)
        /\ \A i \in 1..Len(lineBuffer) + Len(chunk) :
             (lineBuffer \o chunk)[i]
               = IF i <= Len(lineBuffer) THEN lineBuffer[i] ELSE chunk[i - Len(lineBuffer)]
    BY <1>5, <2>1, ConcatProperties, Zenon
  <2> QED
    BY <1>3, <1>5, <2>2, Zenon
<1>7. \A i \in 1..Len(lineBuffer) : lineBuffer'[i] = lineBuffer[i]
  BY <1>0, <1>4, <1>6
<1>8. \A i \in 1..Len(lineBuffer') : lineBuffer'[i] = textPos' - Len(lineBuffer') + i
  <2> SUFFICES ASSUME NEW i \in 1..Len(lineBuffer) + size
               PROVE  lineBuffer'[i] = textPos - Len(lineBuffer) + i
    BY <1>0, <1>3, <1>4, <1>6
  <2>1. CASE i <= Len(lineBuffer)
    BY <1>0, <1>4, <1>7, <2>1 DEF LineWindow
  <2>2. CASE i > Len(lineBuffer)
    <3>1. i - Len(lineBuffer) \in 1..size /\ lineBuffer'[i] = chunk[i - Len(lineBuffer)]
      BY <1>0, <1>4, <1>6, <2>2
    <3> QED
      BY <1>0, <1>5, <3>1
  <2> QED
    BY <1>0, <1>4, <2>1, <2>2
<1>9. /\ textPos + size \in 0..Len(text) /\ Len(lineBuffer) + size <= textPos + size
      /\ m_BufferOffset \in 0..Len(lineBuffer) + size
      /\ size < RecieveChunkSize => textPos + size = Len(text)
  BY <1>0, <1>4 DEF LineWindow
<1>10. LineWindow'
  BY <1>0, <1>3, <1>6, <1>8, <1>9 DEF LineWindow
<1>11. Searched'
  <2>1. Len(lineBuffer) \in m_BufferOffset..Len(lineBuffer) + size
    BY <1>0, <1>4 DEF LineWindow
  <2>2. \A i \in m_BufferOffset + 1..Len(lineBuffer) : text[lineBuffer[i]] # "LF"
    <3> TAKE i \in m_BufferOffset + 1..Len(lineBuffer)
    <3>1. CASE i <= searchOffset
      BY <1>0, <1>3, <3>1 DEF LineInv, Searched
    <3>2. CASE i > searchOffset
      <4>1. i \in searchOffset + 1..Len(lineBuffer)
        BY <1>0, <1>3, <3>2 DEF LineInv, Searched
      <4>2. {n \in searchOffset + 1..Len(lineBuffer) : text[lineBuffer[n]] = "LF"} = {}
        BY DEF ReadChunk, NewlinesFrom
      <4> QED
        BY <4>1, <4>2, Zenon
    <3> QED
      BY <1>0, <1>3, <3>1, <3>2 DEF LineInv, Searched
  <2>3. ~m_LineBuffered /\ lineCall # "idle"
    BY <1>3 DEF LineInv, Searched
  <2>4. \A i \in m_BufferOffset + 1..Len(lineBuffer) : text[lineBuffer'[i]] # "LF"
    BY <1>0, <1>7, <2>2
  <2> QED
    BY <1>3, <1>6, <2>1, <2>3, <2>4 DEF Searched
<1>12. AfterNewline'
  BY <1>0, <1>3, <1>7 DEF LineInv, AfterNewline, LineWindow
<1>13. LineTypes'
  BY <1>0, <1>3 DEF LineTypes
<1>14. Over'
  BY <1>3 DEF LineInv, Over
<1> QED
  BY <1>3, <1>4, <1>6, <1>10, <1>11, <1>12, <1>13, <1>14 DEF LineInv

-----------------------------------------------------------------------------
(* The next line                                                           *)

\* How many bytes of the input are before the buffer, and before the next line.
Base == textPos - Len(lineBuffer)
Pos == textPos - (Len(lineBuffer) - m_BufferOffset)

\* The numbers the arguments below calculate with.
LEMMA WindowNumbers ==
  ASSUME LineWindow
  PROVE  /\ Len(lineBuffer) \in Nat /\ Len(text) \in Nat /\ textPos \in Nat
         /\ m_BufferOffset \in Nat /\ m_BufferOffset <= Len(lineBuffer)
         /\ Base \in Nat /\ Pos \in Nat /\ Pos = Base + m_BufferOffset
         /\ textPos = Base + Len(lineBuffer) /\ textPos <= Len(text)
         /\ \A i \in 1..Len(lineBuffer) : lineBuffer[i] = Base + i
  BY DEF LineWindow, Base, Pos

\* The part of a sequence between two of its places.
LEMMA PartProperties ==
  ASSUME NEW s \in Seq(Nat), NEW m \in Nat, NEW n \in Nat, m <= n, n <= Len(s)
  PROVE  /\ SubSeq(s, m + 1, n) \in Seq(Nat) /\ Len(SubSeq(s, m + 1, n)) = n - m
         /\ \A i \in 1..n - m : SubSeq(s, m + 1, n)[i] = s[m + i]
<1> DEFINE first == m + 1
<1>1. /\ first \in 1..Len(s) + 1 /\ n \in first - 1..Len(s) /\ first \in Int /\ n \in Int
      /\ n - first + 1 = n - m
  OBVIOUS
<1>2. \A i \in 1..n - m : first + i - 1 = m + i
  OBVIOUS
<1> HIDE DEF first
<1>3. /\ SubSeq(s, first, n) \in Seq(Nat) /\ Len(SubSeq(s, first, n)) = n - m
      /\ \A i \in 1..n - m : SubSeq(s, first, n)[i] = s[m + i]
  BY <1>1, <1>2, SubSeqProperties
<1> QED
  BY <1>3, Zenon DEF first

\* A part of the buffer is a run of positions.
LEMMA LineIsRun ==
  ASSUME LineWindow, NEW last \in Nat, m_BufferOffset <= last, last <= Len(lineBuffer)
  PROVE  SubSeq(lineBuffer, m_BufferOffset + 1, last) = Source!Positions(Pos + 1, Base + last)
<1> DEFINE run == SubSeq(lineBuffer, m_BufferOffset + 1, last)
<1>1. lineBuffer \in Seq(Nat)
  BY DEF LineWindow
<1>2. /\ run \in Seq(Nat) /\ Len(run) = last - m_BufferOffset
      /\ \A i \in 1..last - m_BufferOffset : run[i] = lineBuffer[m_BufferOffset + i]
  BY <1>1, WindowNumbers, PartProperties
<1>3. \A i \in 1..last - m_BufferOffset : run[i] = Pos + i
  <2> TAKE i \in 1..last - m_BufferOffset
  <2>1. m_BufferOffset + i \in 1..Len(lineBuffer)
    BY WindowNumbers
  <2> QED
    <3>1. run[i] = lineBuffer[m_BufferOffset + i]
      BY <1>2
    <3>2. lineBuffer[m_BufferOffset + i] = Base + (m_BufferOffset + i)
      BY <2>1, WindowNumbers
    <3> QED
      BY <3>1, <3>2, WindowNumbers
<1>4. run \in [1..last - m_BufferOffset -> Nat]
  BY <1>2, LenProperties
<1> HIDE DEF run
<1>5. run = [i \in 1..last - m_BufferOffset |-> Pos + i]
  BY <1>3, <1>4
<1>6. Source!Positions(Pos + 1, Base + last) = [i \in 1..last - m_BufferOffset |-> Pos + i]
  <2>1. Base + last + 1 - (Pos + 1) = last - m_BufferOffset
    BY WindowNumbers
  <2>2. Source!Positions(Pos + 1, Base + last)
          = [i \in 1..last - m_BufferOffset |-> Pos + 1 - 1 + i]
    BY <2>1, WindowNumbers DEF Source!Positions
  <2>3. \A i \in 1..last - m_BufferOffset : Pos + 1 - 1 + i = Pos + i
    BY WindowNumbers
  <2> QED
    BY <2>2, <2>3
<1> QED
  BY <1>5, <1>6 DEF run

\* A newline that the search finds ends the line; the byte before it in the buffer is
\* a carriage return of this line, if it is one.
LEMMA NewlineEndsLine ==
  ASSUME LineInv, searching, NewlinesFrom(searchOffset) # {}
  PROVE  \E n \in Nat :
           /\ n = FirstNewline(searchOffset)
           /\ m_BufferOffset < n /\ n <= Len(lineBuffer)
           /\ text[lineBuffer[n]] = "LF"
           /\ Source!LineEnd(Pos) = Base + n /\ Base + n <= Len(text)
           /\ n > 1 /\ text[lineBuffer[n - 1]] = "CR"
                <=> Base + n - 1 > Pos /\ text[Base + n - 1] = "CR"
<1>0. LineWindow /\ Searched /\ AfterNewline
  BY DEF LineInv
<1>1. /\ searchOffset \in Nat /\ m_BufferOffset <= searchOffset /\ searchOffset <= Len(lineBuffer)
      /\ \A i \in m_BufferOffset + 1..searchOffset : text[lineBuffer[i]] # "LF"
  BY <1>0, WindowNumbers DEF Searched
<1>2. NewlinesFrom(searchOffset) \subseteq Nat
  BY <1>1 DEF NewlinesFrom
<1>3. PICK n \in NewlinesFrom(searchOffset) :
        n = FirstNewline(searchOffset) /\ \A j \in NewlinesFrom(searchOffset) : n <= j
  BY <1>2, LeastChosen DEF FirstNewline
<1>4. n \in Nat /\ searchOffset < n /\ n <= Len(lineBuffer) /\ text[lineBuffer[n]] = "LF"
  BY <1>1, <1>3 DEF NewlinesFrom
<1>5. m_BufferOffset < n /\ lineBuffer[n] = Base + n
  BY <1>0, <1>1, <1>4, WindowNumbers
<1>6. \A i \in m_BufferOffset + 1..n - 1 : text[Base + i] # "LF"
  <2> TAKE i \in m_BufferOffset + 1..n - 1
  <2>1. lineBuffer[i] = Base + i /\ i \in Nat
    BY <1>0, <1>4, WindowNumbers
  <2>2. CASE i <= searchOffset
    BY <1>0, <1>1, <2>1, <2>2, WindowNumbers
  <2>3. CASE i > searchOffset
    <3>1. ~(n <= i) /\ i \in searchOffset + 1..Len(lineBuffer)
      BY <1>0, <1>1, <1>4, <2>3, WindowNumbers
    <3> QED
      BY <1>3, <2>1, <3>1 DEF NewlinesFrom
  <2> QED
    BY <1>1, <2>1, <2>2, <2>3
<1>7. Base + n \in Source!Newlines(Pos) /\ \A j \in Source!Newlines(Pos) : Base + n <= j
  <2>1. Base + n \in Pos + 1..Len(text)
    BY <1>0, <1>4, <1>5, WindowNumbers
  <2>2. ASSUME NEW j \in Pos + 1..Len(text), text[j] = "LF"
        PROVE  Base + n <= j
    <3> SUFFICES ASSUME ~(Base + n <= j) PROVE FALSE
      OBVIOUS
    <3>1. j - Base \in m_BufferOffset + 1..n - 1 /\ Base + (j - Base) = j
      BY <1>0, <1>4, <1>5, WindowNumbers
    <3> QED
      BY <1>6, <2>2, <3>1
  <2> QED
    BY <1>4, <1>5, <2>1, <2>2 DEF Source!Newlines, Source!InputLength
<1>8. Source!LineEnd(Pos) = Base + n
  <2>1. Source!Newlines(Pos) \subseteq Nat
    BY <1>0, WindowNumbers DEF Source!Newlines, Source!InputLength
  <2>2. /\ Source!LineEnd(Pos) \in Source!Newlines(Pos)
        /\ \A j \in Source!Newlines(Pos) : Source!LineEnd(Pos) <= j
    BY <1>7, <2>1, LeastChosen DEF Source!LineEnd
  <2> QED
    BY <1>0, <1>4, <1>7, <2>1, <2>2, WindowNumbers
<1>9. n > 1 /\ text[lineBuffer[n - 1]] = "CR" <=> Base + n - 1 > Pos /\ text[Base + n - 1] = "CR"
  <2>1. CASE n - 1 > m_BufferOffset
    <3>1. lineBuffer[n - 1] = Base + n - 1 /\ n > 1 /\ Base + n - 1 > Pos
      BY <1>0, <1>4, <2>1, WindowNumbers
    <3> QED
      BY <3>1
  <2>2. CASE ~(n - 1 > m_BufferOffset)
    <3>1. n - 1 = m_BufferOffset /\ ~(Base + n - 1 > Pos)
      BY <1>0, <1>4, <1>5, <2>2, WindowNumbers
    <3>2. n > 1 => text[lineBuffer[n - 1]] = "LF"
      BY <1>0, <1>4, <3>1, WindowNumbers DEF AfterNewline
    <3> QED
      BY <3>1, <3>2
  <2> QED
    BY <2>1, <2>2
<1>10. Base + n <= Len(text)
  BY <1>0, <1>4, WindowNumbers
<1> QED
  BY <1>3, <1>4, <1>5, <1>8, <1>9, <1>10

\* With the input used up and no newline left, the line ends with the input.
LEMMA LastLineEnds ==
  ASSUME LineInv, searching, NewlinesFrom(searchOffset) = {}, m_StreamFinished
  PROVE  Source!LineEnd(Pos) = Len(text) + 1
<1>0. LineWindow /\ Searched
  BY DEF LineInv
<1>1. \A i \in m_BufferOffset + 1..Len(lineBuffer) : text[Base + i] # "LF"
  <2> TAKE i \in m_BufferOffset + 1..Len(lineBuffer)
  <2>1. lineBuffer[i] = Base + i /\ i \in Nat
    BY <1>0, WindowNumbers
  <2>2. CASE i <= searchOffset
    BY <1>0, <2>1, <2>2 DEF Searched
  <2>3. CASE i > searchOffset
    BY SMTT(30), <1>0, <2>1, <2>3, WindowNumbers DEF Searched, NewlinesFrom
  <2> QED
    BY <1>0, <2>1, <2>2, <2>3, WindowNumbers DEF Searched
<1>2. textPos = Len(text)
  BY <1>0 DEF LineWindow
<1>3. Source!Newlines(Pos) = {}
  <2> SUFFICES ASSUME NEW j \in Pos + 1..Len(text), text[j] = "LF" PROVE FALSE
    BY DEF Source!Newlines, Source!InputLength
  <2>1. j - Base \in m_BufferOffset + 1..Len(lineBuffer) /\ Base + (j - Base) = j
    BY <1>0, <1>2, WindowNumbers
  <2> QED
    BY <1>1, <2>1
<1> QED
  BY <1>3 DEF Source!LineEnd, Source!InputLength

\* A line that is found is the next of the input, and the window goes on behind it.
LEMMA FoundLineStep ==
  ASSUME LineInv, FoundLine
  PROVE  LineInv' /\ m_CurrentLine' = Source!LineAt(Pos) /\ Pos' = Source!NextLine(Pos)
<1>0. LineWindow /\ LineTypes /\ searching /\ ~m_Finished /\ NewlinesFrom(searchOffset) # {}
  BY DEF LineInv, FoundLine, Over
<1>1. PICK n \in Nat :
        /\ n = FirstNewline(searchOffset)
        /\ m_BufferOffset < n /\ n <= Len(lineBuffer)
        /\ text[lineBuffer[n]] = "LF"
        /\ Source!LineEnd(Pos) = Base + n /\ Base + n <= Len(text)
        /\ n > 1 /\ text[lineBuffer[n - 1]] = "CR"
             <=> Base + n - 1 > Pos /\ text[Base + n - 1] = "CR"
  BY <1>0, NewlineEndsLine
<1>2. /\ n \in Nat /\ m_BufferOffset \in Nat /\ m_BufferOffset < n /\ n <= Len(lineBuffer)
       /\ Len(lineBuffer) \in Nat /\ Base \in Nat /\ Pos = Base + m_BufferOffset
  BY <1>0, <1>1, WindowNumbers
<1> DEFINE hasReturn == n > 1 /\ text[lineBuffer[n - 1]] = "CR"
           last == IF hasReturn THEN n - 2 ELSE n - 1
<1>3. /\ m_CurrentLine' = SubSeq(lineBuffer, m_BufferOffset + 1, last)
      /\ \/ lineBuffer' = SubSeq(lineBuffer, n + 1, Len(lineBuffer)) /\ m_BufferOffset' = 0
         \/ m_BufferOffset' = n /\ UNCHANGED lineBuffer
      /\ m_LineBuffered' = (lineCall # "GetLine") /\ lineCall' = "idle" /\ searching' = FALSE
      /\ UNCHANGED <<text, textPos, m_StreamFinished, m_Finished>>
  BY <1>1 DEF FoundLine, ReturnLine
<1>4. m_CurrentLine' = Source!LineAt(Pos)
  <2>1. last \in Nat /\ m_BufferOffset <= last /\ last <= Len(lineBuffer)
    <3>1. CASE hasReturn
      <4>1. Base + n - 1 > Pos
        BY <1>1, <3>1
      <4>2. n - 1 > m_BufferOffset
        BY <1>0, <4>1, WindowNumbers
      <4>3. last = n - 2
        BY <3>1
      <4> HIDE DEF last
      <4> QED
        BY <1>2, <4>2, <4>3
    <3>2. CASE ~hasReturn
      <4>1. last = n - 1
        BY <3>2
      <4> HIDE DEF last
      <4> QED
        BY <1>2, <4>1
    <3> QED
      BY <3>1, <3>2
  <2> DEFINE before == IF hasReturn THEN Base + n - 2 ELSE Base + n - 1
  <2>2. Base + last = before
    <3>1. CASE hasReturn
      BY <1>0, <1>1, <3>1, WindowNumbers
    <3>2. CASE ~hasReturn
      BY <1>0, <1>1, <3>2, WindowNumbers
    <3> QED
      BY <3>1, <3>2
  <2>3. Source!LineAt(Pos) = Source!Positions(Pos + 1, before)
    <3> DEFINE end == Source!LineEnd(Pos)
               returns == end <= Source!InputLength /\ end - 1 > Pos /\ text[end - 1] = "CR"
    <3>1. end = Base + n /\ end <= Source!InputLength
      BY <1>1 DEF Source!InputLength
    <3>2. Source!LineAt(Pos) = Source!Positions(Pos + 1, IF returns THEN end - 2 ELSE end - 1)
      BY Zenon DEF Source!LineAt
    <3> HIDE DEF end
    <3>3. end - 1 = Base + n - 1 /\ end - 2 = Base + n - 2
      BY <1>2, <3>1
    <3>4. returns <=> hasReturn
      BY <1>1, <3>1, <3>3, Zenon
    <3> HIDE DEF returns, hasReturn
    <3> QED
      BY <3>2, <3>3, <3>4, Zenon DEF before
  <2> HIDE DEF last, before
  <2>4. SubSeq(lineBuffer, m_BufferOffset + 1, last) = Source!Positions(Pos + 1, Base + last)
    BY <1>0, <2>1, LineIsRun
  <2> QED
    BY <1>3, <2>2, <2>3, <2>4
<1>5. Source!NextLine(Pos) = Base + n
  BY <1>0, <1>1, WindowNumbers DEF Source!NextLine, Source!InputLength
<1>6. Searched' /\ Over' /\ LineTypes'
  <2>1. m_LineBuffered' \in BOOLEAN /\ searching' \in BOOLEAN
    BY <1>3
  <2> QED
    BY <1>0, <1>3, <2>1, Zenon DEF Searched, Over, LineTypes
<1>7. CASE lineBuffer' = SubSeq(lineBuffer, n + 1, Len(lineBuffer)) /\ m_BufferOffset' = 0
  <2>1. lineBuffer \in Seq(Nat) /\ Len(lineBuffer) \in Nat
    BY <1>0 DEF LineWindow
  <2>2. /\ lineBuffer' \in Seq(Nat) /\ Len(lineBuffer') = Len(lineBuffer) - n
        /\ \A i \in 1..Len(lineBuffer) - n : lineBuffer'[i] = lineBuffer[n + i]
    <3>1. PICK total \in Nat : total = Len(lineBuffer)
      BY <2>1
    <3>2. n <= total /\ total <= Len(lineBuffer)
      BY <1>2, <3>1
    <3>3. /\ SubSeq(lineBuffer, n + 1, total) \in Seq(Nat)
          /\ Len(SubSeq(lineBuffer, n + 1, total)) = total - n
          /\ \A i \in 1..total - n : SubSeq(lineBuffer, n + 1, total)[i] = lineBuffer[n + i]
      BY <2>1, <3>2, PartProperties, Zenon
    <3> QED
      BY <1>7, <3>1, <3>3, Zenon
  <2>3. \A i \in 1..Len(lineBuffer') : lineBuffer'[i] = textPos' - Len(lineBuffer') + i
    <3> SUFFICES ASSUME NEW i \in 1..Len(lineBuffer) - n
                 PROVE  lineBuffer[n + i] = textPos - (Len(lineBuffer) - n) + i
      BY <1>3, <2>2
    <3>1. n + i \in 1..Len(lineBuffer)
      BY <1>1, <2>1
    <3>2. lineBuffer[n + i] = Base + (n + i)
      BY <1>0, <3>1, WindowNumbers
    <3> QED
      BY <1>0, <1>1, <3>2, WindowNumbers
  <2>4. Len(lineBuffer) - n \in Nat /\ Len(lineBuffer) - n <= textPos
    BY <1>0, <1>1, WindowNumbers
  <2>5. LineWindow'
    <3>1. /\ text' \in Seq({"x", "CR", "LF"}) /\ textPos' \in 0..Len(text')
          /\ m_StreamFinished' => textPos' = Len(text')
      BY <1>0, <1>3 DEF LineWindow
    <3>2. Len(lineBuffer') <= textPos' /\ m_BufferOffset' \in 0..Len(lineBuffer')
      BY <1>3, <1>7, <2>2, <2>4
    <3> QED
      BY <2>2, <2>3, <3>1, <3>2, Zenon DEF LineWindow
  <2>6. AfterNewline'
    BY <1>7 DEF AfterNewline
  <2>7. Pos' = Base + n
    <3>1. Pos' = textPos - (Len(lineBuffer) - n - 0)
      BY <1>3, <1>7, <2>2 DEF Pos
    <3> QED
      BY <1>0, <1>1, <3>1, WindowNumbers
  <2> QED
    BY <1>4, <1>5, <1>6, <2>5, <2>6, <2>7 DEF LineInv
<1>8. CASE m_BufferOffset' = n /\ UNCHANGED lineBuffer
  <2>1. LineWindow'
    BY <1>0, <1>1, <1>3, <1>8 DEF LineWindow
  <2>2. AfterNewline'
    BY <1>1, <1>3, <1>8 DEF AfterNewline
  <2>3. Pos' = Base + n
    <3>1. Pos' = textPos - (Len(lineBuffer) - n)
      BY <1>3, <1>8 DEF Pos
    <3> QED
      BY <1>0, <1>1, <3>1, WindowNumbers
  <2> QED
    BY <1>4, <1>5, <1>6, <2>1, <2>2, <2>3 DEF LineInv
<1> QED
  BY <1>3, <1>7, <1>8

\* The bytes after the last newline are the last line.
LEMMA LastLineStep ==
  ASSUME LineInv, LastLine
  PROVE  LineInv' /\ m_CurrentLine' = Source!LineAt(Pos) /\ Pos' = Source!NextLine(Pos)
<1>0. /\ LineWindow /\ LineTypes /\ searching /\ ~m_Finished
      /\ NewlinesFrom(searchOffset) = {} /\ m_StreamFinished /\ textPos = Len(text)
  BY DEF LineInv, LastLine, LineWindow, Over
<1>1. /\ m_CurrentLine' = SubSeq(lineBuffer, m_BufferOffset + 1, Len(lineBuffer))
      /\ lineBuffer' = <<>> /\ m_BufferOffset' = 0
      /\ m_LineBuffered' = (lineCall # "GetLine") /\ lineCall' = "idle" /\ searching' = FALSE
      /\ UNCHANGED <<text, textPos, m_StreamFinished, m_Finished>>
  BY DEF LastLine, ReturnLine
<1>2. Source!LineEnd(Pos) = Len(text) + 1
  BY <1>0, LastLineEnds
<1>3. m_CurrentLine' = Source!LineAt(Pos)
  <2>1. ~(Source!LineEnd(Pos) <= Source!InputLength) /\ Source!LineEnd(Pos) - 1 = Base + Len(lineBuffer)
    BY <1>0, <1>2, WindowNumbers DEF Source!InputLength
  <2>2. Source!LineAt(Pos) = Source!Positions(Pos + 1, Base + Len(lineBuffer))
    BY <2>1 DEF Source!LineAt
  <2> QED
    BY <1>0, <1>1, <2>2, LineIsRun, WindowNumbers
<1>4. Source!NextLine(Pos) = textPos
  BY <1>0, <1>2, WindowNumbers DEF Source!NextLine, Source!InputLength
<1>5. lineBuffer' \in Seq(Nat) /\ Len(lineBuffer') = 0
  BY <1>1
<1>6. Pos' = textPos
  <2>1. Pos' = textPos - (0 - 0)
    BY <1>1, <1>5 DEF Pos
  <2> QED
    BY <1>0, <2>1, WindowNumbers
<1>7. LineWindow'
  BY <1>0, <1>1, <1>5 DEF LineWindow
<1>8. Searched' /\ AfterNewline' /\ Over'
  BY <1>0, <1>1 DEF Searched, AfterNewline, Over
<1>9. LineTypes'
  <2>1. m_LineBuffered' \in BOOLEAN /\ searching' \in BOOLEAN
    BY <1>1
  <2> QED
    BY <1>0, <1>1, <2>1, Zenon DEF LineTypes
<1> QED
  BY <1>3, <1>4, <1>6, <1>7, <1>8, <1>9 DEF LineInv

-----------------------------------------------------------------------------
(* Every step                                                              *)

\* What a step does that leaves the window alone.
LEMMA CallSteps ==
  ASSUME LineInv,
         \/ UseBuffered \/ NoLine \/ BeginSearch
         \/ \E op \in {"GetLine", "PeekLine", "DiscardLine"} : BeginCall(op)
  PROVE  LineInv' /\ Pos' = Pos
<1>0. LineWindow /\ Searched /\ AfterNewline /\ Over /\ LineTypes
  BY DEF LineInv
<1>1. UNCHANGED <<text, textPos, lineBuffer, m_StreamFinished, m_BufferOffset>>
  BY DEF UseBuffered, NoLine, BeginSearch, BeginCall, streamVars
<1>2. LineWindow' /\ AfterNewline' /\ Pos' = Pos
  BY <1>0, <1>1 DEF LineWindow, AfterNewline, Pos
<1>3. CASE UseBuffered \/ NoLine \/ \E op \in {"GetLine", "PeekLine", "DiscardLine"} : BeginCall(op)
  <2>1. ~searching /\ searching' = searching
    BY <1>0, <1>3 DEF UseBuffered, NoLine, Fetches, BeginCall, Searched
  <2>2. Searched' /\ Over'
    <3>1. m_Finished' => m_Finished \/ (m_StreamFinished /\ lineBuffer = <<>>)
      BY <1>3 DEF UseBuffered, NoLine, BeginCall
    <3> QED
      BY <1>0, <1>1, <2>1, <3>1 DEF Searched, Over
  <2>3. /\ m_LineBuffered' \in BOOLEAN
        /\ lineCall' \in {"idle", "GetLine", "PeekLine", "DiscardLine"}
        /\ m_Finished' = m_Finished \/ m_Finished' = TRUE
    BY <1>3 DEF UseBuffered, NoLine, BeginCall
  <2>4. LineTypes'
    BY <1>0, <1>1, <2>1, <2>3 DEF LineTypes
  <2> QED
    BY <1>2, <2>2, <2>4 DEF LineInv
<1>4. CASE BeginSearch
  <2>1. /\ searching' = TRUE /\ searchOffset' = m_BufferOffset /\ lineCall # "idle"
        /\ ~m_LineBuffered /\ UNCHANGED <<m_Finished, m_LineBuffered, lineCall>>
        /\ ~(m_StreamFinished /\ lineBuffer = <<>>)
    BY <1>4 DEF BeginSearch, Fetches
  <2>2. Searched'
    BY <1>0, <1>1, <2>1, WindowNumbers DEF Searched
  <2>3. Over' /\ LineTypes'
    BY <1>0, <1>1, <2>1 DEF Over, LineTypes
  <2> QED
    BY <1>2, <2>2, <2>3 DEF LineInv
<1> QED
  BY <1>3, <1>4

\* Without a line to fetch, the whole input has been used up.
LEMMA NoLineAtEnd ==
  ASSUME LineInv, NoLine
  PROVE  Pos = Source!InputLength
<1>0. LineWindow
  BY DEF LineInv
<1>1. Len(lineBuffer) = 0 /\ textPos = Len(text)
  BY <1>0 DEF NoLine, LineWindow
<1>2. Len(text) \in Nat /\ m_BufferOffset = 0 /\ Base = textPos - 0
  BY <1>0, <1>1, WindowNumbers DEF Base
<1>3. Pos = Len(text)
  BY <1>0, <1>1, <1>2, WindowNumbers
<1> QED
  BY <1>3 DEF Source!InputLength

\* Every step keeps the invariant, and is one LineSource allows the call in progress, or
\* one that does not show.
LEMMA StepRefines ==
  ASSUME RetrieverAssumption, LineInv, [LineNext]_lineVars
  PROVE  LineInv' /\ [Source!Next]_(Source!vars)
<1>0. LineWindow /\ LineTypes /\ Searched /\ Over
  BY DEF LineInv
<1>1. ASSUME UNCHANGED <<text, m_CurrentLine, m_LineBuffered, m_Finished, lineCall>>, Pos' = Pos
      PROVE  [Source!Next]_(Source!vars)
  BY <1>1, Zenon DEF Source!vars, Pos
<1>2. CASE \E op \in {"GetLine", "PeekLine", "DiscardLine"} : BeginCall(op)
  <2>1. PICK op \in {"GetLine", "PeekLine", "DiscardLine"} : BeginCall(op)
    BY <1>2
  <2>2. LineInv' /\ Pos' = Pos
    BY <1>2, CallSteps
  <2>3. /\ lineCall = "idle" /\ lineCall' = op
        /\ m_LineBuffered' = (m_LineBuffered /\ lineCall' # "DiscardLine")
        /\ UNCHANGED <<text, m_CurrentLine, m_Finished>>
    BY <2>1 DEF BeginCall, streamVars
  <2>4. Source!Call
    BY <2>2, <2>3, Zenon DEF Source!Call, Pos
  <2> QED
    BY <2>2, <2>4, Zenon DEF Source!Next
<1>3. CASE UseBuffered
  <2>1. LineInv' /\ Pos' = Pos
    BY <1>3, CallSteps
  <2>2. Source!ReturnHeld
    BY <1>3, <2>1, Zenon DEF UseBuffered, streamVars, Source!ReturnHeld, Pos
  <2> QED
    BY <2>1, <2>2, Zenon DEF Source!Next
<1>4. CASE NoLine
  <2>1. LineInv' /\ Pos' = Pos
    BY <1>4, CallSteps
  <2>2. Pos = Source!InputLength
    BY <1>4, NoLineAtEnd
  <2>3. Source!ReportEnd
    BY <1>4, <2>1, <2>2, Zenon DEF NoLine, Fetches, streamVars, Source!ReportEnd, Pos
  <2> QED
    BY <2>1, <2>3, Zenon DEF Source!Next
<1>5. CASE BeginSearch
  <2>1. LineInv' /\ Pos' = Pos
    BY <1>5, CallSteps
  <2>2. UNCHANGED <<text, m_CurrentLine, m_LineBuffered, m_Finished, lineCall>>
    BY <1>5 DEF BeginSearch, streamVars
  <2> QED
    BY <1>1, <2>1, <2>2
<1>6. CASE ReadChunk
  <2>1. PICK k \in Nat : textPos' = textPos + k /\ Len(lineBuffer') = Len(lineBuffer) + k
    BY <1>6, ReadChunkWindow
  <2>2. LineInv'
    BY <1>6, ReadChunkWindow
  <2>3. UNCHANGED <<text, m_BufferOffset, m_CurrentLine, m_LineBuffered, m_Finished, lineCall>>
    BY <1>6 DEF ReadChunk
  <2>4. PICK a, b \in Nat : a = textPos + k /\ b = Len(lineBuffer) + k
    BY <1>0, <2>1, WindowNumbers
  <2>5. textPos' = a /\ Len(lineBuffer') = b /\ m_BufferOffset' = m_BufferOffset
    BY <2>1, <2>3, <2>4
  <2>6. Pos' = a - (b - m_BufferOffset)
    BY <2>5 DEF Pos
  <2>7. a - (b - m_BufferOffset) = Pos
    BY <1>0, <2>4, WindowNumbers
  <2> QED
    BY <1>1, <2>2, <2>3, <2>6, <2>7
<1>7. CASE LastLine \/ FoundLine
  <2>1. LineInv' /\ m_CurrentLine' = Source!LineAt(Pos) /\ Pos' = Source!NextLine(Pos)
    BY <1>7, LastLineStep, FoundLineStep
  <2>2. /\ searching /\ lineCall' = "idle" /\ m_LineBuffered' = (lineCall # "GetLine")
        /\ UNCHANGED <<text, m_Finished>>
    BY <1>7 DEF LastLine, FoundLine, ReturnLine
  <2>3. lineCall # "idle" /\ ~m_LineBuffered /\ ~m_Finished
    BY <1>0, <2>2, Zenon DEF Searched, Over
  <2>4. Source!Fetch
    BY <2>1, <2>2, <2>3, Zenon DEF Source!Fetch, Pos
  <2> QED
    BY <2>1, <2>4, Zenon DEF Source!Next
<1>8. CASE UNCHANGED lineVars
  <2>1. UNCHANGED <<text, textPos, lineBuffer, m_BufferOffset, m_CurrentLine, m_Finished,
                    m_StreamFinished, m_LineBuffered, lineCall, searching, searchOffset>>
    BY <1>8 DEF lineVars
  <2>2. Pos' = Pos
    BY <2>1 DEF Pos
  <2>3. LineInv'
    BY <2>1 DEF LineInv, LineWindow, Searched, AfterNewline, Over, LineTypes
  <2> QED
    BY <1>1, <2>1, <2>2, <2>3, Zenon
<1> QED
  BY <1>2, <1>3, <1>4, <1>5, <1>6, <1>7, <1>8 DEF LineNext

-----------------------------------------------------------------------------
(* The theorem                                                             *)

\* Nothing has been read: the lines begin at the first byte.
LEMMA InitRefines == LineInit => Source!Init
<1> SUFFICES ASSUME LineInit PROVE Source!Init
  OBVIOUS
<1>1. text \in Seq({"x", "CR", "LF"})
  BY DEF LineInit
<1>2. textPos - (Len(lineBuffer) - m_BufferOffset) = 0
  <2>1. Len(lineBuffer) = 0 /\ m_BufferOffset = 0 /\ textPos = 0
    BY DEF LineInit
  <2>2. textPos - (Len(lineBuffer) - m_BufferOffset) = 0 - (0 - 0)
    BY <2>1, Zenon
  <2> QED
    BY <2>2
<1> QED
  BY <1>1, <1>2, Zenon DEF LineInit, Source!Init

\* ImplementsLineSource for every input, chunk size and cut: however GetLine, PeekLine and
\* DiscardLine are mixed, the lines are those of the input, each call returns, holds or
\* drops the one it should, and the end is reported only there.
THEOREM LinesFollowInput ==
  ASSUME RetrieverAssumption
  PROVE  LineSpec => ImplementsLineSource
<1>1. LineInit => LineInv /\ Source!Init
  BY LineInitInv, InitRefines
<1>2. LineInv /\ [LineNext]_lineVars => LineInv' /\ [Source!Next]_(Source!vars)
  BY StepRefines
<1> QED
  BY <1>1, <1>2, PTL DEF LineSpec, ImplementsLineSource, Source!Spec
=============================================================================
