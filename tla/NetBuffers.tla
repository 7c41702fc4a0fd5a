----------------------------- MODULE NetBuffers -----------------------------
(***************************************************************************)
(* The buffers of a connection at work: every public method of              *)
(* Common/Network/Buffer.cs that changes a buffer or answers from one, in   *)
(* any order, on several buffers. The bytes of the buffers are shown to     *)
(* implement the queues of ByteQueue.                                       *)
(***************************************************************************)
EXTENDS NetBuffer, FiniteSets

CONSTANTS
  Names,         \* the buffers
  NewCapacity,   \* what a buffer is created with
  MaxCapacity,   \* bound: no write grows a buffer beyond it
  Numbers,       \* the numbers written
  Arrays         \* the arrays of bytes written

ASSUME BuffersAssumption ==
  /\ NewCapacity \in Nat /\ MaxCapacity \in Nat
  /\ Arrays \subseteq Seq(Byte) /\ Numbers \subseteq Int

\* What is written as an int is one.
ASSUME IntsAssumption ==
  \A v \in Numbers : -Power[IntSize] <= 2 * v /\ 2 * v < Power[IntSize]

VARIABLES
  buf,      \* the buffers
  call      \* the last call: the method, its buffer, the int it wrote or the
            \* number of bytes it was asked for, the bytes it handed back

vars == <<buf, call>>

Made(op, on, number, got) == [op |-> op, on |-> on, number |-> number, got |-> got]

\* What a call leaves when neither number nor bytes matter.
Called(n) == Made("other", n, 0, <<>>)

Init ==
  /\ buf = [n \in Names |-> NewBuffer(NewCapacity)]
  /\ \E n \in Names : call = Called(n)

-----------------------------------------------------------------------------
Put(n, bytes) ==
  /\ buf[n].writerIndex + Len(bytes) <= MaxCapacity
  /\ buf' = [buf EXCEPT ![n] = Write(@, bytes)]

WriteByte(n) == \E v \in Byte : Put(n, <<v>>) /\ call' = Called(n)

WriteInt(n) ==
  \E v \in Numbers : Put(n, ToBytes(v, IntSize)) /\ call' = Made("WriteInt", n, v, <<>>)

WriteShort(n) == \E v \in Numbers : Put(n, ToBytes(v, ShortSize)) /\ call' = Called(n)

\* WriteBytes(src) and WriteBytes(src, off, len)
WriteArray(n) ==
  \E src \in Arrays : \E off \in 0..Len(src) : \E len \in 0..(Len(src) - off) :
    Put(n, SubSeq(src, off + 1, off + len)) /\ call' = Called(n)

\* WriteBytes(Buffer src): what src has readable, and src's reader moves on.
WriteBuffer(n, src) ==
  /\ n # src
  /\ buf[n].writerIndex + ReadableBytes(buf[src]) <= MaxCapacity
  /\ buf' = [buf EXCEPT ![n] = Write(@, Content(buf[src])),
                        ![src] = Advance(@, Len(Content(@)))]
  /\ call' = Called(n)

-----------------------------------------------------------------------------
\* Mutant: the reader does not move.
GiveAgain(n, op, length, possible) ==
  /\ call' = Made(op, n, length,
                  IF possible THEN Slice(buf[n], buf[n].readerIndex, length) ELSE <<>>)
  /\ UNCHANGED buf

\* A read hands over bytes and moves the reader, or hands over nothing.
Give(n, op, length, possible) ==
  /\ call' = Made(op, n, length,
                  IF possible THEN Slice(buf[n], buf[n].readerIndex, length) ELSE <<>>)
  /\ buf' = IF possible THEN [buf EXCEPT ![n] = Advance(@, length)] ELSE buf

ReadByte(n) == Give(n, "ReadByte", 1, CanReadNumber(buf[n], 1))
ReadInt(n) == Give(n, "ReadInt", IntSize, CanReadNumber(buf[n], IntSize))
ReadShort(n) == Give(n, "ReadShort", ShortSize, CanReadNumber(buf[n], ShortSize))
ReadByteArray(n) ==
  \E length \in 0..MaxCapacity :
    Give(n, "ReadByteArray", length, CanReadArray(buf[n], length))

SkipBytes(n) ==
  \E length \in 0..MaxCapacity :
    /\ buf' = IF length <= ReadableBytes(buf[n])
              THEN [buf EXCEPT ![n] = Advance(@, length)] ELSE buf
    /\ call' = Called(n)

-----------------------------------------------------------------------------
ClearBuffer(n) ==
  /\ buf' = [buf EXCEPT ![n] = Clear(@)]
  /\ call' = Called(n)

SetCapacity(n) ==
  \E capacity \in 0..MaxCapacity :
    /\ buf' = [buf EXCEPT ![n] = Capacity(@, capacity)]
    /\ call' = Called(n)

CopyTo(n, copy) ==
  /\ buf' = [buf EXCEPT ![copy] = buf[n]]
  /\ call' = Called(n)

\* SetByte, SetInt, SetShort: only inside the array.
SetNumber(n) ==
  \E v \in Numbers, size \in {1, ShortSize, IntSize}, index \in 0..MaxCapacity :
    /\ buf' = IF index + size <= buf[n].len
              THEN [buf EXCEPT ![n] = Store(@, index, ToBytes(v, size))] ELSE buf
    /\ call' = Called(n)

\* SetBytes: the parameter len hides the capacity, so that index + len <= len
\* is tested. A copy past the end of the array throws and changes nothing.
SetBytes(n) ==
  \E bytes \in Arrays, index \in 0..MaxCapacity :
    /\ buf' = IF index + Len(bytes) <= Len(bytes) /\ Len(bytes) <= buf[n].len
              THEN [buf EXCEPT ![n] = Store(@, index, bytes)] ELSE buf
    /\ call' = Called(n)

-----------------------------------------------------------------------------
\* The methods that check nothing, called when what they trust is so: strings,
\* their length in bytes first, and a copy of some of what src has readable.
WriteUTF8(n) ==
  \E content \in Arrays :
    Put(n, ToBytes(Len(content), ShortSize) \o content) /\ call' = Called(n)

StringLength(b) == Number(Slice(b, b.readerIndex, ShortSize))

HoldsString(b) ==
  /\ CanReadNumber(b, ShortSize)
  /\ StringLength(b) \in 0..(ReadableBytes(b) - ShortSize)

ReadUTF8(n) ==
  LET b == buf[n]
      body == Advance(b, ShortSize)
  IN /\ HoldsString(b)
     /\ buf' = [buf EXCEPT ![n] = Advance(body, StringLength(b))]
     /\ call' = Made("ReadUTF8", n, 0, Slice(body, body.readerIndex, StringLength(b)))

WriteBufferBytes(n, src) ==
  \E length \in 1..MaxCapacity :
    LET bytes == Slice(buf[src], buf[src].readerIndex, length)
    IN /\ n # src
       /\ length <= ReadableBytes(buf[src])
       /\ buf[n].writerIndex + length <= MaxCapacity
       /\ buf' = [buf EXCEPT ![n] = Write(@, bytes), ![src] = Advance(@, length)]
       /\ call' = Called(n)

-----------------------------------------------------------------------------
Next ==
  \/ \E n \in Names :
       \/ WriteByte(n) \/ WriteInt(n) \/ WriteShort(n) \/ WriteArray(n)
       \/ ReadByte(n) \/ ReadInt(n) \/ ReadShort(n) \/ ReadByteArray(n)
       \/ SkipBytes(n) \/ ClearBuffer(n) \/ SetCapacity(n)
       \/ SetNumber(n) \/ SetBytes(n) \/ WriteUTF8(n) \/ ReadUTF8(n)
  \/ \E n, other \in Names :
       WriteBuffer(n, other) \/ WriteBufferBytes(n, other) \/ CopyTo(n, other)

Spec == Init /\ [][Next]_vars

-----------------------------------------------------------------------------
(* A buffer is as many bytes as its capacity says, and two indices that are  *)
(* never negative, also after a write that grows the array.                   *)
TypeOK == DOMAIN buf = Names /\ \A n \in Names : IsBuffer(buf[n])

(* The reader never overtakes the writer, and the writer never leaves the    *)
(* array, whatever mixture of reads and growing writes runs.                  *)
IndicesInOrder ==
  \A n \in Names :
    /\ buf[n].readerIndex <= buf[n].writerIndex
    /\ buf[n].writerIndex <= buf[n].len

(* The readable bytes of every buffer are a queue.                           *)
Queue == INSTANCE ByteQueue WITH
  Queues <- Names, queue <- [n \in Names |-> Content(buf[n])], got <- call.got
ImplementsByteQueue == Queue!Spec

(* An int can be read back where it was written, negative ones too.          *)
IntsSurvive ==
  call.op = "WriteInt" =>
    LET b == buf[call.on] IN GetInt(b, b.writerIndex - IntSize) = call.number

=============================================================================
