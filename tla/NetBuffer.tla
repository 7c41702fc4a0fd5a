------------------------------ MODULE NetBuffer ------------------------------
(***************************************************************************)
(* Common/Network/Buffer.cs as values: a buffer is its capacity, its bytes  *)
(* and the two indices, an operator is the buffer a method leaves behind.   *)
(* Numbers are big-endian two's complement. The program's bytes are 256     *)
(* values, its int four and its short two of them; the sizes are constants  *)
(* so that a whole int fits in a small instance.                            *)
(***************************************************************************)
EXTENDS Integers, Sequences

CONSTANTS
  Base,        \* the values of a byte: 256
  IntSize,     \* bytes of an int: 4
  ShortSize    \* bytes of a short: 2

ASSUME BaseAssumption == Base \in Nat \ {0, 1}
ASSUME SizeAssumption == IntSize \in Nat \ {0} /\ ShortSize \in Nat \ {0}

Byte == 0..(Base - 1)

IsBuffer(b) ==
  /\ b \in [len : Nat, data : {b.data}, readerIndex : Nat, writerIndex : Nat]
  /\ b.data \in [0..(b.len - 1) -> Byte]

NewBuffer(capacity) ==
  [len |-> capacity, data |-> [i \in 0..(capacity - 1) |-> 0],
   readerIndex |-> 0, writerIndex |-> 0]

ReadableBytes(b) == b.writerIndex - b.readerIndex

\* The bytes at [from, from + n) of the array, read or not.
Slice(b, from, n) == [i \in 1..n |-> b.data[from + i - 1]]

Content(b) == Slice(b, b.readerIndex, ReadableBytes(b))

-----------------------------------------------------------------------------
\* The weight of the n-th place of a number.
Power[n \in Nat] == IF n = 0 THEN 1 ELSE Base * Power[n - 1]

\* The shifts and masks that write a number, and those that read it back.
ToBytes(value, size) == [i \in 1..size |-> (value \div Power[size - i]) % Base]

Unsigned(bytes) ==
  LET upTo[i \in 0..Len(bytes)] == IF i = 0 THEN 0 ELSE upTo[i - 1] * Base + bytes[i]
  IN upTo[Len(bytes)]

\* Mutant: the sign is lost.
NumberUnsigned(bytes) == Unsigned(bytes)

Number(bytes) ==
  LET size == Len(bytes)
  IN IF 2 * Unsigned(bytes) >= Power[size] THEN Unsigned(bytes) - Power[size] ELSE Unsigned(bytes)

-----------------------------------------------------------------------------
Clear(b) == [b EXCEPT !.readerIndex = 0, !.writerIndex = 0]

\* Capacity(newCapacity): the array grows, and never shrinks.
Capacity(b, capacity) ==
  IF capacity > b.len
  THEN [b EXCEPT !.len = capacity,
                 !.data = [i \in 0..(capacity - 1) |->
                             IF i < b.len THEN b.data[i] ELSE 0]]
  ELSE b

\* bytes copied over the array from index at on.
Store(b, at, bytes) ==
  [b EXCEPT !.data = [i \in 0..(b.len - 1) |->
                        IF at <= i /\ i < at + Len(bytes)
                        THEN bytes[i - at + 1] ELSE b.data[i]]]

\* Mutant: the array grows to the bytes written, wherever they go.
WriteInPlace(b, bytes) ==
  [Store(Capacity(b, Len(bytes)), b.writerIndex, bytes)
     EXCEPT !.writerIndex = b.writerIndex + Len(bytes)]

\* WriteByte, WriteInt, WriteShort, WriteBytes: at the writer index.
Write(b, bytes) ==
  [Store(Capacity(b, b.writerIndex + Len(bytes)), b.writerIndex, bytes)
     EXCEPT !.writerIndex = b.writerIndex + Len(bytes)]

Advance(b, n) == [b EXCEPT !.readerIndex = b.readerIndex + n]

\* GetInt at an index: any four bytes of the array, readable or stale.
GetInt(b, index) ==
  IF index + IntSize - 1 < b.len THEN Number(Slice(b, index, IntSize)) ELSE 0

\* ReadInt, ReadShort, ReadByte: whether the bytes are there.
CanReadNumber(b, size) == b.readerIndex + size - 1 < b.writerIndex

\* Mutant: whatever the array holds may be read.
CanReadArrayAnyway(b, length) == b.readerIndex + length <= b.len

\* ReadByteArray: more than length bytes have to be readable.
CanReadArray(b, length) == ReadableBytes(b) > length

=============================================================================
