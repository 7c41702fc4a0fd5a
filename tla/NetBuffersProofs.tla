-------------------------- MODULE NetBuffersProofs --------------------------
(***************************************************************************)
(* Whatever the buffers, the capacities and the size of a byte, the checked *)
(* methods of Buffer keep every buffer well formed: the reader behind the   *)
(* writer, the writer inside the array. Its readable bytes are a queue, and  *)
(* an int that is written to it can be read from it.                        *)
(***************************************************************************)
EXTENDS NetBuffers, SequenceLemmas

\* A buffer that is typed and whose indices are in order.
Sound(b) ==
  /\ IsBuffer(b)
  /\ b.readerIndex <= b.writerIndex
  /\ b.writerIndex <= b.len

Inv == DOMAIN buf = Names /\ \A n \in Names : Sound(buf[n])

-----------------------------------------------------------------------------
(* The weight of a place is positive, and grows by the base.                  *)
LEMMA PowerEffect ==
  /\ Power \in [Nat -> Nat \ {0}] /\ Power[0] = 1
  /\ \A n \in Nat : Power[n + 1] = Base * Power[n]
<1>1. Base \in Nat \ {0}
  BY BaseAssumption
<1> QED
  BY <1>1, PowersExist DEF Power

(* The bytes of a number are bytes, one for each place.                      *)
LEMMA BytesOfNumber ==
  ASSUME NEW value \in Int, NEW size \in Nat
  PROVE  ToBytes(value, size) \in Seq(Byte) /\ Len(ToBytes(value, size)) = size
<1>1. \A i \in 1..size : (value \div Power[size - i]) % Base \in Byte
  <2>1. TAKE i \in 1..size
  <2>4. size - i \in Nat
    OBVIOUS
  <2>2. Power[size - i] \in Nat \ {0}
    BY <2>4, PowerEffect
  <2>3. value \div Power[size - i] \in Int
    BY <2>2, QuotientHas
  <2> QED
    BY <2>3, BaseAssumption, QuotientHas DEF Byte
<1> QED
  BY <1>1 DEF ToBytes

(* Read from the front, the bytes of a number add up to it, to within its size. *)
LEMMA BytesAddUp ==
  ASSUME NEW value \in Int, NEW size \in Nat
  PROVE  Unsigned(ToBytes(value, size)) = value % Power[size]
<1> DEFINE bytes == ToBytes(value, size)
           IsSum(f) == f = [i \in 0..size |-> IF i = 0 THEN 0 ELSE f[i - 1] * Base + bytes[i]]
           front == [i \in 0..size |-> (value \div Power[size - i]) % Power[i]]
<1>1. ASSUME NEW i \in 1..size PROVE front[i] = front[i - 1] * Base + bytes[i]
  <2> DEFINE weight == Power[size - i]
             rest == value \div weight
             high == rest \div Base
             above == Power[i - 1]
             q == high \div above
             r == high % above
  <2>1. /\ size - i \in Nat /\ i - 1 \in Nat /\ i - 1 \in 0..size /\ i \in 0..size
        /\ (i - 1) + 1 = i /\ (size - i) + 1 = size - (i - 1)
    OBVIOUS
  <2>2. weight \in Nat \ {0} /\ above \in Nat \ {0} /\ Base \in Nat \ {0}
    BY <2>1, PowerEffect, BaseAssumption
  <2>3. Power[i] = Base * above /\ Power[size - (i - 1)] = Base * weight
    BY <2>1, PowerEffect
  <2>4. rest \in Int
    BY <2>2, QuotientHas
  <2>5. high \in Int /\ rest % Base \in Int /\ rest = Base * high + (rest % Base)
        /\ 0 <= rest % Base /\ rest % Base < Base
    BY <2>2, <2>4, QuotientHas
  <2>6. q \in Int /\ r \in Int /\ high = above * q + r /\ 0 <= r /\ r < above
    BY <2>2, <2>5, QuotientHas
  <2>7. bytes[i] = rest % Base
    BY DEF ToBytes
  <2>8. front[i - 1] = r
    <3>1. Base * weight = weight * Base
      BY <2>2
    <3>2. value \div (weight * Base) = high
      BY <2>2, QuotientTwice
    <3> QED
      BY <2>1, <2>3, <3>1, <3>2
  <2>9. front[i] = rest % (Base * above)
    BY <2>1, <2>3
  <2> DEFINE low == rest % Base
  <2> HIDE DEF weight, rest, high, above, q, r, front, bytes, low
  <2>10. low \in Int /\ 0 <= low /\ low < Base /\ rest = Base * high + low
    BY <2>5 DEF low
  <2>11. rest = (Base * above) * q + (r * Base + low)
    BY <2>2, <2>4, <2>5, <2>6, <2>10
  <2>12. 0 <= r * Base + low
    BY <2>2, <2>6, <2>10
  <2>13. r * Base + low < Base * above
    <3>1. r * Base <= (above - 1) * Base
      BY <2>2, <2>6
    <3>2. (above - 1) * Base = Base * above - Base
      BY <2>2
    <3> QED
      BY <3>1, <3>2, <2>2, <2>6, <2>10
  <2>14. Base * above \in Nat \ {0} /\ r * Base + low \in Int
    BY <2>2, <2>6, <2>10
  <2>15. rest % (Base * above) = r * Base + low
    BY <2>4, <2>6, <2>11, <2>12, <2>13, <2>14, QuotientIs
  <2> QED
    BY <2>7, <2>8, <2>9, <2>15 DEF low
<1>2. front[0] = 0
  <2>1. value \div Power[size] \in Int
    BY PowerEffect, QuotientHas
  <2>2. size - 0 = size
    OBVIOUS
  <2> HIDE DEF front
  <2>3. front[0] = (value \div Power[size]) % 1
    BY <2>2, PowerEffect DEF front
  <2> QED
    BY <2>1, <2>3
<1>3. IsSum(front)
  <2>1. ASSUME NEW i \in 0..size
        PROVE  front[i] = IF i = 0 THEN 0 ELSE front[i - 1] * Base + bytes[i]
    <3> HIDE DEF front, bytes
    <3> QED
      BY <1>1, <1>2
  <2>2. DOMAIN front = 0..size /\ front = [i \in 0..size |-> front[i]]
    OBVIOUS
  <2> HIDE DEF front, bytes
  <2> QED
    BY <2>1, <2>2
<1>4. ASSUME NEW f, IsSum(f) PROVE f[size] = front[size]
  <2> DEFINE apart == {i \in 0..size : f[i] # front[i]}
  <2>1. \A i \in 0..size : f[i] = IF i = 0 THEN 0 ELSE f[i - 1] * Base + bytes[i]
    <3> HIDE DEF bytes
    <3> QED
      BY <1>4
  <2> HIDE DEF front, bytes
  <2>2. ASSUME apart # {} PROVE FALSE
    <3>1. apart \subseteq Nat
      OBVIOUS
    <3>2. PICK i \in apart : \A j \in apart : i <= j
      <4> HIDE DEF apart
      <4> QED
        BY <2>2, <3>1, LeastNumber
    <3>3. i # 0
      BY <1>2, <2>1, <3>2
    <3>4. i - 1 \in 0..size /\ i - 1 \notin apart /\ i \in 1..size
      BY <3>2, <3>3
    <3>5. f[i - 1] = front[i - 1]
      BY <3>4
    <3> QED
      BY <1>1, <2>1, <3>2, <3>3, <3>4, <3>5
  <2> QED
    BY <2>2
<1>5. front[size] = value % Power[size]
  <2>1. size - size = 0 /\ size \in 0..size
    OBVIOUS
  <2>2. value \div 1 = value
    BY QuotientIs
  <2> QED
    BY <2>1, <2>2, PowerEffect
<1>6. Len(bytes) = size
  BY BytesOfNumber
<1>7. Unsigned(bytes) = (CHOOSE f : IsSum(f))[size]
  BY <1>6 DEF Unsigned
<1>8. IsSum(CHOOSE f : IsSum(f))
  <2> HIDE DEF IsSum
  <2> QED
    BY <1>3
<1> HIDE DEF IsSum, front, bytes
<1>9. Unsigned(bytes) = value % Power[size]
  BY <1>4, <1>5, <1>7, <1>8
<1> QED
  BY <1>9 DEF bytes

(* A number that fits its bytes survives them, sign included.                 *)
LEMMA NumberSurvives ==
  ASSUME NEW value \in Int, NEW size \in Nat,
         -Power[size] <= 2 * value, 2 * value < Power[size]
  PROVE  Number(ToBytes(value, size)) = value
<1> DEFINE weight == Power[size]
           sum == Unsigned(ToBytes(value, size))
<1>1. weight \in Nat \ {0}
  BY PowerEffect
<1>2. sum = value % weight
  BY BytesAddUp
<1>3. Number(ToBytes(value, size)) = IF 2 * sum >= weight THEN sum - weight ELSE sum
  BY BytesOfNumber DEF Number
<1>4. -weight <= 2 * value /\ 2 * value < weight
  OBVIOUS
<1> HIDE DEF weight, sum
<1>5. CASE value >= 0
  <2>1. value = weight * 0 + value /\ 0 <= value /\ value < weight
    BY <1>1, <1>4, <1>5
  <2>2. sum = value
    BY <1>1, <1>2, <2>1, QuotientIs
  <2> QED
    BY <1>1, <1>3, <1>4, <2>2
<1>6. CASE value < 0
  <2>1. value = weight * (-1) + (value + weight) /\ 0 <= value + weight /\ value + weight < weight
    BY <1>1, <1>4, <1>6
  <2>2. -1 \in Int /\ value + weight \in Int
    BY <1>1
  <2>3. sum = value + weight
    BY <1>1, <1>2, <2>1, <2>2, QuotientIs
  <2> QED
    BY <1>1, <1>3, <1>4, <2>3
<1> QED
  BY <1>5, <1>6

(* What is readable or stale in a buffer is bytes.                           *)
LEMMA SliceIsBytes ==
  ASSUME NEW b, IsBuffer(b), NEW from \in Nat, NEW n \in Nat, from + n <= b.len
  PROVE  Slice(b, from, n) \in Seq(Byte) /\ Len(Slice(b, from, n)) = n
<1>1. \A i \in 1..n : b.data[from + i - 1] \in Byte
  BY DEF IsBuffer
<1> QED
  BY <1>1 DEF Slice

(* A new buffer is sound, and so is a cleared one.                           *)
LEMMA NewIsSound ==
  ASSUME NEW capacity \in Nat
  PROVE  Sound(NewBuffer(capacity))
BY BaseAssumption DEF Sound, IsBuffer, NewBuffer, Byte

LEMMA ClearIsSound ==
  ASSUME NEW b, Sound(b)
  PROVE  Sound(Clear(b))
<1> DEFINE rewound == [b EXCEPT !.readerIndex = 0]
<1>1. Sound(rewound)
  BY DEF Sound, IsBuffer
<1>2. Clear(b) = [rewound EXCEPT !.writerIndex = 0]
  BY DEF Clear
<1>3. rewound.readerIndex = 0
  BY DEF Sound, IsBuffer
<1> HIDE DEF rewound
<1> QED
  BY <1>1, <1>2, <1>3 DEF Sound, IsBuffer

(* Growing keeps a buffer sound, reaches the capacity asked for and keeps     *)
(* every byte at its place.                                                  *)
LEMMA CapacityIsSound ==
  ASSUME NEW b, Sound(b), NEW capacity \in Nat
  PROVE  /\ Sound(Capacity(b, capacity))
         /\ Capacity(b, capacity).len >= b.len
         /\ \A i \in 0..(b.len - 1) : Capacity(b, capacity).data[i] = b.data[i]
         /\ Capacity(b, capacity).len >= capacity
         /\ Capacity(b, capacity).writerIndex = b.writerIndex
         /\ Capacity(b, capacity).readerIndex = b.readerIndex
<1>1. CASE capacity > b.len
  <2> DEFINE grown == [i \in 0..(capacity - 1) |-> IF i < b.len THEN b.data[i] ELSE 0]
  <2>1. grown \in [0..(capacity - 1) -> Byte]
    BY BaseAssumption DEF Sound, IsBuffer, Byte
  <2>4. \A i \in 0..(b.len - 1) : grown[i] = b.data[i]
    BY <1>1 DEF Sound, IsBuffer
  <2>2. Capacity(b, capacity) = [b EXCEPT !.len = capacity, !.data = grown]
    BY <1>1 DEF Capacity
  <2> HIDE DEF grown
  <2>3. Capacity(b, capacity)
          = [len |-> capacity, data |-> grown,
             readerIndex |-> b.readerIndex, writerIndex |-> b.writerIndex]
    BY <2>2 DEF Sound, IsBuffer
  <2> QED
    BY <1>1, <2>1, <2>3, <2>4 DEF Sound, IsBuffer
<1>2. CASE ~(capacity > b.len)
  BY <1>2 DEF Capacity, Sound, IsBuffer
<1> QED
  BY <1>1, <1>2

(* Storing bytes touches neither the indices nor the capacity, nor any byte   *)
(* outside the place they go to.                                             *)
LEMMA StoreIsSound ==
  ASSUME NEW b, Sound(b), NEW at \in Nat, NEW bytes \in Seq(Byte)
  PROVE  /\ Sound(Store(b, at, bytes))
         /\ \A i \in 0..(b.len - 1) :
              Store(b, at, bytes).data[i] =
                IF at <= i /\ i < at + Len(bytes) THEN bytes[i - at + 1] ELSE b.data[i]
         /\ Store(b, at, bytes).len = b.len
         /\ Store(b, at, bytes).writerIndex = b.writerIndex
         /\ Store(b, at, bytes).readerIndex = b.readerIndex
<1> DEFINE stored == [i \in 0..(b.len - 1) |->
                        IF at <= i /\ i < at + Len(bytes)
                        THEN bytes[i - at + 1] ELSE b.data[i]]
<1>1. stored \in [0..(b.len - 1) -> Byte]
  BY DEF Sound, IsBuffer
<1>3. \A i \in 0..(b.len - 1) :
        stored[i] = IF at <= i /\ i < at + Len(bytes)
                    THEN bytes[i - at + 1] ELSE b.data[i]
  OBVIOUS
<1>2. Store(b, at, bytes) = [b EXCEPT !.data = stored]
  BY DEF Store
<1> HIDE DEF stored
<1> QED
  BY <1>1, <1>2, <1>3 DEF Sound, IsBuffer

(* A write makes the room it needs, and puts the bytes behind the others.     *)
LEMMA WriteIsSound ==
  ASSUME NEW b, Sound(b), NEW bytes \in Seq(Byte)
  PROVE  /\ Sound(Write(b, bytes))
         /\ Write(b, bytes).readerIndex = b.readerIndex
         /\ Write(b, bytes).writerIndex = b.writerIndex + Len(bytes)
         /\ \A i \in 0..(b.writerIndex - 1) : Write(b, bytes).data[i] = b.data[i]
         /\ \A i \in 1..Len(bytes) : Write(b, bytes).data[b.writerIndex + i - 1] = bytes[i]
<1> DEFINE at == b.writerIndex
           need == at + Len(bytes)
           roomy == Capacity(b, need)
           stored == Store(roomy, at, bytes)
<1>0. Len(bytes) \in Nat
  BY LenProperties
<1>1. /\ at \in Nat /\ b.readerIndex \in Nat /\ need \in Nat /\ b.readerIndex <= need
      /\ b.len \in Nat /\ at <= b.len /\ at = b.writerIndex /\ need = at + Len(bytes)
  BY DEF Sound, IsBuffer
<1>2. Write(b, bytes) = [stored EXCEPT !.writerIndex = need]
  BY DEF Write
<1> HIDE DEF at, need
<1>3. /\ Sound(roomy)
      /\ roomy.len >= need
      /\ \A i \in 0..(b.len - 1) : roomy.data[i] = b.data[i]
      /\ roomy.len \in Nat
      /\ roomy.readerIndex = b.readerIndex
  BY <1>1, CapacityIsSound DEF Sound, IsBuffer
<1> HIDE DEF roomy
<1>4. /\ Sound(stored)
      /\ \A i \in 0..(roomy.len - 1) :
           stored.data[i] = IF at <= i /\ i < at + Len(bytes)
                            THEN bytes[i - at + 1] ELSE roomy.data[i]
      /\ stored.len = roomy.len
      /\ stored.readerIndex = roomy.readerIndex
  <2>1. Sound(roomy) /\ at \in Nat
    BY <1>1, <1>3
  <2> QED
    BY <2>1, StoreIsSound
<1> HIDE DEF stored
<1>5. Write(b, bytes)
        = [len |-> stored.len, data |-> stored.data,
           readerIndex |-> stored.readerIndex, writerIndex |-> need]
  BY <1>2, <1>4 DEF Sound, IsBuffer
<1>6. Sound(Write(b, bytes))
  BY <1>1, <1>3, <1>4, <1>5 DEF Sound, IsBuffer
<1>7. \A i \in 0..(at - 1) : stored.data[i] = b.data[i]
  <2>1. TAKE i \in 0..(at - 1)
  <2>2. i \in 0..(roomy.len - 1) /\ i \in 0..(b.len - 1) /\ ~(at <= i)
    BY <1>0, <1>1, <1>3, SMTT(30)
  <2> QED
    BY <1>3, <1>4, <2>2
<1>8. \A i \in 1..Len(bytes) : stored.data[at + i - 1] = bytes[i]
  <2>1. TAKE i \in 1..Len(bytes)
  <2>2. /\ at + i - 1 \in 0..(roomy.len - 1)
        /\ at <= at + i - 1 /\ at + i - 1 < at + Len(bytes) /\ (at + i - 1) - at + 1 = i
    BY <1>0, <1>1, <1>3, SMTT(30)
  <2> QED
    BY <1>4, <2>2
<1> QED
  BY <1>1, <1>3, <1>4, <1>5, <1>6, <1>7, <1>8

(* A reader that moves over readable bytes only stays behind the writer.     *)
LEMMA AdvanceIsSound ==
  ASSUME NEW b, Sound(b), NEW n \in Nat, n <= ReadableBytes(b)
  PROVE  Sound(Advance(b, n))
BY DEF Sound, IsBuffer, Advance, ReadableBytes

-----------------------------------------------------------------------------
(* The bytes that can be read are those between the two indices.             *)
LEMMA ContentOf ==
  ASSUME NEW b, Sound(b)
  PROVE  /\ ReadableBytes(b) \in Nat
         /\ b.readerIndex \in Nat /\ b.writerIndex \in Nat /\ b.len \in Nat
         /\ b.writerIndex = b.readerIndex + ReadableBytes(b)
         /\ Content(b) \in Seq(Byte) /\ Len(Content(b)) = ReadableBytes(b)
         /\ \A i \in 1..ReadableBytes(b) : Content(b)[i] = b.data[b.readerIndex + i - 1]
<1>1. /\ ReadableBytes(b) \in Nat
      /\ b.readerIndex \in Nat /\ b.writerIndex \in Nat /\ b.len \in Nat
      /\ b.writerIndex = b.readerIndex + ReadableBytes(b)
      /\ b.readerIndex + ReadableBytes(b) <= b.len
  BY DEF Sound, IsBuffer, ReadableBytes
<1>2. Content(b) \in Seq(Byte) /\ Len(Content(b)) = ReadableBytes(b)
  BY <1>1, SliceIsBytes DEF Content, Sound
<1>3. \A i \in 1..ReadableBytes(b) : Content(b)[i] = b.data[b.readerIndex + i - 1]
  BY DEF Content, Slice
<1> QED
  BY <1>1, <1>2, <1>3

(* Two buffers with as many readable bytes, the same ones, are one queue.     *)
LEMMA SameContent ==
  ASSUME NEW b, Sound(b), NEW c, Sound(c), ReadableBytes(c) = ReadableBytes(b),
         \A i \in 1..ReadableBytes(b) :
           c.data[c.readerIndex + i - 1] = b.data[b.readerIndex + i - 1]
  PROVE  Content(c) = Content(b)
BY DEF Content, Slice

(* What is written stands behind what was readable.                          *)
LEMMA WriteContent ==
  ASSUME NEW b, Sound(b), NEW bytes \in Seq(Byte)
  PROVE  Content(Write(b, bytes)) = Content(b) \o bytes
<1> DEFINE w == Write(b, bytes)
           n == ReadableBytes(b)
           k == Len(bytes)
<1>1. /\ Sound(w)
      /\ w.readerIndex = b.readerIndex
      /\ w.writerIndex = b.writerIndex + k
      /\ \A i \in 0..(b.writerIndex - 1) : w.data[i] = b.data[i]
      /\ \A i \in 1..k : w.data[b.writerIndex + i - 1] = bytes[i]
  BY WriteIsSound
<1> HIDE DEF w
<1>2. /\ n \in Nat /\ b.readerIndex \in Nat /\ b.writerIndex = b.readerIndex + n
      /\ Content(b) \in Seq(Byte) /\ Len(Content(b)) = n
      /\ \A i \in 1..n : Content(b)[i] = b.data[b.readerIndex + i - 1]
  BY ContentOf
<1>3. ReadableBytes(w) = n + k /\ k \in Nat
  BY <1>1, <1>2, LenProperties DEF ReadableBytes
<1>4. /\ Content(w) \in Seq(Byte) /\ Len(Content(w)) = n + k
      /\ \A i \in 1..(n + k) : Content(w)[i] = w.data[b.readerIndex + i - 1]
  BY <1>1, <1>3, ContentOf
<1> HIDE DEF n, k
<1>5. /\ Content(b) \o bytes \in Seq(Byte) /\ Len(Content(b) \o bytes) = n + k
      /\ \A i \in 1..(n + k) :
           (Content(b) \o bytes)[i] = IF i <= n THEN Content(b)[i] ELSE bytes[i - n]
  <2>1. Len(bytes) = k
    BY DEF k
  <2> QED
    BY ONLY <1>2, <2>1, bytes \in Seq(Byte), ConcatProperties
<1>6. ASSUME NEW i \in 1..(n + k) PROVE Content(w)[i] = (Content(b) \o bytes)[i]
  <2>1. CASE i <= n
    <3>1. b.readerIndex + i - 1 \in 0..(b.writerIndex - 1) /\ i \in 1..n
      BY <1>2, <1>3, <2>1
    <3> QED
      BY <1>1, <1>2, <1>4, <1>5, <2>1, <3>1
  <2>2. CASE ~(i <= n)
    <3>1. i - n \in 1..k /\ b.writerIndex + (i - n) - 1 = b.readerIndex + i - 1
      BY <1>2, <1>3, <2>2
    <3>2. w.data[b.writerIndex + (i - n) - 1] = bytes[i - n]
      BY <1>1, <3>1
    <3> QED
      BY <1>4, <1>5, <2>2, <3>1, <3>2
  <2> QED
    BY <2>1, <2>2
<1>7. Content(w) = Content(b) \o bytes
  BY <1>4, <1>5, <1>6, SeqEqual
<1> QED
  BY <1>7 DEF w

(* A reader that moves over n readable bytes leaves the others readable.      *)
LEMMA AdvanceContent ==
  ASSUME NEW b, Sound(b), NEW n \in Nat, n <= ReadableBytes(b)
  PROVE  Content(Advance(b, n)) = SubSeq(Content(b), n + 1, Len(Content(b)))
<1> DEFINE a == Advance(b, n)
           r == ReadableBytes(b)
<1>1. /\ r \in Nat /\ b.readerIndex \in Nat /\ b.writerIndex = b.readerIndex + r
      /\ Content(b) \in Seq(Byte) /\ Len(Content(b)) = r
      /\ \A i \in 1..r : Content(b)[i] = b.data[b.readerIndex + i - 1]
      /\ b.len \in Nat /\ b.readerIndex + n <= b.len
  BY ContentOf DEF Sound
<1>2. /\ Sound(a) /\ a.data = b.data /\ a.readerIndex = b.readerIndex + n
      /\ ReadableBytes(a) = r - n
  <2>1. Sound(a)
    BY AdvanceIsSound
  <2>2. /\ a.data = b.data /\ a.readerIndex = b.readerIndex + n
        /\ a.writerIndex = b.writerIndex
    BY DEF Advance, Sound, IsBuffer
  <2> HIDE DEF a
  <2> QED
    BY <1>1, <2>1, <2>2 DEF ReadableBytes
<1> HIDE DEF a, r
<1>3. /\ Content(a) \in Seq(Byte) /\ Len(Content(a)) = r - n
      /\ \A i \in 1..(r - n) : Content(a)[i] = b.data[b.readerIndex + n + i - 1]
  BY <1>2, ContentOf
<1>n. n <= r
  BY DEF r
<1>4. /\ SubSeq(Content(b), n + 1, r) \in Seq(Byte)
      /\ Len(SubSeq(Content(b), n + 1, r)) = r - n
      /\ \A i \in 1..(r - n) : SubSeq(Content(b), n + 1, r)[i] = Content(b)[n + i]
  <2>1. n + 1 \in 1..(r + 1) /\ r \in 0..r
    BY <1>1, <1>n
  <2> QED
    BY <1>1, <1>n, <2>1, SubSeqProperties
<1>5. ASSUME NEW i \in 1..(r - n) PROVE Content(a)[i] = SubSeq(Content(b), n + 1, r)[i]
  <2>1. n + i \in 1..r /\ b.readerIndex + (n + i) - 1 = b.readerIndex + n + i - 1
    BY <1>1, <1>n
  <2> QED
    BY <1>1, <1>3, <1>4, <2>1
<1>6. Content(a) = SubSeq(Content(b), n + 1, r)
  BY <1>3, <1>4, <1>5, SeqEqual
<1> QED
  BY <1>1, <1>6 DEF a

(* A slice of the readable bytes, as the array has it and as the queue has it. *)
LEMMA SliceContent ==
  ASSUME NEW b, Sound(b), NEW m \in Nat, NEW n \in Nat, m + n <= ReadableBytes(b)
  PROVE  Slice(b, b.readerIndex + m, n) = SubSeq(Content(b), m + 1, m + n)
<1> DEFINE r == ReadableBytes(b)
           left == Slice(b, b.readerIndex + m, n)
           right == SubSeq(Content(b), m + 1, m + n)
<1>1. /\ r \in Nat /\ b.readerIndex \in Nat /\ m + n <= r
      /\ Content(b) \in Seq(Byte) /\ Len(Content(b)) = r
      /\ \A i \in 1..r : Content(b)[i] = b.data[b.readerIndex + i - 1]
      /\ b.len \in Nat /\ b.readerIndex + m + n <= b.len
  BY ContentOf DEF Sound
<1> HIDE DEF r
<1>2. left \in Seq(Byte) /\ Len(left) = n
  <2>1. IsBuffer(b) /\ b.readerIndex + m \in Nat /\ (b.readerIndex + m) + n <= b.len
    BY <1>1 DEF Sound
  <2> QED
    BY <2>1, SliceIsBytes
<1>3. /\ right \in Seq(Byte) /\ Len(right) = n
      /\ \A i \in 1..n : right[i] = Content(b)[m + i]
  <2>1. m + 1 \in Int /\ m + n \in Int /\ \A i \in (m + 1)..(m + n) : i \in 1..r
    BY <1>1
  <2>2. \A i \in (m + 1)..(m + n) : Content(b)[i] \in Byte
    BY <1>1, <2>1, LenProperties
  <2>3. /\ right \in Seq(Byte)
        /\ Len(right) = IF m + 1 <= m + n THEN (m + n) - (m + 1) + 1 ELSE 0
        /\ \A i \in 1..((m + n) - (m + 1) + 1) : right[i] = Content(b)[(m + 1) + i - 1]
    BY <2>1, <2>2, SubSeqProperties
  <2>4. (m + n) - (m + 1) + 1 = n /\ \A i \in 1..n : (m + 1) + i - 1 = m + i
    OBVIOUS
  <2> HIDE DEF right
  <2>5. Len(right) = n
    BY <2>3
  <2>6. \A i \in 1..n : right[i] = Content(b)[m + i]
    BY <2>3, <2>4
  <2> QED
    BY <2>3, <2>5, <2>6
<1>4. ASSUME NEW i \in 1..n PROVE left[i] = right[i]
  <2>1. m + i \in 1..r /\ b.readerIndex + (m + i) - 1 = b.readerIndex + m + i - 1
    BY <1>1
  <2> QED
    BY <1>1, <1>3, <2>1 DEF Slice
<1> QED
  BY <1>2, <1>3, <1>4, SeqEqual

(* Nothing is readable in a cleared buffer.                                  *)
LEMMA ClearContent ==
  ASSUME NEW b, Sound(b)
  PROVE  Content(Clear(b)) = <<>>
<1>1. Sound(Clear(b))
  BY ClearIsSound
<1>2. ReadableBytes(Clear(b)) = 0
  BY DEF Clear, Sound, IsBuffer, ReadableBytes
<1>3. Content(Clear(b)) \in Seq(Byte) /\ Len(Content(Clear(b))) = 0
  BY <1>1, <1>2, ContentOf
<1> QED
  BY <1>3, EmptySeq

(* Neither does growing change what is readable, ..                          *)
LEMMA CapacityContent ==
  ASSUME NEW b, Sound(b), NEW capacity \in Nat
  PROVE  Content(Capacity(b, capacity)) = Content(b)
<1> DEFINE c == Capacity(b, capacity)
           r == ReadableBytes(b)
<1>1. /\ r \in Nat /\ b.readerIndex \in Nat /\ b.writerIndex = b.readerIndex + r
      /\ b.len \in Nat /\ b.writerIndex <= b.len
  BY ContentOf DEF Sound
<1>2. /\ Sound(c) /\ c.readerIndex = b.readerIndex /\ c.writerIndex = b.writerIndex
      /\ \A i \in 0..(b.len - 1) : c.data[i] = b.data[i]
  BY CapacityIsSound
<1> HIDE DEF c
<1>3. ReadableBytes(c) = r
  BY <1>2 DEF ReadableBytes
<1> HIDE DEF r
<1>4. ASSUME NEW i \in 1..r
      PROVE  c.data[c.readerIndex + i - 1] = b.data[b.readerIndex + i - 1]
  <2>1. b.readerIndex + i - 1 \in 0..(b.len - 1)
    BY <1>1
  <2> QED
    BY <1>2, <2>1
<1>5. Content(c) = Content(b)
  BY <1>2, <1>3, <1>4, SameContent DEF r
<1> QED
  BY <1>5 DEF c

(* .. nor does storing change how much is.                                   *)
LEMMA StoreContent ==
  ASSUME NEW b, Sound(b), NEW at \in Nat, NEW bytes \in Seq(Byte)
  PROVE  Len(Content(Store(b, at, bytes))) = Len(Content(b))
<1>1. /\ Sound(Store(b, at, bytes))
      /\ ReadableBytes(Store(b, at, bytes)) = ReadableBytes(b)
  BY StoreIsSound DEF ReadableBytes
<1> QED
  BY <1>1, ContentOf

-----------------------------------------------------------------------------
(* A step that replaces one buffer by a sound one keeps all of them sound.   *)
LEMMA OneBufferChanges ==
  ASSUME Inv, NEW n \in Names, NEW b, Sound(b), buf' = [buf EXCEPT ![n] = b]
  PROVE  Inv'
BY DEF Inv, Sound, IsBuffer

LEMMA NoBufferChanges ==
  ASSUME Inv, UNCHANGED buf
  PROVE  Inv'
BY DEF Inv, Sound, IsBuffer

LEMMA PutKeepsInv ==
  ASSUME Inv, NEW n \in Names, NEW bytes \in Seq(Byte), Put(n, bytes)
  PROVE  Inv'
<1>1. Sound(Write(buf[n], bytes))
  BY WriteIsSound DEF Inv
<1> QED
  BY <1>1, OneBufferChanges DEF Put

(* A read or a skip moves the reader over readable bytes, or does nothing.    *)
LEMMA ReadKeepsInv ==
  ASSUME Inv, NEW n \in Names, NEW length \in Nat,
         \/ UNCHANGED buf
         \/ /\ length <= ReadableBytes(buf[n])
            /\ buf' = [buf EXCEPT ![n] = Advance(@, length)]
  PROVE  Inv'
<1>1. CASE UNCHANGED buf
  BY <1>1, NoBufferChanges
<1>2. CASE /\ length <= ReadableBytes(buf[n])
           /\ buf' = [buf EXCEPT ![n] = Advance(@, length)]
  <2>1. Sound(Advance(buf[n], length))
    BY <1>2, AdvanceIsSound DEF Inv
  <2> QED
    BY <1>2, <2>1, OneBufferChanges
<1> QED
  BY <1>1, <1>2

-----------------------------------------------------------------------------
LEMMA InitInv == Init => Inv
<1>1. SUFFICES ASSUME Init PROVE Inv
  OBVIOUS
<1>2. Sound(NewBuffer(NewCapacity))
  BY NewIsSound, BuffersAssumption
<1> QED
  BY <1>1, <1>2 DEF Init, Inv

LEMMA StepInv == Inv /\ [Next]_vars => Inv'
<1>1. SUFFICES ASSUME Inv, [Next]_vars PROVE Inv'
  OBVIOUS
<1>2. ASSUME NEW n \in Names
      PROVE  /\ buf[n] = [buf EXCEPT ![n] = buf[n]][n] /\ Sound(buf[n])
             /\ buf[n].len \in Nat /\ buf[n].readerIndex \in Nat /\ buf[n].writerIndex \in Nat
  BY <1>1 DEF Inv, Sound, IsBuffer
<1>3. ASSUME NEW n \in Names, WriteByte(n) PROVE Inv'
  <2>1. \A v \in Byte : <<v>> \in Seq(Byte)
    OBVIOUS
  <2> QED
    BY <1>1, <1>3, <2>1, PutKeepsInv DEF WriteByte
<1>4. ASSUME NEW n \in Names, WriteInt(n) PROVE Inv'
  BY <1>1, <1>4, BytesOfNumber, PutKeepsInv, SizeAssumption, BuffersAssumption DEF WriteInt
<1>5. ASSUME NEW n \in Names, WriteShort(n) PROVE Inv'
  BY <1>1, <1>5, BytesOfNumber, PutKeepsInv, SizeAssumption, BuffersAssumption DEF WriteShort
<1>6. ASSUME NEW n \in Names, WriteArray(n) PROVE Inv'
  <2>1. PICK src \in Arrays : \E off \in 0..Len(src) : \E len \in 0..(Len(src) - off) :
          Put(n, SubSeq(src, off + 1, off + len))
    BY <1>6 DEF WriteArray
  <2>2. PICK off \in 0..Len(src) : \E len \in 0..(Len(src) - off) :
          Put(n, SubSeq(src, off + 1, off + len))
    BY <2>1
  <2>3. PICK len \in 0..(Len(src) - off) :
          Put(n, SubSeq(src, off + 1, off + len))
    BY <2>2
  <2>4. src \in Seq(Byte)
    BY BuffersAssumption
  <2>5. SubSeq(src, off + 1, off + len) \in Seq(Byte)
    BY <2>4
  <2> QED
    BY <1>1, <2>3, <2>5, PutKeepsInv
<1>7. ASSUME NEW n \in Names, ReadByte(n) PROVE Inv'
  <2>1. CanReadNumber(buf[n], 1) => 1 <= ReadableBytes(buf[n])
    BY <1>2 DEF CanReadNumber, ReadableBytes
  <2> QED
    BY <1>1, <1>7, <2>1, ReadKeepsInv DEF ReadByte, Give
<1>8. ASSUME NEW n \in Names, ReadInt(n) PROVE Inv'
  <2>1. CanReadNumber(buf[n], IntSize) => IntSize <= ReadableBytes(buf[n])
    BY <1>2, SizeAssumption DEF CanReadNumber, ReadableBytes
  <2> QED
    BY <1>1, <1>8, <2>1, ReadKeepsInv, SizeAssumption DEF ReadInt, Give
<1>9. ASSUME NEW n \in Names, ReadShort(n) PROVE Inv'
  <2>1. CanReadNumber(buf[n], ShortSize) => ShortSize <= ReadableBytes(buf[n])
    BY <1>2, SizeAssumption DEF CanReadNumber, ReadableBytes
  <2> QED
    BY <1>1, <1>9, <2>1, ReadKeepsInv, SizeAssumption DEF ReadShort, Give
<1>10. ASSUME NEW n \in Names, ReadByteArray(n) PROVE Inv'
  <2>1. PICK length \in 0..MaxCapacity :
          Give(n, "ReadByteArray", length, CanReadArray(buf[n], length))
    BY <1>10 DEF ReadByteArray
  <2>2. CanReadArray(buf[n], length) => length <= ReadableBytes(buf[n])
    BY <1>2, BuffersAssumption DEF CanReadArray, ReadableBytes
  <2> QED
    BY <1>1, <2>1, <2>2, ReadKeepsInv, BuffersAssumption DEF Give
<1>11. ASSUME NEW n \in Names, SkipBytes(n) PROVE Inv'
  <2>1. PICK length \in 0..MaxCapacity :
          buf' = IF length <= ReadableBytes(buf[n])
                 THEN [buf EXCEPT ![n] = Advance(@, length)] ELSE buf
    BY <1>11 DEF SkipBytes
  <2> QED
    BY <1>1, <2>1, ReadKeepsInv, BuffersAssumption
<1>12. ASSUME NEW n \in Names, ClearBuffer(n) PROVE Inv'
  BY <1>1, <1>2, <1>12, ClearIsSound, OneBufferChanges DEF ClearBuffer
<1>13. ASSUME NEW n \in Names, SetCapacity(n) PROVE Inv'
  <2>1. PICK capacity \in 0..MaxCapacity : buf' = [buf EXCEPT ![n] = Capacity(@, capacity)]
    BY <1>13 DEF SetCapacity
  <2>2. Sound(Capacity(buf[n], capacity))
    BY <1>2, CapacityIsSound, BuffersAssumption
  <2> QED
    BY <1>1, <2>1, <2>2, OneBufferChanges
<1>14. ASSUME NEW n \in Names, SetNumber(n) PROVE Inv'
  <2>1. PICK v \in Numbers, size \in {1, ShortSize, IntSize}, index \in 0..MaxCapacity :
          buf' = IF index + size <= buf[n].len
                 THEN [buf EXCEPT ![n] = Store(@, index, ToBytes(v, size))] ELSE buf
    BY <1>14 DEF SetNumber
  <2>2. ToBytes(v, size) \in Seq(Byte)
    BY BytesOfNumber, SizeAssumption, BuffersAssumption
  <2>3. Sound(Store(buf[n], index, ToBytes(v, size)))
    BY <1>2, <2>2, StoreIsSound, BuffersAssumption
  <2> QED
    BY <1>1, <2>1, <2>3, OneBufferChanges, NoBufferChanges
<1>15. ASSUME NEW n \in Names, SetBytes(n) PROVE Inv'
  <2>1. PICK bytes \in Arrays, index \in 0..MaxCapacity :
          buf' = IF index + Len(bytes) <= Len(bytes) /\ Len(bytes) <= buf[n].len
                 THEN [buf EXCEPT ![n] = Store(@, index, bytes)] ELSE buf
    BY <1>15 DEF SetBytes
  <2>2. Sound(Store(buf[n], index, bytes))
    BY <1>2, StoreIsSound, BuffersAssumption
  <2> QED
    BY <1>1, <2>1, <2>2, OneBufferChanges, NoBufferChanges
<1>16. ASSUME NEW n \in Names, NEW src \in Names, WriteBuffer(n, src) PROVE Inv'
  <2>1. n # src /\ buf' = [buf EXCEPT ![n] = Write(@, Content(buf[src])),
                                     ![src] = Advance(@, Len(Content(@)))]
    BY <1>16 DEF WriteBuffer
  <2>2. ReadableBytes(buf[src]) \in Nat
    BY <1>2 DEF ReadableBytes, Sound
  <2>3. Content(buf[src]) \in Seq(Byte)
    BY <1>2, <2>2, SliceIsBytes DEF Content, ReadableBytes, Sound
  <2>4. Sound(Write(buf[n], Content(buf[src])))
    BY <1>2, <2>3, WriteIsSound
  <2>5. Len(Content(buf[src])) = ReadableBytes(buf[src])
    BY <1>2, <2>2, SliceIsBytes DEF Content, ReadableBytes, Sound
  <2>6. Sound(Advance(buf[src], Len(Content(buf[src]))))
    BY <1>2, <2>2, <2>5, AdvanceIsSound
  <2> QED
    BY <1>1, <2>1, <2>4, <2>6 DEF Inv
<1>17. ASSUME NEW n \in Names, NEW copy \in Names, CopyTo(n, copy) PROVE Inv'
  BY <1>1, <1>2, <1>17, OneBufferChanges DEF CopyTo
<1>18. ASSUME NEW n \in Names, WriteUTF8(n) PROVE Inv'
  <2>1. PICK content \in Arrays :
          Put(n, ToBytes(Len(content), ShortSize) \o content)
    BY <1>18 DEF WriteUTF8
  <2>2. content \in Seq(Byte) /\ ToBytes(Len(content), ShortSize) \in Seq(Byte)
    BY BytesOfNumber, SizeAssumption, BuffersAssumption
  <2>3. ToBytes(Len(content), ShortSize) \o content \in Seq(Byte)
    BY <2>2
  <2> QED
    BY <1>1, <2>1, <2>3, PutKeepsInv
<1>19. ASSUME NEW n \in Names, ReadUTF8(n) PROVE Inv'
  <2> DEFINE length == StringLength(buf[n])
  <2>1. HoldsString(buf[n]) /\ buf' = [buf EXCEPT ![n] = Advance(Advance(buf[n], ShortSize), length)]
    BY <1>19 DEF ReadUTF8
  <2>2. /\ ShortSize <= ReadableBytes(buf[n])
        /\ length \in 0..(ReadableBytes(buf[n]) - ShortSize)
    BY <1>2, <2>1, SizeAssumption DEF HoldsString, CanReadNumber, ReadableBytes
  <2>3. Sound(Advance(buf[n], ShortSize))
    BY <1>2, <2>2, SizeAssumption, AdvanceIsSound
  <2>4. ReadableBytes(Advance(buf[n], ShortSize)) = ReadableBytes(buf[n]) - ShortSize
    BY <1>2, SizeAssumption DEF Advance, ReadableBytes, Sound, IsBuffer
  <2>5. ReadableBytes(buf[n]) \in Nat
    BY <1>2 DEF ReadableBytes, Sound
  <2> HIDE DEF length
  <2>6. Sound(Advance(Advance(buf[n], ShortSize), length))
    BY <2>2, <2>3, <2>4, <2>5, SizeAssumption, AdvanceIsSound
  <2> QED
    BY <1>1, <2>1, <2>6, OneBufferChanges
<1>20. ASSUME NEW n \in Names, NEW src \in Names, WriteBufferBytes(n, src) PROVE Inv'
  <2>1. PICK length \in 1..MaxCapacity :
          /\ n # src
          /\ length <= ReadableBytes(buf[src])
          /\ buf' = [buf EXCEPT ![n] = Write(@, Slice(buf[src], buf[src].readerIndex, length)),
                               ![src] = Advance(@, length)]
    BY <1>20 DEF WriteBufferBytes
  <2>2. length \in Nat
    BY BuffersAssumption
  <2>3. Slice(buf[src], buf[src].readerIndex, length) \in Seq(Byte)
    BY <1>2, <2>1, <2>2, SliceIsBytes DEF ReadableBytes, Sound
  <2>4. Sound(Write(buf[n], Slice(buf[src], buf[src].readerIndex, length)))
    BY <1>2, <2>3, WriteIsSound
  <2>5. Sound(Advance(buf[src], length))
    BY <1>2, <2>1, <2>2, AdvanceIsSound
  <2> QED
    BY <1>1, <2>1, <2>4, <2>5 DEF Inv
<1>21. CASE UNCHANGED vars
  BY <1>1, <1>21, NoBufferChanges DEF vars
<1> QED
  BY <1>1, <1>3, <1>4, <1>5, <1>6, <1>7, <1>8, <1>9, <1>10, <1>11, <1>12, <1>13,
     <1>14, <1>15, <1>16, <1>17, <1>18, <1>19, <1>20, <1>21 DEF Next

-----------------------------------------------------------------------------
(* Every buffer stays a capacity, an array of that many bytes and two        *)
(* indices: no method leaves the array behind its capacity.                  *)
THEOREM BuffersTyped == Spec => []TypeOK
<1>1. Inv => TypeOK
  BY DEF Inv, Sound, TypeOK
<1> QED
  BY <1>1, InitInv, StepInv, PTL DEF Spec

(* The checked methods never let a reader overtake the writer nor the writer  *)
(* leave the array, in whatever order they are called.                        *)
THEOREM IndicesOrdered == Spec => []IndicesInOrder
<1>1. Inv => IndicesInOrder
  BY DEF Inv, Sound, IndicesInOrder
<1> QED
  BY <1>1, InitInv, StepInv, PTL DEF Spec

-----------------------------------------------------------------------------
(* Part two: the readable bytes of the buffers are the queues of ByteQueue.   *)
Bytes == [n \in Names |-> Content(buf[n])]

(* Replacing one buffer replaces one queue.                                  *)
LEMMA OneQueueChanges ==
  ASSUME Inv, NEW n \in Names, NEW b, buf' = [buf EXCEPT ![n] = b]
  PROVE  Bytes' = [Bytes EXCEPT ![n] = Content(b)]
BY DEF Inv, Bytes

LEMMA NoQueueChanges ==
  ASSUME UNCHANGED buf
  PROVE  UNCHANGED Bytes
BY DEF Bytes

(* Nothing is handed over and no queue changes.                              *)
LEMMA NothingStep ==
  ASSUME UNCHANGED Bytes, call'.got = <<>>
  PROVE  Queue!NothingToGive
BY DEF Queue!NothingToGive, Bytes

(* Bytes written enter at the end.                                           *)
LEMMA EnqueueStep ==
  ASSUME Inv, NEW n \in Names, NEW bytes \in Seq(Byte), Put(n, bytes), call'.got = <<>>
  PROVE  Queue!Enqueue(n)
<1> DEFINE before == Content(buf[n])
           after == before \o bytes
<1>1. Sound(buf[n]) /\ buf' = [buf EXCEPT ![n] = Write(buf[n], bytes)]
  BY DEF Inv, Put
<1>2. before \in Seq(Byte) /\ Content(Write(buf[n], bytes)) = after
  BY <1>1, ContentOf, WriteContent
<1>3. Bytes' = [Bytes EXCEPT ![n] = after]
  BY <1>1, <1>2, OneQueueChanges
<1>4. Bytes[n] = before /\ Bytes'[n] = after
  BY <1>3 DEF Bytes
<1> HIDE DEF before
<1>5. /\ after \in Seq(Byte) /\ Len(after) = Len(before) + Len(bytes)
      /\ \A i \in 1..(Len(before) + Len(bytes)) :
           after[i] = IF i <= Len(before) THEN before[i] ELSE bytes[i - Len(before)]
  BY <1>2, ConcatProperties
<1> HIDE DEF after
<1>6. Len(before) \in Nat /\ Len(bytes) \in Nat
  BY <1>2, LenProperties
<1>7. Queue!IsPrefix(before, after)
  <2> DEFINE s == SubSeq(before, 1, Len(before))
             t == SubSeq(after, 1, Len(before))
  <2>1. 1 \in 1..(Len(before) + 1) /\ Len(before) \in 0..Len(before)
        /\ 1 \in 1..(Len(after) + 1) /\ Len(before) \in 0..Len(after)
    BY <1>5, <1>6
  <2>2. /\ s \in Seq(Byte) /\ Len(s) = Len(before)
        /\ \A i \in 1..Len(before) : s[i] = before[i]
    BY <1>2, <1>6, <2>1, SubSeqProperties
  <2>3. /\ t \in Seq(Byte) /\ Len(t) = Len(before)
        /\ \A i \in 1..Len(before) : t[i] = after[i]
    BY <1>5, <1>6, <2>1, SubSeqProperties
  <2>4. \A i \in 1..Len(before) : after[i] = before[i]
    BY <1>5, <1>6
  <2> HIDE DEF s, t
  <2>5. s = t
    BY <2>2, <2>3, <2>4, SeqEqual
  <2> QED
    BY <1>5, <1>6, <2>5 DEF Queue!IsPrefix, s, t
<1>8. Queue!IsPrefix(Bytes[n], Bytes'[n])
  BY <1>4, <1>7
<1>9. Bytes' = [Bytes EXCEPT ![n] = Bytes'[n]]
  BY <1>3, <1>4
<1> QED
  BY <1>8, <1>9 DEF Queue!Enqueue, Bytes

(* All of a queue is the queue.                                              *)
LEMMA WholePart ==
  ASSUME NEW s \in Seq(Byte)
  PROVE  SubSeq(s, 1, Len(s)) = s
<1> DEFINE t == SubSeq(s, 1, Len(s))
<1>1. Len(s) \in Nat
  BY LenProperties
<1>2. 1 \in 1..(Len(s) + 1) /\ Len(s) \in 0..Len(s)
  BY <1>1
<1>3. t \in Seq(Byte) /\ Len(t) = Len(s) /\ \A i \in 1..Len(s) : t[i] = s[i]
  BY <1>1, <1>2, SubSeqProperties
<1> QED
  BY <1>3, SeqEqual

(* Bytes read or skipped leave at the front, once, and those handed over are   *)
(* the last of them.                                                         *)
LEMMA DequeueStep ==
  ASSUME Inv, NEW n \in Names, NEW length \in Nat, length <= ReadableBytes(buf[n]),
         buf' = [buf EXCEPT ![n] = Advance(@, length)],
         NEW m \in 0..length, call'.got = SubSeq(Content(buf[n]), m + 1, length)
  PROVE  Queue!Dequeue(n) \/ Queue!NothingToGive
<1> DEFINE before == Content(buf[n])
           after == SubSeq(before, length + 1, Len(before))
<1>1. Sound(buf[n]) /\ buf' = [buf EXCEPT ![n] = Advance(buf[n], length)]
  BY DEF Inv
<1>2. /\ before \in Seq(Byte) /\ Len(before) = ReadableBytes(buf[n])
      /\ Len(before) \in Nat
      /\ Content(Advance(buf[n], length)) = after
  BY <1>1, ContentOf, AdvanceContent
<1>3. Bytes' = [Bytes EXCEPT ![n] = after]
  BY <1>1, <1>2, OneQueueChanges
<1>4. Bytes[n] = before
  BY DEF Bytes
<1> HIDE DEF before
<1>5. CASE length = 0
  <2>1. m = 0
    BY <1>5
  <2>2. after = before
    BY <1>2, <1>5, WholePart
  <2>3. call'.got = <<>>
    BY <1>5, <2>1, SubSeqEmpty
  <2>4. UNCHANGED Bytes
    BY <1>3, <1>4, <2>2 DEF Bytes
  <2> QED
    BY <2>3, <2>4, NothingStep
<1>6. CASE length # 0
  <2>1. length \in 1..Len(before)
    BY <1>2, <1>6
  <2>2. call'.got = SubSeq(Bytes[n], m + 1, length)
    BY <1>4 DEF before
  <2>3. Bytes' = [Bytes EXCEPT ![n] = SubSeq(@, length + 1, Len(@))]
    BY <1>3, <1>4
  <2>4. length \in 1..Len(Bytes[n])
    BY <1>4, <2>1
  <2>5. Queue!Dequeue(n)
    BY <2>2, <2>3, <2>4 DEF Queue!Dequeue, Bytes
  <2> QED
    BY <2>5
<1> QED
  BY <1>5, <1>6

(* Bytes leave one queue at the front and enter another at the end.          *)
LEMMA MoveStep ==
  ASSUME Inv, NEW n \in Names, NEW src \in Names, n # src,
         NEW length \in Nat, length <= ReadableBytes(buf[src]),
         buf' = [buf EXCEPT ![n] = Write(@, SubSeq(Content(buf[src]), 1, length)),
                            ![src] = Advance(@, length)],
         call'.got = <<>>
  PROVE  Queue!Move(src, n) \/ Queue!NothingToGive
<1> DEFINE bytes == Content(buf[src])
           moved == SubSeq(bytes, 1, length)
           left == SubSeq(bytes, length + 1, Len(bytes))
           target == Content(buf[n])
<1>1. /\ Sound(buf[n]) /\ Sound(buf[src])
      /\ buf' = [buf EXCEPT ![n] = Write(buf[n], moved),
                            ![src] = Advance(buf[src], length)]
  BY DEF Inv
<1>2. /\ bytes \in Seq(Byte) /\ Len(bytes) = ReadableBytes(buf[src])
      /\ Len(bytes) \in Nat
      /\ target \in Seq(Byte)
      /\ Content(Advance(buf[src], length)) = left
  BY <1>1, ContentOf, AdvanceContent
<1>3. moved \in Seq(Byte)
  <2>1. 1 \in 1..(Len(bytes) + 1) /\ length \in 0..Len(bytes)
    BY <1>2
  <2> QED
    BY <1>2, <2>1, SubSeqProperties
<1>4. Content(Write(buf[n], moved)) = target \o moved
  BY <1>1, <1>3, WriteContent
<1>5. Bytes' = [Bytes EXCEPT ![n] = target \o moved, ![src] = left]
  BY <1>1, <1>2, <1>4 DEF Bytes, Inv
<1>6. Bytes[n] = target /\ Bytes[src] = bytes
  BY DEF Bytes
<1> HIDE DEF bytes, target
<1>7. CASE length = 0
  <2>1. left = bytes /\ moved = <<>>
    BY <1>2, <1>7, WholePart, SubSeqEmpty
  <2>2. target \o <<>> = target
    BY <1>2, ConcatEmptySeq
  <2>3. Bytes' = [Bytes EXCEPT ![n] = target, ![src] = bytes]
    BY <1>5, <2>1, <2>2
  <2>4. UNCHANGED Bytes
    BY <1>6, <2>3 DEF Bytes
  <2> QED
    BY <2>4, NothingStep
<1>8. CASE length # 0
  <2>1. length \in 1..Len(Bytes[src])
    BY <1>2, <1>6, <1>8
  <2>2. Bytes' = [Bytes EXCEPT ![src] = SubSeq(@, length + 1, Len(@)),
                              ![n] = @ \o SubSeq(Bytes[src], 1, length)]
    <3>1. /\ left = SubSeq(Bytes[src], length + 1, Len(Bytes[src]))
          /\ moved = SubSeq(Bytes[src], 1, length)
      BY <1>6
    <3> HIDE DEF left, moved
    <3>2. Bytes' = [[Bytes EXCEPT ![src] = left] EXCEPT ![n] = Bytes[n] \o moved]
      BY <1>5, <1>6 DEF Bytes
    <3> QED
      BY <3>1, <3>2 DEF Bytes
  <2>3. Queue!Move(src, n)
    BY <2>1, <2>2 DEF Queue!Move, Bytes
  <2> QED
    BY <2>3
<1> QED
  BY <1>7, <1>8

(* Places of a queue are overwritten, none is added or lost.                 *)
LEMMA OverwriteStep ==
  ASSUME Inv, NEW n \in Names, NEW at \in Nat, NEW bytes \in Seq(Byte),
         \/ buf' = [buf EXCEPT ![n] = Store(@, at, bytes)]
         \/ UNCHANGED buf,
         call'.got = <<>>
  PROVE  Queue!Overwrite(n) \/ Queue!NothingToGive
<1>1. CASE buf' = [buf EXCEPT ![n] = Store(@, at, bytes)]
  <2> DEFINE after == Content(Store(buf[n], at, bytes))
  <2>1. Sound(buf[n]) /\ buf' = [buf EXCEPT ![n] = Store(buf[n], at, bytes)]
    BY <1>1 DEF Inv
  <2>2. Bytes' = [Bytes EXCEPT ![n] = after]
    BY <2>1, OneQueueChanges
  <2>3. Len(after) = Len(Content(buf[n]))
    BY <2>1, StoreContent
  <2> HIDE DEF after
  <2>4. Bytes[n] = Content(buf[n]) /\ Bytes'[n] = after
    BY <2>2 DEF Bytes
  <2>5. Len(Bytes'[n]) = Len(Bytes[n]) /\ Bytes' = [Bytes EXCEPT ![n] = Bytes'[n]]
    BY <2>2, <2>3, <2>4
  <2> QED
    BY <2>5 DEF Queue!Overwrite, Bytes
<1>2. CASE UNCHANGED buf
  BY <1>2, NoQueueChanges, NothingStep
<1> QED
  BY <1>1, <1>2

-----------------------------------------------------------------------------
LEMMA InitQueue == Init => Queue!Init
<1>1. SUFFICES ASSUME Init PROVE Queue!Init
  OBVIOUS
<1>2. Sound(NewBuffer(NewCapacity)) /\ ReadableBytes(NewBuffer(NewCapacity)) = 0
  BY NewIsSound, BuffersAssumption DEF NewBuffer, ReadableBytes
<1>3. Content(NewBuffer(NewCapacity)) = <<>>
  <2>1. /\ Content(NewBuffer(NewCapacity)) \in Seq(Byte)
        /\ Len(Content(NewBuffer(NewCapacity))) = 0
    BY <1>2, ContentOf
  <2> QED
    BY <2>1, EmptySeq
<1>4. \A n \in Names : Content(buf[n]) = <<>>
  BY <1>1, <1>3 DEF Init
<1>5. call.got = <<>>
  BY <1>1 DEF Init, Called, Made
<1> QED
  BY <1>4, <1>5 DEF Queue!Init

\* What one buffer does to its queue.
OneQueue(n) == Queue!Enqueue(n) \/ Queue!Dequeue(n) \/ Queue!Drop(n) \/ Queue!Overwrite(n)

LEMMA ReadStep ==
  ASSUME Inv, NEW n \in Names, NEW op, NEW length \in Nat, NEW possible \in BOOLEAN,
         possible => length <= ReadableBytes(buf[n]),
         Give(n, op, length, possible)
  PROVE  OneQueue(n) \/ Queue!NothingToGive
<1>1. CASE possible
  <2>1. Sound(buf[n]) /\ buf[n].readerIndex \in Nat
    BY DEF Inv, Sound, IsBuffer
  <2>2. Slice(buf[n], buf[n].readerIndex + 0, length) = SubSeq(Content(buf[n]), 0 + 1, 0 + length)
    BY <1>1, <2>1, SliceContent
  <2>3. buf[n].readerIndex + 0 = buf[n].readerIndex /\ 0 + length = length
    BY <2>1
  <2>4. call'.got = SubSeq(Content(buf[n]), 0 + 1, length)
    BY <1>1, <2>2, <2>3 DEF Give, Made
  <2>5. buf' = [buf EXCEPT ![n] = Advance(@, length)] /\ 0 \in 0..length
    BY <1>1 DEF Give
  <2> QED
    BY <1>1, <2>4, <2>5, DequeueStep DEF OneQueue
<1>2. CASE ~possible
  <2>1. call'.got = <<>> /\ UNCHANGED buf
    BY <1>2 DEF Give, Made
  <2> QED
    BY <2>1, NoQueueChanges, NothingStep
<1> QED
  BY <1>1, <1>2

(* Every write is an Enqueue.                                                *)
LEMMA WriteSteps ==
  ASSUME Inv, NEW n \in Names,
         WriteByte(n) \/ WriteInt(n) \/ WriteShort(n) \/ WriteArray(n) \/ WriteUTF8(n)
  PROVE  OneQueue(n)
<1>1. PICK bytes \in Seq(Byte) : Put(n, bytes)
  <2>1. CASE WriteByte(n)
    <3>1. \A v \in Byte : <<v>> \in Seq(Byte)
      OBVIOUS
    <3> QED
      BY <2>1, <3>1 DEF WriteByte
  <2>2. CASE WriteInt(n)
    BY <2>2, BytesOfNumber, SizeAssumption, BuffersAssumption DEF WriteInt
  <2>3. CASE WriteShort(n)
    BY <2>3, BytesOfNumber, SizeAssumption, BuffersAssumption DEF WriteShort
  <2>4. CASE WriteArray(n)
    <3>1. PICK src \in Arrays, off \in Int, len \in Int :
            /\ off \in 0..Len(src) /\ len \in 0..(Len(src) - off)
            /\ Put(n, SubSeq(src, off + 1, off + len))
      <4>1. \A src \in Arrays : Len(src) \in Nat
        BY BuffersAssumption, LenProperties
      <4> QED
        BY <2>4, <4>1, SMTT(30) DEF WriteArray
    <3>2. src \in Seq(Byte) /\ Len(src) \in Nat
      BY BuffersAssumption, LenProperties
    <3>3. SubSeq(src, off + 1, off + len) \in Seq(Byte)
      <4>1. \A i \in (off + 1)..(off + len) : src[i] \in Byte
        BY <3>1, <3>2, LenProperties
      <4> QED
        BY <3>1, <4>1, SubSeqProperties
    <3> QED
      BY <3>1, <3>3
  <2>5. CASE WriteUTF8(n)
    <3>1. PICK content \in Arrays : Put(n, ToBytes(Len(content), ShortSize) \o content)
      BY <2>5 DEF WriteUTF8
    <3>2. content \in Seq(Byte) /\ ToBytes(Len(content), ShortSize) \in Seq(Byte)
      BY BytesOfNumber, SizeAssumption, BuffersAssumption
    <3>3. ToBytes(Len(content), ShortSize) \o content \in Seq(Byte)
      BY <3>2
    <3> QED
      BY <3>1, <3>3
  <2> QED
    BY <2>1, <2>2, <2>3, <2>4, <2>5
<1>2. call'.got = <<>>
  <2>1. call' = Called(n) \/ \E v \in Numbers : call' = Made("WriteInt", n, v, <<>>)
    BY DEF WriteByte, WriteInt, WriteShort, WriteArray, WriteUTF8
  <2>2. Called(n).got = <<>> /\ \A v \in Numbers : Made("WriteInt", n, v, <<>>).got = <<>>
    BY DEF Called, Made
  <2> QED
    BY <2>1, <2>2
<1> QED
  BY <1>1, <1>2, EnqueueStep DEF OneQueue

(* Every read is a Dequeue, or hands over nothing.                           *)
LEMMA ReadSteps ==
  ASSUME Inv, NEW n \in Names,
         \/ ReadByte(n) \/ ReadInt(n) \/ ReadShort(n) \/ ReadByteArray(n)
         \/ SkipBytes(n) \/ ReadUTF8(n)
  PROVE  OneQueue(n) \/ Queue!NothingToGive
<1>0. /\ Sound(buf[n]) /\ ReadableBytes(buf[n]) \in Nat
      /\ buf[n].readerIndex \in Nat /\ buf[n].writerIndex \in Nat
      /\ buf[n].writerIndex = buf[n].readerIndex + ReadableBytes(buf[n])
  BY ContentOf DEF Inv
<1>1. ASSUME NEW op, NEW size \in Nat, Give(n, op, size, CanReadNumber(buf[n], size))
      PROVE  OneQueue(n) \/ Queue!NothingToGive
  <2>1. CanReadNumber(buf[n], size) => size <= ReadableBytes(buf[n])
    BY <1>0 DEF CanReadNumber
  <2>2. CanReadNumber(buf[n], size) \in BOOLEAN
    BY DEF CanReadNumber
  <2> QED
    BY <1>1, <2>1, <2>2, ReadStep
<1>2. CASE ReadByte(n)
  BY <1>1, <1>2 DEF ReadByte
<1>3. CASE ReadInt(n)
  BY <1>1, <1>3, SizeAssumption DEF ReadInt
<1>4. CASE ReadShort(n)
  BY <1>1, <1>4, SizeAssumption DEF ReadShort
<1>5. CASE ReadByteArray(n)
  <2>1. PICK length \in 0..MaxCapacity :
          Give(n, "ReadByteArray", length, CanReadArray(buf[n], length))
    BY <1>5 DEF ReadByteArray
  <2>2. length \in Nat /\ (CanReadArray(buf[n], length) => length <= ReadableBytes(buf[n]))
    BY <1>0, BuffersAssumption DEF CanReadArray
  <2>3. CanReadArray(buf[n], length) \in BOOLEAN
    BY DEF CanReadArray
  <2> QED
    BY <2>1, <2>2, <2>3, ReadStep
<1>6. CASE SkipBytes(n)
  <2>1. PICK length \in 0..MaxCapacity :
          /\ buf' = IF length <= ReadableBytes(buf[n])
                    THEN [buf EXCEPT ![n] = Advance(@, length)] ELSE buf
          /\ call' = Called(n)
    BY <1>6 DEF SkipBytes
  <2>2. call'.got = <<>> /\ length \in Nat /\ length \in 0..length
    BY <2>1, BuffersAssumption DEF Called, Made
  <2>3. CASE length <= ReadableBytes(buf[n])
    <3>1. SubSeq(Content(buf[n]), length + 1, length) = <<>>
      BY <2>2, SubSeqEmpty
    <3>2. buf' = [buf EXCEPT ![n] = Advance(@, length)]
      BY <2>1, <2>3
    <3> QED
      BY <2>2, <2>3, <3>1, <3>2, DequeueStep DEF OneQueue
  <2>4. CASE ~(length <= ReadableBytes(buf[n]))
    BY <2>1, <2>2, <2>4, NoQueueChanges, NothingStep
  <2> QED
    BY <2>3, <2>4
<1>7. CASE ReadUTF8(n)
  <2> DEFINE b == buf[n]
             body == Advance(b, ShortSize)
             length == StringLength(b)
  <2>1. /\ HoldsString(b)
        /\ buf' = [buf EXCEPT ![n] = Advance(body, length)]
        /\ call'.got = Slice(body, body.readerIndex, length)
    BY <1>7 DEF ReadUTF8, Made
  <2>2. length \in Nat /\ ShortSize \in Nat /\ ShortSize + length <= ReadableBytes(b)
    BY <1>0, <2>1, SizeAssumption DEF HoldsString
  <2> HIDE DEF length
  <2>3. /\ Advance(body, length) = Advance(b, ShortSize + length)
        /\ body.data = b.data /\ body.readerIndex = b.readerIndex + ShortSize
    <3>1. b = [len |-> b.len, data |-> b.data,
               readerIndex |-> b.readerIndex, writerIndex |-> b.writerIndex]
      BY <1>0 DEF Sound, IsBuffer
    <3> DEFINE r == b.readerIndex
    <3>2. r \in Nat
      BY <1>0
    <3> HIDE DEF b, r
    <3>3. \A k : Advance(b, k) = [len |-> b.len, data |-> b.data,
                                 readerIndex |-> r + k, writerIndex |-> b.writerIndex]
      BY <3>1 DEF Advance, r
    <3>4. Advance(body, length)
            = [len |-> b.len, data |-> b.data,
               readerIndex |-> (r + ShortSize) + length, writerIndex |-> b.writerIndex]
      <4>1. body = [len |-> b.len, data |-> b.data,
                    readerIndex |-> r + ShortSize, writerIndex |-> b.writerIndex]
        BY <3>3
      <4> HIDE DEF body
      <4> QED
        BY <4>1 DEF Advance
    <3>5. (r + ShortSize) + length = r + (ShortSize + length)
      BY <2>2, <3>2
    <3> QED
      BY <3>3, <3>4, <3>5 DEF r
  <2>4. Slice(body, body.readerIndex, length) = Slice(b, b.readerIndex + ShortSize, length)
    BY <2>3 DEF Slice
  <2>5. Slice(b, b.readerIndex + ShortSize, length)
          = SubSeq(Content(b), ShortSize + 1, ShortSize + length)
    BY <1>0, <2>2, SliceContent
  <2>6. buf' = [buf EXCEPT ![n] = Advance(@, ShortSize + length)]
    BY <2>1, <2>3
  <2>7. ShortSize + length \in Nat /\ ShortSize \in 0..(ShortSize + length)
    BY <2>2
  <2>8. call'.got = SubSeq(Content(buf[n]), ShortSize + 1, ShortSize + length)
    BY <2>1, <2>4, <2>5
  <2> QED
    BY <2>2, <2>6, <2>7, <2>8, DequeueStep DEF OneQueue
<1> QED
  BY <1>2, <1>3, <1>4, <1>5, <1>6, <1>7

(* A copy of one buffer to another moves its first bytes.                    *)
LEMMA MoveSteps ==
  ASSUME Inv, NEW n \in Names, NEW src \in Names,
         WriteBuffer(n, src) \/ WriteBufferBytes(n, src)
  PROVE  Queue!Move(src, n) \/ Queue!NothingToGive
<1> DEFINE bytes == Content(buf[src])
<1>1. /\ Sound(buf[src]) /\ bytes \in Seq(Byte)
      /\ Len(bytes) = ReadableBytes(buf[src]) /\ ReadableBytes(buf[src]) \in Nat
      /\ buf[src].readerIndex \in Nat
  BY ContentOf DEF Inv
<1>2. Called(n).got = <<>>
  BY DEF Called, Made
<1>3. CASE WriteBuffer(n, src)
  <2>1. /\ n # src /\ call'.got = <<>>
        /\ buf' = [buf EXCEPT ![n] = Write(@, bytes), ![src] = Advance(@, Len(Content(@)))]
    BY <1>2, <1>3 DEF WriteBuffer
  <2>2. bytes = SubSeq(bytes, 1, Len(bytes))
    BY <1>1, WholePart
  <2> DEFINE length == Len(bytes)
  <2>3. buf' = [buf EXCEPT ![n] = Write(@, SubSeq(bytes, 1, length)),
                           ![src] = Advance(@, length)]
    BY <2>1, <2>2
  <2>4. length \in Nat /\ length <= ReadableBytes(buf[src])
    BY <1>1
  <2> HIDE DEF length
  <2> QED
    BY <2>1, <2>3, <2>4, MoveStep
<1>4. CASE WriteBufferBytes(n, src)
  <2>1. PICK length \in 1..MaxCapacity :
          /\ n # src /\ length <= ReadableBytes(buf[src])
          /\ buf' = [buf EXCEPT ![n] = Write(@, Slice(buf[src], buf[src].readerIndex, length)),
                               ![src] = Advance(@, length)]
          /\ call' = Called(n)
    BY <1>4 DEF WriteBufferBytes
  <2>2. length \in Nat /\ 0 + length = length /\ buf[src].readerIndex + 0 = buf[src].readerIndex
    BY <1>1, BuffersAssumption
  <2>3. Slice(buf[src], buf[src].readerIndex + 0, length) = SubSeq(bytes, 0 + 1, 0 + length)
    BY <1>1, <2>1, <2>2, SliceContent
  <2>4. Slice(buf[src], buf[src].readerIndex, length) = SubSeq(bytes, 1, length)
    BY <2>2, <2>3
  <2>5. buf' = [buf EXCEPT ![n] = Write(@, SubSeq(bytes, 1, length)), ![src] = Advance(@, length)]
    BY <2>1, <2>4
  <2> QED
    BY <1>2, <2>1, <2>2, <2>5, MoveStep
<1> QED
  BY <1>3, <1>4

(* Every step on the buffers is one of the queues, or changes none of them.   *)
LEMMA QueueStep == Inv /\ [Next]_vars => [Queue!Next]_<<Bytes, call.got>>
<1>1. SUFFICES ASSUME Inv, [Next]_vars PROVE [Queue!Next]_<<Bytes, call.got>>
  OBVIOUS
<1>2. ASSUME NEW n \in Names, OneQueue(n) PROVE Queue!Next
  BY <1>2 DEF OneQueue, Queue!Next
<1>3. Queue!NothingToGive => Queue!Next
  BY DEF Queue!Next
<1>4. \A n \in Names : Called(n).got = <<>> /\ Sound(buf[n])
  BY <1>1 DEF Called, Made, Inv
<1>5. ASSUME NEW n \in Names, ClearBuffer(n) PROVE Queue!Next
  <2>1. Bytes' = [Bytes EXCEPT ![n] = <<>>]
    BY <1>1, <1>4, <1>5, OneQueueChanges, ClearContent DEF ClearBuffer
  <2>2. Queue!Drop(n)
    BY <1>4, <1>5, <2>1 DEF ClearBuffer, Queue!Drop, Bytes
  <2> QED
    BY <1>2, <2>2 DEF OneQueue
<1>6. ASSUME NEW n \in Names, SetCapacity(n) PROVE Queue!Next
  <2>1. PICK capacity \in 0..MaxCapacity : buf' = [buf EXCEPT ![n] = Capacity(buf[n], capacity)]
    BY <1>6 DEF SetCapacity
  <2>2. Content(Capacity(buf[n], capacity)) = Content(buf[n])
    BY <1>4, CapacityContent, BuffersAssumption
  <2>3. Bytes' = [Bytes EXCEPT ![n] = Content(buf[n])]
    BY <1>1, <2>1, <2>2, OneQueueChanges
  <2>4. UNCHANGED Bytes /\ call'.got = <<>>
    BY <1>4, <1>6, <2>3 DEF SetCapacity, Bytes
  <2> QED
    BY <1>3, <2>4, NothingStep
<1>7. ASSUME NEW n \in Names, NEW copy \in Names, CopyTo(n, copy) PROVE Queue!Next
  <2>1. Bytes' = [Bytes EXCEPT ![copy] = Bytes[n]]
    BY <1>1, <1>7, OneQueueChanges DEF CopyTo, Bytes
  <2>2. Queue!Duplicate(n, copy)
    BY <1>4, <1>7, <2>1 DEF CopyTo, Queue!Duplicate, Bytes
  <2> QED
    BY <2>2 DEF Queue!Next
<1>8. ASSUME NEW n \in Names, NEW at \in Nat, NEW bytes \in Seq(Byte), call'.got = <<>>,
             \/ buf' = [buf EXCEPT ![n] = Store(@, at, bytes)]
             \/ UNCHANGED buf
      PROVE  Queue!Next
  <2>1. Queue!Overwrite(n) \/ Queue!NothingToGive
    BY <1>1, <1>8, OverwriteStep
  <2> QED
    BY <1>2, <1>3, <2>1 DEF OneQueue
<1>9. ASSUME NEW n \in Names, SetNumber(n) PROVE Queue!Next
  <2>1. PICK v \in Numbers, size \in {1, ShortSize, IntSize}, index \in 0..MaxCapacity :
          /\ buf' = IF index + size <= buf[n].len
                    THEN [buf EXCEPT ![n] = Store(@, index, ToBytes(v, size))] ELSE buf
          /\ call' = Called(n)
    BY <1>9 DEF SetNumber
  <2>2. ToBytes(v, size) \in Seq(Byte) /\ index \in Nat
    BY BytesOfNumber, SizeAssumption, BuffersAssumption
  <2> QED
    BY <1>4, <1>8, <2>1, <2>2
<1>10. ASSUME NEW n \in Names, SetBytes(n) PROVE Queue!Next
  <2>1. PICK bytes \in Arrays, index \in 0..MaxCapacity :
          /\ buf' = IF index + Len(bytes) <= Len(bytes) /\ Len(bytes) <= buf[n].len
                    THEN [buf EXCEPT ![n] = Store(@, index, bytes)] ELSE buf
          /\ call' = Called(n)
    BY <1>10 DEF SetBytes
  <2> QED
    BY <1>4, <1>8, <2>1, BuffersAssumption
<1>11. ASSUME NEW n \in Names, NEW other \in Names,
              WriteBuffer(n, other) \/ WriteBufferBytes(n, other)
       PROVE  Queue!Next
  <2>1. Queue!Move(other, n) \/ Queue!NothingToGive
    BY <1>1, <1>11, MoveSteps
  <2> QED
    BY <1>3, <2>1 DEF Queue!Next
<1>12. CASE UNCHANGED vars
  BY <1>12 DEF vars, Bytes
<1> QED
  BY <1>1, <1>2, <1>3, <1>5, <1>6, <1>7, <1>9, <1>10, <1>11, <1>12, WriteSteps, ReadSteps
  DEF Next

(* In whatever order the buffers are called, their readable bytes are queues:  *)
(* bytes come out in the order they went in, each once, and none is lost but   *)
(* by a clear, or by an overwrite or a copy that puts others in their place.  *)
THEOREM BuffersAreQueues == Spec => ImplementsByteQueue
<1>1. Inv /\ [Next]_vars => [Queue!Next]_<<[n \in Names |-> Content(buf[n])], call.got>>
  BY QueueStep DEF Bytes
<1> QED
  BY <1>1, InitInv, StepInv, InitQueue, PTL DEF Spec, ImplementsByteQueue, Queue!Spec

-----------------------------------------------------------------------------
(* An int that was written is in the array where the writer was.              *)
LEMMA WriteIntSurvives ==
  ASSUME NEW n \in Names, Inv, WriteInt(n)
  PROVE  IntsSurvive'
<1>1. PICK v \in Numbers : Put(n, ToBytes(v, IntSize)) /\ call' = Made("WriteInt", n, v, <<>>)
  BY DEF WriteInt
<1> DEFINE bytes == ToBytes(v, IntSize)
           b == buf[n]
           w == Write(b, bytes)
<1>2. /\ v \in Int /\ IntSize \in Nat \ {0}
      /\ -Power[IntSize] <= 2 * v /\ 2 * v < Power[IntSize]
  BY BuffersAssumption, SizeAssumption, IntsAssumption
<1>3. bytes \in Seq(Byte) /\ Len(bytes) = IntSize /\ Number(bytes) = v
  BY <1>2, BytesOfNumber, NumberSurvives
<1>4. Sound(b) /\ n \in DOMAIN buf
  BY DEF Inv
<1>5. buf'[n] = w /\ call'.op = "WriteInt" /\ call'.on = n /\ call'.number = v
  BY <1>1, <1>4 DEF Put, Made
<1> HIDE DEF bytes, w, b
<1>6. /\ Sound(w) /\ w.writerIndex = b.writerIndex + IntSize
      /\ \A i \in 1..IntSize : w.data[b.writerIndex + i - 1] = bytes[i]
  BY <1>3, <1>4, WriteIsSound DEF w
<1>7. /\ b.writerIndex \in Nat /\ w.writerIndex - IntSize = b.writerIndex
      /\ b.writerIndex + IntSize - 1 < w.len /\ b.writerIndex + IntSize <= w.len
  BY <1>2, <1>4, <1>6 DEF Sound, IsBuffer
<1>8. Slice(w, b.writerIndex, IntSize) = bytes
  <2>1. /\ Slice(w, b.writerIndex, IntSize) \in Seq(Byte)
        /\ Len(Slice(w, b.writerIndex, IntSize)) = IntSize
    BY <1>2, <1>6, <1>7, SliceIsBytes DEF Sound
  <2>2. \A i \in 1..IntSize : Slice(w, b.writerIndex, IntSize)[i] = bytes[i]
    BY <1>6 DEF Slice
  <2> QED
    BY <1>3, <2>1, <2>2, SeqEqual
<1>9. GetInt(w, w.writerIndex - IntSize) = v
  BY <1>3, <1>7, <1>8 DEF GetInt
<1> QED
  BY <1>5, <1>9 DEF IntsSurvive

LEMMA SurvivalStep == Inv /\ IntsSurvive /\ [Next]_vars => IntsSurvive'
<1> SUFFICES ASSUME Inv, IntsSurvive, [Next]_vars PROVE IntsSurvive'
  OBVIOUS
<1>1. ASSUME call'.op # "WriteInt" PROVE IntsSurvive'
  BY <1>1 DEF IntsSurvive
<1>2. \A n \in Names : Called(n).op # "WriteInt"
  BY DEF Called, Made
<1>3. ASSUME NEW n \in Names, NEW op, NEW length, NEW possible, op # "WriteInt",
             Give(n, op, length, possible)
      PROVE  call'.op # "WriteInt"
  BY <1>3 DEF Give, Made
<1>4. CASE UNCHANGED vars
  BY <1>4 DEF vars, IntsSurvive
<1>5. ASSUME NEW n \in Names,
             \/ WriteByte(n) \/ WriteShort(n) \/ WriteArray(n) \/ SkipBytes(n) \/ ClearBuffer(n)
             \/ SetCapacity(n) \/ SetNumber(n) \/ SetBytes(n) \/ WriteUTF8(n)
      PROVE  IntsSurvive'
  <2>1. call' = Called(n)
    BY <1>5 DEF WriteByte, WriteShort, WriteArray, SkipBytes, ClearBuffer, SetCapacity,
                SetNumber, SetBytes, WriteUTF8
  <2> QED
    BY <1>1, <1>2, <2>1
<1>6. ASSUME NEW n \in Names, ReadByte(n) \/ ReadInt(n) \/ ReadShort(n) \/ ReadByteArray(n) \/ ReadUTF8(n)
      PROVE  IntsSurvive'
  <2>1. call'.op # "WriteInt"
    BY <1>3, <1>6 DEF ReadByte, ReadInt, ReadShort, ReadByteArray, ReadUTF8, Made
  <2> QED
    BY <1>1, <2>1
<1>7. ASSUME NEW n \in Names, NEW other \in Names,
             WriteBuffer(n, other) \/ WriteBufferBytes(n, other) \/ CopyTo(n, other)
      PROVE  IntsSurvive'
  <2>1. call' = Called(n)
    BY <1>7 DEF WriteBuffer, WriteBufferBytes, CopyTo
  <2> QED
    BY <1>1, <1>2, <2>1
<1> QED
  BY <1>4, <1>5, <1>6, <1>7, WriteIntSurvives DEF Next

(* An int that was written is read back at the place it was written to, in     *)
(* whatever number of bytes of whatever base, also when the array had to grow. *)
THEOREM WrittenIsRead == Spec => []IntsSurvive
<1>1. Init => IntsSurvive
  BY DEF Init, IntsSurvive, Called, Made
<1> QED
  BY <1>1, InitInv, StepInv, SurvivalStep, PTL DEF Spec

=============================================================================
