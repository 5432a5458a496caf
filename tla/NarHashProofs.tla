--------------------------- MODULE NarHashProofs ---------------------------
(***************************************************************************)
(* Theorems about NarHash.tla for hashes of every length.                  *)
(***************************************************************************)
EXTENDS NarHash, SequenceTheorems, TLAPS

\* Every character begins at a bit that is in the hash.
LEMMA CharBegins ==
    ASSUME NEW size \in Nat \ {0}, NEW k \in Nat, k < TextLen(size)
    PROVE  ByteOf(k) \in Nat /\ ByteOf(k) < size
<1>1. 5 * k <= 8 * size - 1
  BY DEF TextLen
<1>2. QED
  BY <1>1 DEF ByteOf

-----------------------------------------------------------------------------
\* The arithmetic of a character: shifts and sums of bytes, read as bits.
Bits == 0 .. 1

\* The provers have no theory of 2^j; these are all that a byte needs.
LEMMA Powers ==
    /\ 2^0 = 1 /\ 2^1 = 2 /\ 2^2 = 4 /\ 2^3 = 8
    /\ 2^4 = 16 /\ 2^5 = 32 /\ 2^6 = 64 /\ 2^7 = 128
OBVIOUS

\* A bit is 0 or 1.
LEMMA BitIsBit ==
    ASSUME NEW v \in Nat, NEW i \in 0 .. 7
    PROVE  BitIn(v, i) \in Bits
<1>1. i = 0 \/ i = 1 \/ i = 2 \/ i = 3 \/ i = 4 \/ i = 5 \/ i = 6 \/ i = 7
  OBVIOUS
<1>2. QED
  BY <1>1, Powers DEF BitIn, Bits

\* The number that has these bits, the lowest first.
FromBits(a, b, c, d, e, f, g, h) ==
    a + 2 * b + 4 * c + 8 * d + 16 * e + 32 * f + 64 * g + 128 * h

\* Every byte is the number that has its bits.
LEMMA ByteFromBits ==
    ASSUME NEW v \in 0 .. 255
    PROVE  \E a \in Bits, b \in Bits, c \in Bits, d \in Bits,
              e \in Bits, f \in Bits, g \in Bits, h \in Bits :
                /\ v = FromBits(a, b, c, d, e, f, g, h)
                /\ BitIn(v, 0) = a /\ BitIn(v, 1) = b /\ BitIn(v, 2) = c /\ BitIn(v, 3) = d
                /\ BitIn(v, 4) = e /\ BitIn(v, 5) = f /\ BitIn(v, 6) = g /\ BitIn(v, 7) = h
<1>1. v = FromBits(BitIn(v, 0), BitIn(v, 1), BitIn(v, 2), BitIn(v, 3),
                   BitIn(v, 4), BitIn(v, 5), BitIn(v, 6), BitIn(v, 7))
  BY Powers DEF BitIn, FromBits
<1>2. /\ BitIn(v, 0) \in Bits /\ BitIn(v, 1) \in Bits /\ BitIn(v, 2) \in Bits
      /\ BitIn(v, 3) \in Bits /\ BitIn(v, 4) \in Bits /\ BitIn(v, 5) \in Bits
      /\ BitIn(v, 6) \in Bits /\ BitIn(v, 7) \in Bits
  BY BitIsBit
<1>3. QED
  BY <1>1, <1>2, Zenon

\* A number made of five bits has those bits, and is the place of a character.
LEMMA FiveBits ==
    ASSUME NEW v, NEW a \in Bits, NEW b \in Bits, NEW c \in Bits, NEW d \in Bits,
           NEW e \in Bits, v = a + 2 * b + 4 * c + 8 * d + 16 * e
    PROVE  /\ v \in 0 .. 31
           /\ BitIn(v, 0) = a /\ BitIn(v, 1) = b /\ BitIn(v, 2) = c
           /\ BitIn(v, 3) = d /\ BitIn(v, 4) = e
  BY Powers DEF BitIn, Bits

\* Bit i of byte x followed by byte y.
BitOfTwo(x, y, i) == IF i < 8 THEN BitIn(x, i) ELSE BitIn(y, i - 8)

\* A character that begins at bit b of x, with y the byte after x, has the five bits from
\* there on: those of x, and after its last one those of y.
LEMMA BitsOfChar ==
    ASSUME NEW x \in 0 .. 255, NEW y \in 0 .. 255, NEW b \in 0 .. 7,
           NEW v, v = (Shr(x, b) + Shl(y, 8 - b)) % 32,
           NEW j \in 0 .. 4
    PROVE  /\ v \in 0 .. 31
           /\ BitIn(v, j) = BitOfTwo(x, y, b + j)
<1>1. PICK x0 \in Bits, x1 \in Bits, x2 \in Bits, x3 \in Bits,
           x4 \in Bits, x5 \in Bits, x6 \in Bits, x7 \in Bits :
         /\ x = FromBits(x0, x1, x2, x3, x4, x5, x6, x7)
         /\ BitIn(x, 0) = x0 /\ BitIn(x, 1) = x1 /\ BitIn(x, 2) = x2 /\ BitIn(x, 3) = x3
         /\ BitIn(x, 4) = x4 /\ BitIn(x, 5) = x5 /\ BitIn(x, 6) = x6 /\ BitIn(x, 7) = x7
  BY ByteFromBits
<1>2. PICK y0 \in Bits, y1 \in Bits, y2 \in Bits, y3 \in Bits,
           y4 \in Bits, y5 \in Bits, y6 \in Bits, y7 \in Bits :
         /\ y = FromBits(y0, y1, y2, y3, y4, y5, y6, y7)
         /\ BitIn(y, 0) = y0 /\ BitIn(y, 1) = y1 /\ BitIn(y, 2) = y2 /\ BitIn(y, 3) = y3
         /\ BitIn(y, 4) = y4 /\ BitIn(y, 5) = y5 /\ BitIn(y, 6) = y6 /\ BitIn(y, 7) = y7
  BY ByteFromBits
<1>3. /\ x = x0 + 2 * x1 + 4 * x2 + 8 * x3 + 16 * x4 + 32 * x5 + 64 * x6 + 128 * x7
      /\ x0 \in 0 .. 1 /\ x1 \in 0 .. 1 /\ x2 \in 0 .. 1 /\ x3 \in 0 .. 1
      /\ x4 \in 0 .. 1 /\ x5 \in 0 .. 1 /\ x6 \in 0 .. 1 /\ x7 \in 0 .. 1
  BY <1>1 DEF FromBits, Bits
<1>4. /\ y = y0 + 2 * y1 + 4 * y2 + 8 * y3 + 16 * y4 + 32 * y5 + 64 * y6 + 128 * y7
      /\ y0 \in 0 .. 1 /\ y1 \in 0 .. 1 /\ y2 \in 0 .. 1 /\ y3 \in 0 .. 1
      /\ y4 \in 0 .. 1 /\ y5 \in 0 .. 1 /\ y6 \in 0 .. 1 /\ y7 \in 0 .. 1
  BY <1>2 DEF FromBits, Bits
<1>5. CASE b = 0
  <2>1. v = (x \div 1 + (0)) % 32
    BY <1>5, Powers DEF Shr, Shl
  <2>2. v = x0 + 2 * x1 + 4 * x2 + 8 * x3 + 16 * x4
    BY <1>3, <1>4, <2>1
  <2>3. /\ v \in 0 .. 31
        /\ BitIn(v, 0) = x0 /\ BitIn(v, 1) = x1 /\ BitIn(v, 2) = x2
        /\ BitIn(v, 3) = x3 /\ BitIn(v, 4) = x4
    BY <1>3, <1>4, <2>2, FiveBits DEF Bits
  <2>4. QED
    BY <1>1, <1>2, <1>5, <2>3 DEF BitOfTwo
<1>6. CASE b = 1
  <2>1. v = (x \div 2 + ((y * 128) % 256)) % 32
    BY <1>6, Powers DEF Shr, Shl
  <2>2. v = x1 + 2 * x2 + 4 * x3 + 8 * x4 + 16 * x5
    BY <1>3, <1>4, <2>1
  <2>3. /\ v \in 0 .. 31
        /\ BitIn(v, 0) = x1 /\ BitIn(v, 1) = x2 /\ BitIn(v, 2) = x3
        /\ BitIn(v, 3) = x4 /\ BitIn(v, 4) = x5
    BY <1>3, <1>4, <2>2, FiveBits DEF Bits
  <2>4. QED
    BY <1>1, <1>2, <1>6, <2>3 DEF BitOfTwo
<1>7. CASE b = 2
  <2>1. v = (x \div 4 + ((y * 64) % 256)) % 32
    BY <1>7, Powers DEF Shr, Shl
  <2>2. v = x2 + 2 * x3 + 4 * x4 + 8 * x5 + 16 * x6
    BY <1>3, <1>4, <2>1
  <2>3. /\ v \in 0 .. 31
        /\ BitIn(v, 0) = x2 /\ BitIn(v, 1) = x3 /\ BitIn(v, 2) = x4
        /\ BitIn(v, 3) = x5 /\ BitIn(v, 4) = x6
    BY <1>3, <1>4, <2>2, FiveBits DEF Bits
  <2>4. QED
    BY <1>1, <1>2, <1>7, <2>3 DEF BitOfTwo
<1>8. CASE b = 3
  <2>1. v = (x \div 8 + ((y * 32) % 256)) % 32
    BY <1>8, Powers DEF Shr, Shl
  <2>2. v = x3 + 2 * x4 + 4 * x5 + 8 * x6 + 16 * x7
    BY <1>3, <1>4, <2>1
  <2>3. /\ v \in 0 .. 31
        /\ BitIn(v, 0) = x3 /\ BitIn(v, 1) = x4 /\ BitIn(v, 2) = x5
        /\ BitIn(v, 3) = x6 /\ BitIn(v, 4) = x7
    BY <1>3, <1>4, <2>2, FiveBits DEF Bits
  <2>4. QED
    BY <1>1, <1>2, <1>8, <2>3 DEF BitOfTwo
<1>9. CASE b = 4
  <2>1. v = (x \div 16 + ((y * 16) % 256)) % 32
    BY <1>9, Powers DEF Shr, Shl
  <2>2. v = x4 + 2 * x5 + 4 * x6 + 8 * x7 + 16 * y0
    BY <1>3, <1>4, <2>1
  <2>3. /\ v \in 0 .. 31
        /\ BitIn(v, 0) = x4 /\ BitIn(v, 1) = x5 /\ BitIn(v, 2) = x6
        /\ BitIn(v, 3) = x7 /\ BitIn(v, 4) = y0
    BY <1>3, <1>4, <2>2, FiveBits DEF Bits
  <2>4. QED
    BY <1>1, <1>2, <1>9, <2>3 DEF BitOfTwo
<1>10. CASE b = 5
  <2>1. v = (x \div 32 + ((y * 8) % 256)) % 32
    BY <1>10, Powers DEF Shr, Shl
  <2>2. v = x5 + 2 * x6 + 4 * x7 + 8 * y0 + 16 * y1
    <3>1. x \div 32 = x5 + 2 * x6 + 4 * x7
      BY <1>3
    <3>2. (y * 8) % 256 = 8 * y0 + 16 * y1 + 32 * (y2 + 2 * y3 + 4 * y4)
      BY <1>4
    <3>3. QED
      BY <1>3, <1>4, <2>1, <3>1, <3>2
  <2>3. /\ v \in 0 .. 31
        /\ BitIn(v, 0) = x5 /\ BitIn(v, 1) = x6 /\ BitIn(v, 2) = x7
        /\ BitIn(v, 3) = y0 /\ BitIn(v, 4) = y1
    BY <1>3, <1>4, <2>2, FiveBits DEF Bits
  <2>4. QED
    BY <1>1, <1>2, <1>10, <2>3 DEF BitOfTwo
<1>11. CASE b = 6
  <2>1. v = (x \div 64 + ((y * 4) % 256)) % 32
    BY <1>11, Powers DEF Shr, Shl
  <2>2. v = x6 + 2 * x7 + 4 * y0 + 8 * y1 + 16 * y2
    BY <1>3, <1>4, <2>1
  <2>3. /\ v \in 0 .. 31
        /\ BitIn(v, 0) = x6 /\ BitIn(v, 1) = x7 /\ BitIn(v, 2) = y0
        /\ BitIn(v, 3) = y1 /\ BitIn(v, 4) = y2
    BY <1>3, <1>4, <2>2, FiveBits DEF Bits
  <2>4. QED
    BY <1>1, <1>2, <1>11, <2>3 DEF BitOfTwo
<1>12. CASE b = 7
  <2>1. v = (x \div 128 + ((y * 2) % 256)) % 32
    BY <1>12, Powers DEF Shr, Shl
  <2>2. v = x7 + 2 * y0 + 4 * y1 + 8 * y2 + 16 * y3
    BY <1>3, <1>4, <2>1
  <2>3. /\ v \in 0 .. 31
        /\ BitIn(v, 0) = x7 /\ BitIn(v, 1) = y0 /\ BitIn(v, 2) = y1
        /\ BitIn(v, 3) = y2 /\ BitIn(v, 4) = y3
    BY <1>3, <1>4, <2>2, FiveBits DEF Bits
  <2>4. QED
    BY <1>1, <1>2, <1>12, <2>3 DEF BitOfTwo
<1>13. QED
  BY <1>5, <1>6, <1>7, <1>8, <1>9, <1>10, <1>11, <1>12

\* Where a character begins, and bits 5 k .. 5 k + 4 of the hash counted in bytes.
LEMMA PlaceOfBit ==
    ASSUME NEW k \in Nat, NEW j \in 0 .. 4
    PROVE  /\ BitOf(k) \in 0 .. 7
           /\ BitOf(k) + j < 8 => /\ (5 * k + j) \div 8 = ByteOf(k)
                                  /\ (5 * k + j) % 8 = BitOf(k) + j
           /\ BitOf(k) + j >= 8 => /\ (5 * k + j) \div 8 = ByteOf(k) + 1
                                   /\ (5 * k + j) % 8 = BitOf(k) + j - 8
  BY DEF BitOf, ByteOf

\* A byte of zeros has no bit.
LEMMA ZeroByte ==
    /\ \A i \in 0 .. 7 : BitIn(0, i) = 0
    /\ \A i \in 1 .. 8 : Shl(0, i) = 0
<1>1. \A i \in 0 .. 7 : BitIn(0, i) = 0
  <2>1. /\ BitIn(0, 0) = 0 /\ BitIn(0, 1) = 0 /\ BitIn(0, 2) = 0 /\ BitIn(0, 3) = 0
        /\ BitIn(0, 4) = 0 /\ BitIn(0, 5) = 0 /\ BitIn(0, 6) = 0 /\ BitIn(0, 7) = 0
    BY Powers DEF BitIn
  <2>2. QED
    BY <2>1
<1>2. ASSUME NEW i \in 1 .. 8 PROVE Shl(0, i) = 0
  <2>1. i = 1 \/ i = 2 \/ i = 3 \/ i = 4 \/ i = 5 \/ i = 6 \/ i = 7 \/ i = 8
    OBVIOUS
  <2>2. QED
    BY <2>1, Powers DEF Shl
<1>3. QED
  BY <1>1, <1>2

\* What is at a place of the hash is a byte.
LEMMA AtIsByte ==
    ASSUME bytes \in Seq(0 .. 255), NEW i \in Nat, i < Len(bytes)
    PROVE  At(i) \in 0 .. 255
<1>1. i + 1 \in 1 .. Len(bytes)
  OBVIOUS
<1>2. bytes[i + 1] \in 0 .. 255
  BY <1>1, ElementOfSeq
<1>3. QED
  BY <1>2, Zenon DEF At

\* Each character has its five bits of the hash.
LEMMA CharIsRight ==
    ASSUME bytes \in Seq(0 .. 255), bytes # << >>,
           NEW k \in Nat, ByteOf(k) < Len(bytes)
    PROVE  /\ Char(k) \in 0 .. 31
           /\ \A j \in 0 .. 4 : BitIn(Char(k), j) = HashBit(5 * k + j)
<1> DEFINE b == BitOf(k)
           x == At(ByteOf(k))
           y == IF LastByte(ByteOf(k)) THEN 0 ELSE At(ByteOf(k) + 1)
<1>1. b \in 0 .. 7 /\ ByteOf(k) \in Nat /\ Len(bytes) \in Nat
  BY DEF BitOf, ByteOf
<1>2. x \in 0 .. 255 /\ y \in 0 .. 255
  <2>1. x \in 0 .. 255
    BY <1>1, AtIsByte
  <2>2. CASE LastByte(ByteOf(k))
    BY <2>1, <2>2
  <2>3. CASE ~ LastByte(ByteOf(k))
    <3>1. ByteOf(k) + 1 \in Nat /\ ByteOf(k) + 1 < Len(bytes)
      BY <1>1, <2>3 DEF LastByte
    <3>2. At(ByteOf(k) + 1) \in 0 .. 255
      BY <3>1, AtIsByte
    <3>3. QED
      BY <2>1, <2>3, <3>2
  <2>4. QED
    BY <2>2, <2>3
<1>3. Char(k) = (Shr(x, b) + Shl(y, 8 - b)) % 32
  BY <1>1, ZeroByte DEF Char, V1, V2
<1>4. ASSUME NEW j \in 0 .. 4
      PROVE  HashBit(5 * k + j) = BitOfTwo(x, y, b + j)
  <2> DEFINE m == 5 * k + j
  <2>1. m \in Nat /\ (m < 8 * Len(bytes) <=> m \div 8 < Len(bytes))
    BY <1>1
  <2>2. CASE b + j < 8
    <3>1. m \div 8 = ByteOf(k) /\ m % 8 = b + j
      BY <2>2, PlaceOfBit
    <3>2. QED
      BY <1>1, <2>1, <2>2, <3>1 DEF HashBit, At, BitOfTwo
  <2>3. CASE b + j >= 8
    <3>1. m \div 8 = ByteOf(k) + 1 /\ m % 8 = b + j - 8 /\ b + j - 8 \in 0 .. 7
      <4>1. b + j - 8 \in 0 .. 7
        BY <1>1, <2>3
      <4>2. QED
        BY <2>3, <4>1, PlaceOfBit
    <3>2. CASE LastByte(ByteOf(k))
      <4>1. ~ (m < 8 * Len(bytes))
        BY <1>1, <2>1, <3>1, <3>2 DEF LastByte
      <4>2. QED
        <5>1. HashBit(m) = 0
          BY <4>1 DEF HashBit
        <5>2. BitIn(y, b + j - 8) = 0
          BY <3>1, <3>2, ZeroByte, Zenon
        <5>3. QED
          BY <1>1, <2>3, <5>1, <5>2 DEF BitOfTwo
    <3>3. CASE ~ LastByte(ByteOf(k))
      <4>1. m < 8 * Len(bytes)
        BY <1>1, <2>1, <3>1, <3>3 DEF LastByte
      <4>2. QED
        <5>1. HashBit(m) = BitIn(bytes[ByteOf(k) + 1 + 1], b + j - 8)
          BY <3>1, <4>1 DEF HashBit
        <5>2. y = bytes[ByteOf(k) + 1 + 1]
          BY <3>3 DEF At
        <5>3. HashBit(m) = BitIn(y, b + j - 8)
          BY <5>1, <5>2, Zenon
        <5>4. BitOfTwo(x, y, b + j) = BitIn(y, b + j - 8)
          <6> HIDE DEF b, x, y
          <6>1. QED
            BY <1>1, <2>3 DEF BitOfTwo
        <5>5. QED
          BY <5>3, <5>4, Zenon
    <3>4. QED
      BY <3>2, <3>3
  <2>4. QED
    BY <1>1, <2>2, <2>3
<1> HIDE DEF b, x, y
<1>5. ASSUME NEW j \in 0 .. 4
      PROVE  /\ Char(k) \in 0 .. 31
             /\ BitIn(Char(k), j) = BitOfTwo(x, y, b + j)
  <2>1. b \in 0 .. 7 /\ x \in 0 .. 255 /\ y \in 0 .. 255
    BY <1>1, <1>2
  <2> DEFINE w == (Shr(x, b) + Shl(y, 8 - b)) % 32
  <2>2. w = (Shr(x, b) + Shl(y, 8 - b)) % 32
    OBVIOUS
  <2> HIDE DEF w
  <2>3. w \in 0 .. 31
    BY <2>1, <2>2, BitsOfChar, Zenon
  <2>4. BitIn(w, j) = BitOfTwo(x, y, b + j)
    BY <2>1, <2>2, BitsOfChar, Zenon
  <2>5. QED
    BY <1>3, <2>3, <2>4, Zenon DEF w
<1>6. Char(k) \in 0 .. 31
  <2>1. 0 \in 0 .. 4
    OBVIOUS
  <2>2. QED
    BY <1>5, <2>1
<1>7. QED
  BY <1>4, <1>5, <1>6, Zenon

-----------------------------------------------------------------------------
\* Only a hash that is not empty gets as far as its characters, and no more of
\* them are left to be made than its text has.
MapFits == pc = "map" => bytes # << >> /\ n <= TextLen(Len(bytes))

Counted ==
    /\ bytes \in Seq(0 .. 255)
    /\ n \in Nat

\* What has been made: the characters from the last of the text on, each the one
\* that the code makes for its place.
Made ==
    /\ pc = "start" => data = << >> /\ n = 0
    /\ pc = "done" => n = 0
    /\ pc \in { "map", "done" } =>
          /\ bytes # << >>
          /\ Len(data) + n = TextLen(Len(bytes))
          /\ \A i \in 1 .. Len(data) : data[i] = Char(TextLen(Len(bytes)) - i)

IInv == TypeOK /\ Counted /\ MapFits /\ Made /\ PanicsOnlyIfEmpty

\* The initial states have made nothing.
LEMMA InitIInv == Init => IInv
  BY InputAssumption DEF Init, IInv, TypeOK, Counted, MapFits, Made, PanicsOnlyIfEmpty

\* A step makes the next character, and it is one of the 32.
LEMMA NextIInv == IInv /\ [Next]_vars => IInv'
<1> SUFFICES ASSUME IInv, [Next]_vars PROVE IInv'
  OBVIOUS
<1> USE DEF IInv, Counted, MapFits, PanicsOnlyIfEmpty
<1>1. CASE Start
  <2>1. CASE bytes = << >>
    BY <1>1, <2>1 DEF Start, TypeOK, Made
  <2>2. CASE bytes # << >>
    <3>1. Len(bytes) \in Nat \ {0}
      BY <2>2
    <3>2. TextLen(Len(bytes)) \in Nat
      BY <3>1 DEF TextLen
    <3>3. pc' = "map" /\ n' = TextLen(Len(bytes)) /\ bytes' = bytes /\ data' = << >>
      BY <1>1, <2>2 DEF Start, Made
    <3>4. QED
      BY <2>2, <3>2, <3>3 DEF TypeOK, Made
  <2>3. QED
    BY <2>1, <2>2
<1>2. CASE Map
  <2>1. bytes # << >> /\ Len(bytes) \in Nat \ {0}
    BY <1>2 DEF Map
  <2>2. n - 1 \in Nat /\ n - 1 < TextLen(Len(bytes))
    BY <1>2, <2>1 DEF Map, TextLen
  <2>3. ByteOf(n - 1) \in Nat /\ ByteOf(n - 1) < Len(bytes)
    BY <2>1, <2>2, CharBegins
  <2>4. InBounds(n - 1)
    BY <2>1, <2>3 DEF InBounds, Indexed, LastByte
  <2>5. /\ pc = "map" /\ pc' = "map" /\ bytes' = bytes /\ n' = n - 1
        /\ data' = Append(data, Char(n - 1))
    BY <1>2, <2>4 DEF Map
  <2>6. Char(n - 1) \in 0 .. 31
    BY <2>1, <2>2, <2>3, CharIsRight
  <2>7. TypeOK'
    BY <2>2, <2>5, <2>6 DEF TypeOK
  <2>8. Made'
    <3> DEFINE len == TextLen(Len(bytes))
    <3>1. len \in Nat /\ Len(data) + n = len
      BY <2>1, <2>5 DEF Made, TextLen
    <3>2. /\ Len(data) \in Nat /\ Len(data') = Len(data) + 1
          /\ data'[Len(data) + 1] = Char(n - 1)
          /\ \A i \in 1 .. Len(data) : data'[i] = data[i]
      BY <2>5 DEF TypeOK
    <3>3. \A k : Char(k)' = Char(k)
      BY <2>5 DEF Char, V1, V2, At, LastByte
    <3>4. TextLen(Len(bytes))' = len
      BY <2>5
    <3> HIDE DEF len
    <3>5. ASSUME NEW i \in 1 .. Len(data') PROVE data'[i] = Char(len - i)
      <4>1. CASE i = Len(data) + 1
        <5>1. n - 1 = len - i
          BY <2>2, <3>1, <3>2, <4>1
        <5>2. QED
          BY <3>2, <4>1, <5>1, Zenon
      <4>2. CASE i \in 1 .. Len(data)
        BY <2>5, <3>2, <4>2, Zenon DEF Made, len
      <4>3. QED
        BY <3>2, <4>1, <4>2
    <3>6. Len(data') + n' = len
      <4>1. n \in Nat /\ Len(data') = Len(data) + 1 /\ n' = n - 1
        BY <2>5, <3>2
      <4>2. Len(data) + 1 + (n - 1) = len
        BY <3>1, <3>2, <4>1
      <4>3. QED
        BY <4>1, <4>2, Zenon
    <3>7. QED
      BY <2>1, <2>5, <3>3, <3>4, <3>5, <3>6 DEF Made
  <2>9. QED
    BY <2>1, <2>2, <2>5, <2>7, <2>8 DEF TextLen
<1>3. CASE Collect
  <2>1. \A k : Char(k)' = Char(k)
    BY <1>3 DEF Collect, Char, V1, V2, At, LastByte
  <2>2. QED
    BY <1>3, <2>1 DEF Collect, TypeOK, Made
<1>4. CASE Rest \/ UNCHANGED vars
  <2>1. UNCHANGED << pc, bytes, n, data >>
    BY <1>4 DEF Rest, vars
  <2>2. \A k : Char(k)' = Char(k)
    BY <2>1 DEF Char, V1, V2, At, LastByte
  <2>3. QED
    BY <2>1, <2>2 DEF TypeOK, Made
<1>5. QED
  BY <1>1, <1>2, <1>3, <1>4 DEF Next

\* The invariant holds throughout.
THEOREM IInvInductive == Spec => []IInv
  BY InitIInv, NextIInv, PTL DEF Spec

\* What is made is characters, for hashes of every length: lib.rs:230 never indexes
\* BASE32_CHARS beyond its end, and the count of what is left never goes below 0.
THEOREM TypeCorrect == Spec => []TypeOK
<1>1. IInv => TypeOK
  BY DEF IInv
<1>2. QED
  BY IInvInductive, <1>1, PTL

\* from_bytes panics for the empty hash and no other, whatever its length: the
\* two indexing expressions of lib.rs:222-227 are always within the bytes.
THEOREM PanicsForNothingElse == Spec => []PanicsOnlyIfEmpty
<1>1. IInv => PanicsOnlyIfEmpty
  BY DEF IInv
<1>2. QED
  BY IInvInductive, <1>1, PTL

\* The text of a hash of any length has every bit of it in its place, and 0 in the
\* places beyond: the loop of lib.rs:215-231 is the base-32 encoding by definition.
THEOREM EveryBitInItsPlace == Spec => []EncodesEveryBit
<1>1. IInv => EncodesEveryBit
  <2> SUFFICES ASSUME IInv, pc = "done"
               PROVE  /\ 5 * Len(data) >= 8 * Len(bytes)
                      /\ \A m \in 0 .. 5 * Len(data) - 1 : TextBit(m) = HashBit(m)
    BY DEF EncodesEveryBit
  <2> DEFINE len == TextLen(Len(bytes))
  <2>1. /\ bytes \in Seq(0 .. 255) /\ bytes # << >> /\ Len(bytes) \in Nat \ {0}
        /\ Len(data) = len /\ len \in Nat
        /\ \A i \in 1 .. Len(data) : data[i] = Char(len - i)
    BY DEF IInv, Made, Counted, TypeOK
  <2>2. 5 * len >= 8 * Len(bytes)
    BY <2>1 DEF TextLen
  <2>3. ASSUME NEW m \in 0 .. 5 * Len(data) - 1 PROVE TextBit(m) = HashBit(m)
    <3> DEFINE k == m \div 5
               j == m % 5
    <3>1. /\ k \in Nat /\ k < len /\ j \in 0 .. 4 /\ m = 5 * k + j
          /\ Len(data) - k \in 1 .. Len(data) /\ len - (Len(data) - k) = k
      BY <2>1
    <3>2. TextBit(m) = BitIn(Char(k), j)
      BY <2>1, <3>1 DEF TextBit
    <3>3. ByteOf(k) < Len(bytes)
      BY <2>1, <3>1, CharBegins
    <3>4. BitIn(Char(k), j) = HashBit(5 * k + j)
      BY <2>1, <3>1, <3>3, CharIsRight
    <3>5. QED
      BY <3>1, <3>2, <3>4
  <2>4. QED
    BY <2>1, <2>2, <2>3
<1>2. QED
  BY IInvInductive, <1>1, PTL
=============================================================================
