------------------------------- MODULE NarHash -------------------------------
(***************************************************************************)
(* NarHash::from_bytes of src/nix-remote/src/lib.rs: the text of a hash in *)
(* Nix's base 32.  The characters are made one by one, the last five bits  *)
(* first, each from the one or two bytes its bits are in.  A character is  *)
(* its place in BASE32_CHARS, 0 .. 31; a byte is 0 .. 255.                 *)
(***************************************************************************)
EXTENDS Integers, Sequences

CONSTANT Inputs     \* the bytes that may be given

ASSUME InputAssumption == Inputs \subseteq Seq(0 .. 255)

VARIABLES
    pc,         \* "start", "map", "done", "panic"
    bytes,      \* the hash
    n,          \* how many characters are still to be made
    data        \* the text made so far

vars == << pc, bytes, n, data >>

Init ==
    /\ pc = "start"
    /\ bytes \in Inputs
    /\ n = 0
    /\ data = << >>

\* Mutant of TextLen: bits that do not fill a character are left out.
TextLenDown(size) == (size * 8) \div 5

\* Characters for so many bytes.
TextLen(size) == (size * 8 - 1) \div 5 + 1

\* The length of nothing underflows: that is a panic, or a length near 2^64 whose
\* first character is far beyond the bytes.
Start ==
    /\ pc = "start"
    /\ IF bytes = << >> THEN pc' = "panic" /\ UNCHANGED n
       ELSE pc' = "map" /\ n' = TextLen(Len(bytes))
    /\ UNCHANGED << bytes, data >>

\* Where character k begins: the byte, from 0, and the bit of it.
ByteOf(k) == (k * 5) \div 8
BitOf(k)  == (k * 5) % 8

\* bytes[i]; Indexed says that there is one.
At(i)      == bytes[i + 1]
Indexed(i) == i < Len(bytes)

Shr(v, j) == v \div 2^j

\* Mutant of Shl: shifting by eight keeps the byte.
ShlWraps(v, j) == (v * 2^(j % 8)) % 256

\* checked_shl(j).unwrap_or(0) of a u8: what is shifted out is lost, and a shift
\* by eight or more gives 0.
Shl(v, j) == IF j >= 8 THEN 0 ELSE (v * 2^j) % 256

\* Mutant of LastByte: the last byte is taken to have one after it.
LastByteLate(i) == i >= Len(bytes)

LastByte(i) == i >= Len(bytes) - 1

\* bits from the lower byte, bits from the upper byte.  They have no bit in
\* common, so that v1 | v2 is their sum.
V1(k) == Shr(At(ByteOf(k)), BitOf(k))
V2(k) == IF LastByte(ByteOf(k)) THEN 0 ELSE Shl(At(ByteOf(k) + 1), 8 - BitOf(k))

\* Mutant of Char: the shifted byte is not cut down to five bits.
CharUnmasked(k) == V1(k) + V2(k)

Char(k) == (V1(k) + V2(k)) % 32

InBounds(k) == Indexed(ByteOf(k)) /\ (~ LastByte(ByteOf(k)) => Indexed(ByteOf(k) + 1))

\* (0 .. len).rev().map(...): character n - 1 is the next.
Map ==
    /\ pc = "map" /\ n > 0
    /\ IF InBounds(n - 1)
         THEN data' = Append(data, Char(n - 1)) /\ n' = n - 1 /\ UNCHANGED pc
         ELSE pc' = "panic" /\ UNCHANGED << n, data >>
    /\ UNCHANGED bytes

Collect ==
    /\ pc = "map" /\ n = 0
    /\ pc' = "done"
    /\ UNCHANGED << bytes, n, data >>

Rest == pc \in { "done", "panic" } /\ UNCHANGED vars

Next == Start \/ Map \/ Collect \/ Rest

Spec == Init /\ [][Next]_vars

-----------------------------------------------------------------------------
\* Each variable holds a value of its kind: what is put in the text is the place of
\* a character (lib.rs:230 indexes BASE32_CHARS with it).
TypeOK ==
    /\ pc \in { "start", "map", "done", "panic" }
    /\ bytes \in Inputs
    /\ n \in Nat
    /\ data \in Seq(0 .. 31)

\* The reference: bit m of the bytes, the lowest of the first byte being bit 0,
\* is bit m % 5 of character m \div 5 counted from the end of the text.
BitIn(v, j) == (v \div 2^j) % 2

TextBit(m) == BitIn(data[Len(data) - (m \div 5)], m % 5)
HashBit(m) == IF m < 8 * Len(bytes) THEN BitIn(bytes[(m \div 8) + 1], m % 8) ELSE 0

\* The text has every bit of the hash in its place and 0 in the places beyond:
\* the hash can be had back from it, and it is the text Nix makes.
EncodesEveryBit ==
    pc = "done" =>
        /\ 5 * Len(data) >= 8 * Len(bytes)
        /\ \A m \in 0 .. 5 * Len(data) - 1 : TextBit(m) = HashBit(m)

\* Of all hashes only the empty one makes it panic: no character is made from a
\* byte that is not there (lib.rs:222 and 227 index without a check).
PanicsOnlyIfEmpty == pc = "panic" => bytes = << >>
=============================================================================
