-------------------------------- MODULE Wire --------------------------------
(***************************************************************************)
(* The wire format of src/nix-remote/src/serialize.rs, byte for byte: a    *)
(* value is written by the calls its Serialize makes on NixSerializer, and *)
(* read by the calls its Deserialize makes on NixDeserializer, one         *)
(* read_exact at a time, until the stream ends or the type is complete.    *)
(* What was read is then written and read once more, as a proxy does that  *)
(* decodes what it forwards.                                               *)
(*                                                                         *)
(* A Rust type is a name; Types gives its shape, in terms of other names.  *)
(* A value is the sequence of calls that write it.  Calls that write no    *)
(* byte (a struct, a tuple, a newtype, a unit) are not part of it.         *)
(***************************************************************************)
EXTENDS Naturals, Sequences

CONSTANTS
    WordLen,    \* bytes of an integer, and what a byte buffer is padded to: 8
    Base,       \* the number of values of a byte: 256
    MaxAlloc,   \* the longest buffer that can be allocated
    Types,      \* the shape of each type
    Writings,   \* what is written, and as what it is read
    Streams     \* what comes from another implementation, and as what it is read

ASSUME SizeAssumption ==
    /\ WordLen \in Nat \ {0}
    /\ Base \in Nat \ {0, 1}
    /\ MaxAlloc \in Nat

Byte == 0 .. Base - 1

\* Shapes.
U64          == [shape |-> "u64"]
Bool         == [shape |-> "bool"]
Bytes        == [shape |-> "bytes"]
Unit         == [shape |-> "unit"]
Framed       == [shape |-> "framed"]
Option(t)    == [shape |-> "option", of |-> t]
Vec(t)       == [shape |-> "seq", of |-> t]
Newtype(t)   == [shape |-> "newtype", of |-> t]
MsgOrEof(t)  == [shape |-> "or_eof", of |-> t]
Struct(ts)   == [shape |-> "tuple", fields |-> ts]
Tagged(vs)   == [shape |-> "tagged", variants |-> vs]
Other(k)     == [shape |-> k]

\* The shapes and calls the format has nothing for.
WontRead ==
    { "any", "i8", "i16", "i32", "i64", "u8", "u16", "u32", "f32", "f64", "char",
      "str", "string", "map", "enum", "identifier", "ignored_any" }

WontWrite ==
    { "i8", "i16", "i32", "i64", "u8", "u16", "u32", "f32", "f64", "char", "str",
      "unit_variant", "tuple_variant", "struct_variant", "map" }

\* The calls that write nothing themselves.
Silent ==
    { "unit", "unit_struct", "newtype_struct", "newtype_variant", "tuple",
      "tuple_struct", "struct" }

Call(name, value) == [call |-> name, value |-> value]

-----------------------------------------------------------------------------
\* Writing.

\* What is left of a number when its lowest digits are taken away, one by one.
Shifted(n) ==
    LET left[i \in 0 .. WordLen] == IF i = 0 THEN n ELSE left[i - 1] \div Base
    IN  left

\* Numbers of WordLen digits.
Fits(n) == n \in Nat /\ Shifted(n)[WordLen] = 0

\* to_le_bytes,
Word(n) ==
    LET left == Shifted(n)
    IN  [ i \in 1 .. WordLen |-> left[i - 1] % Base ]

\* and from_le_bytes: what the last i digits are worth.
Worth(bs) ==
    LET last[i \in 0 .. WordLen] ==
            IF i = 0 THEN 0 ELSE last[i - 1] * Base + bs[WordLen + 1 - i]
    IN  last

WordValue(bs) == Worth(bs)[WordLen]

Padding(len) == IF (len % WordLen) > 0 THEN WordLen - (len % WordLen) ELSE 0

Zeros(n) == [ i \in 1 .. n |-> 0 ]

WriteByteBuf(s) == Word(Len(s)) \o s \o Zeros(Padding(Len(s)))

\* Mutant of SerializeBool: true and false are exchanged.
SerializeBoolInverted(v) == Word(1 - v)

SerializeBool(v) == Word(v)

SerializeNone == Word(0)
SerializeSome == Word(1)

SerializeSeq(len) == Word(len)

\* Mutant of WriteFrame: a buffer is padded, as everything else is.
WriteFramePadded(data) == WriteByteBuf(data)

\* FramedData::write: the buffers are not padded; an empty one is not left out.
WriteFrame(data) == Word(Len(data)) \o data
WriteLastFrame   == Word(0)

Written(c) ==
    CASE c.call \in Silent     -> << >>
      [] c.call = "u64"        -> Word(c.value[1])
      [] c.call = "bool"       -> SerializeBool(c.value[1])
      [] c.call = "bytes"      -> WriteByteBuf(c.value)
      [] c.call = "none"       -> SerializeNone
      [] c.call = "some"       -> SerializeSome
      [] c.call = "seq"        -> SerializeSeq(c.value[1])
      [] c.call = "frame"      -> WriteFrame(c.value)
      [] c.call = "last_frame" -> WriteLastFrame
      [] c.call = "eof"        -> << >>

\* The calls there are.  A u64 and a length fit a word, and a bool is 0 or 1.
CallName ==
    Silent \cup WontWrite \cup
    { "u64", "bool", "bytes", "none", "some", "seq", "frame", "last_frame", "eof" }

AnyCall ==
    { c \in [call : CallName, value : Seq(Nat)] :
        /\ c.call \in { "u64", "seq" } => Len(c.value) = 1 /\ Fits(c.value[1])
        /\ c.call = "bool" => c.value \in { << 0 >>, << 1 >> }
        /\ c.call \in { "bytes", "frame" } => c.value \in Seq(Byte) /\ Fits(Len(c.value)) }

\* A type is made of other types, and what may be missing at the end of the
\* stream is an enum, the messages of the daemon.
TypesAssumption ==
    /\ { "bytes", "framed" } \subseteq DOMAIN Types
    /\ \A t \in DOMAIN Types :
         LET s == Types[t]
         IN  /\ s.shape \in { "option", "seq", "newtype", "or_eof" } => s.of \in DOMAIN Types
             /\ s.shape = "tuple" => s.fields \in Seq(DOMAIN Types)
             /\ s.shape = "tagged" =>
                  \A n \in DOMAIN s.variants : s.variants[n] \in Seq(DOMAIN Types)
             /\ s.shape = "or_eof" => Types[s.of].shape = "tagged"

ASSUME InputAssumption ==
    /\ TypesAssumption
    /\ \A w \in Writings : w.calls \in Seq(AnyCall) /\ w.asked \in Seq(DOMAIN Types)
    /\ \A s \in Streams : s.bytes \in Seq(Byte) /\ s.asked \in Seq(DOMAIN Types)

-----------------------------------------------------------------------------
VARIABLES
    pc,         \* "write", "read", "done", "failed", "panic"
    turn,       \* 1: what came is read; 2: it has been written again
    meant,      \* the value that was sent, if this library wrote it
    asked,      \* the types it is read as
    calls,      \* the calls of the writer still to be made
    complete,   \* has all of the value been written, and come?
    wire,       \* the bytes not yet read
    came,       \* the bytes there were to read in this turn
    todo,       \* what is still to be read of the value, the next thing first
    got,        \* what has been read of it
    first       \* what was read in the first turn

vars == << pc, turn, meant, asked, calls, complete, wire, came, todo, got, first >>

Unknown == << Call("unknown", << >>) >>

\* What is to be read: a value of a type, so many of them, the contents of a
\* byte buffer or of a buffer of framed data.
One(t)      == [is |-> "one", type |-> t, len |-> 0]
Many(t, n)  == [is |-> "many", type |-> t, len |-> n]
Buf(n)      == [is |-> "buf", type |-> "bytes", len |-> n]
FrameBuf(n) == [is |-> "frame", type |-> "framed", len |-> n]
Item        == [is : { "one", "many", "buf", "frame" }, type : DOMAIN Types, len : Nat]
Each(ts)    == [ i \in 1 .. Len(ts) |-> One(ts[i]) ]

\* What the first i calls say that is written.
Meant(cs) ==
    LET said[i \in 0 .. Len(cs)] ==
            IF i = 0 THEN << >>
            ELSE IF cs[i].call \in Silent THEN said[i - 1] ELSE Append(said[i - 1], cs[i])
    IN  said

Init ==
    /\ turn = 1 /\ complete = TRUE
    /\ got = << >> /\ first = Unknown
    /\ \/ \E w \in Writings :
            /\ pc = "write"
            /\ calls = w.calls
            /\ meant = Meant(w.calls)[Len(w.calls)]
            /\ asked = w.asked
            /\ todo = << >>
            /\ wire = << >> /\ came = << >>
       \/ \E s \in Streams :
            /\ pc = "read"
            /\ calls = << >>
            /\ meant = Unknown
            /\ asked = s.asked
            /\ todo = Each(s.asked)
            /\ wire = s.bytes /\ came = s.bytes

-----------------------------------------------------------------------------
\* Writing a value.

WriteCall ==
    /\ pc = "write"
    /\ calls # << >>
    /\ Head(calls).call \notin WontWrite
    /\ wire' = wire \o Written(Head(calls))
    /\ calls' = Tail(calls)
    /\ UNCHANGED << pc, turn, meant, asked, complete, came, todo, got, first >>

StartReading(bytes) ==
    /\ pc' = "read"
    /\ wire' = bytes /\ came' = bytes
    /\ todo' = Each(asked)
    /\ got' = << >>
    /\ calls' = << >>
    /\ UNCHANGED << turn, meant, asked, first >>

\* Mutant of WriteFails: what cannot be written is left out.
WriteFailsSilently ==
    /\ pc = "write"
    /\ calls # << >>
    /\ Head(calls).call \in WontWrite
    /\ calls' = Tail(calls)
    /\ UNCHANGED << pc, turn, meant, asked, complete, wire, came, todo, got, first >>

\* WontImplement: the writer gives up, with what it has written on the wire.
WriteFails ==
    /\ pc = "write"
    /\ calls # << >>
    /\ Head(calls).call \in WontWrite
    /\ complete' = FALSE
    /\ StartReading(wire)

\* All is written.  In the first turn the stream may be cut before all has come.
Arrive ==
    /\ pc = "write"
    /\ calls = << >>
    /\ \E n \in IF turn = 1 THEN 0 .. Len(wire) ELSE { Len(wire) } :
         /\ complete' = (complete /\ n = Len(wire))
         /\ StartReading(SubSeq(wire, 1, n))

-----------------------------------------------------------------------------
\* Reading a value.

Top      == Head(todo)
Below    == Tail(todo)
At(shape) == pc = "read" /\ todo # << >> /\ Top.is = "one" /\ Types[Top.type].shape = shape
In(is)    == pc = "read" /\ todo # << >> /\ Top.is = is

\* read_exact and read_u64.
ReadExact(n) ==
    /\ Len(wire) >= n
    /\ wire' = SubSeq(wire, n + 1, Len(wire))

ReadU64  == ReadExact(WordLen)
NextWord == WordValue(SubSeq(wire, 1, WordLen))

\* The visitor is told of a call, and there is more to read before the rest.
Visit(name, value, more) ==
    /\ got' = Append(got, Call(name, value))
    /\ todo' = more \o Below
    /\ UNCHANGED << pc, turn, meant, asked, calls, complete, came, first >>

Descend(more) ==
    /\ todo' = more \o Below
    /\ UNCHANGED << pc, turn, meant, asked, calls, complete, came, got, first >>

Stop(how) ==
    /\ pc' = how
    /\ UNCHANGED << turn, meant, asked, calls, complete, came, todo, got, first >>

DeserializeU64 == At("u64") /\ ReadU64 /\ Visit("u64", << NextWord >>, << >>)

BoolValue(w) == IF w # 0 THEN 1 ELSE 0

DeserializeBool == At("bool") /\ ReadU64 /\ Visit("bool", << BoolValue(NextWord) >>, << >>)

\* vec![0; len] comes before the read of the contents.
Allocates(n) == n <= MaxAlloc

ReadByteBufLen ==
    /\ At("bytes")
    /\ ReadU64
    /\ IF Allocates(NextWord) THEN Descend(<< Buf(NextWord) >>) ELSE Stop("panic")

\* Mutant of BufSpan: the padding is left for the next read.
BufSpanUnpadded(n) == n

BufSpan(n) == n + Padding(n)

\* The contents and the padding, which is not looked at.
ReadByteBuf ==
    /\ In("buf")
    /\ ReadExact(BufSpan(Top.len))
    /\ Visit("bytes", SubSeq(wire, 1, Top.len), << >>)

DeserializeOption ==
    /\ At("option")
    /\ ReadU64
    /\ IF NextWord = 1 THEN Visit("some", << >>, << One(Types[Top.type].of) >>)
                       ELSE Visit("none", << >>, << >>)

DeserializeSeq ==
    /\ At("seq")
    /\ ReadU64
    /\ Visit("seq", << NextWord >>, << Many(Types[Top.type].of, NextWord) >>)

\* Mutant of Remaining: one element more than there are.
RemainingOneMore(n) == n >= 0

Remaining(n) == n > 0

\* next_element_seed of Seq.
NextElement ==
    /\ In("many")
    /\ UNCHANGED wire
    /\ Descend(IF Remaining(Top.len) THEN << One(Top.type), Many(Top.type, Top.len - 1) >>
               ELSE << >>)

DeserializeTuple  == At("tuple") /\ UNCHANGED wire /\ Descend(Each(Types[Top.type].fields))
DeserializeNewtype == At("newtype") /\ UNCHANGED wire /\ Descend(<< One(Types[Top.type].of) >>)
DeserializeUnit   == At("unit") /\ UNCHANGED wire /\ Descend(<< >>)

\* derive(TaggedSerde): a tag, then the fields of its variant.
DeserializeTagged ==
    LET variants == Types[Top.type].variants
    IN  /\ At("tagged")
        /\ ReadU64
        /\ IF NextWord \in DOMAIN variants
             THEN Visit("u64", << NextWord >>, Each(variants[NextWord]))
             ELSE Stop("failed")

\* FramedData::read: a buffer, and on; a length of 0 ends the list.
ReadFrameLen ==
    /\ At("framed")
    /\ ReadU64
    /\ IF NextWord = 0 THEN Visit("last_frame", << >>, << >>)
       ELSE IF Allocates(NextWord) THEN Descend(<< FrameBuf(NextWord), Top >>)
       ELSE Stop("panic")

ReadFrame ==
    /\ In("frame")
    /\ ReadExact(Top.len)
    /\ Visit("frame", SubSeq(wire, 1, Top.len), << >>)

\* Mutant of ReadErrorMsgOrEof: the end of the stream is not looked for.
ReadErrorMsgNoEof ==
    /\ At("or_eof")
    /\ UNCHANGED wire
    /\ Descend(<< One(Types[Top.type].of) >>)

\* read_error_msg_or_eof: None at the end of the stream, after which its caller
\* reads no more.
ReadErrorMsgOrEof ==
    /\ At("or_eof")
    /\ UNCHANGED wire
    /\ IF wire # << >> THEN Descend(<< One(Types[Top.type].of) >>)
       ELSE /\ got' = Append(got, Call("eof", << >>))
            /\ todo' = << >>
            /\ UNCHANGED << pc, turn, meant, asked, calls, complete, came, first >>

WontImplement ==
    /\ \E shape \in WontRead : At(shape)
    /\ UNCHANGED wire
    /\ Stop("failed")

\* How many bytes the next read_exact asks for.
Wants ==
    CASE Top.is = "buf"   -> BufSpan(Top.len)
      [] Top.is = "frame" -> Top.len
      [] Top.is = "many"  -> 0
      [] Top.is = "one"   ->
           IF Types[Top.type].shape \in
                { "u64", "bool", "bytes", "option", "seq", "tagged", "framed" }
             THEN WordLen ELSE 0

\* Mutant of UnexpectedEof: what has not come is taken for zeros.
UnexpectedEofAsZeros ==
    /\ pc = "read" /\ todo # << >> /\ Len(wire) < Wants
    /\ wire' = wire \o Zeros(Wants - Len(wire))
    /\ UNCHANGED << pc, turn, meant, asked, calls, complete, came, todo, got, first >>

\* Mutant of UnexpectedEof: a read that returns nothing is tried again.
UnexpectedEofRetried ==
    /\ pc = "read" /\ todo # << >>
    /\ Len(wire) < Wants
    /\ UNCHANGED vars

UnexpectedEof ==
    /\ pc = "read" /\ todo # << >>
    /\ Len(wire) < Wants
    /\ wire' = << >>
    /\ Stop("failed")

\* The value is complete; it is written again.
Forward ==
    /\ pc = "read" /\ todo = << >> /\ turn = 1
    /\ pc' = "write" /\ turn' = 2
    /\ calls' = got /\ first' = got
    /\ came' = SubSeq(came, 1, Len(came) - Len(wire))
    /\ wire' = << >> /\ got' = << >>
    /\ UNCHANGED << meant, asked, complete, todo >>

Finish ==
    /\ pc = "read" /\ todo = << >> /\ turn = 2
    /\ UNCHANGED wire
    /\ Stop("done")

Deserialize ==
    \/ DeserializeU64 \/ DeserializeBool \/ ReadByteBufLen \/ ReadByteBuf
    \/ DeserializeOption \/ DeserializeSeq \/ NextElement
    \/ DeserializeTuple \/ DeserializeNewtype \/ DeserializeUnit
    \/ DeserializeTagged \/ ReadFrameLen \/ ReadFrame \/ ReadErrorMsgOrEof
    \/ WontImplement \/ UnexpectedEof

Ended == pc \in { "done", "failed", "panic" }

Rest == Ended /\ UNCHANGED vars

Next == WriteCall \/ WriteFails \/ Arrive \/ Deserialize \/ Forward \/ Finish \/ Rest

Spec == Init /\ [][Next]_vars

\* A call runs to its end by itself.
FairSpec == Spec /\ WF_vars(Next)

-----------------------------------------------------------------------------
\* Each variable holds a value of its kind: bytes on the wire, types that are
\* known and a number of elements that is not negative in what is to be read.
TypeOK ==
    /\ pc \in { "write", "read", "done", "failed", "panic" }
    /\ turn \in { 1, 2 }
    /\ complete \in BOOLEAN
    /\ wire \in Seq(Byte) /\ came \in Seq(Byte)
    /\ todo \in Seq(Item)

\* A value without the report that nothing comes after it.
Said(cs) ==
    IF cs # << >> /\ cs[Len(cs)].call = "eof" THEN SubSeq(cs, 1, Len(cs) - 1) ELSE cs

\* An empty buffer ends framed data: a list with one in it is no value of the format.
HasEmptyFrame(cs) == \E i \in 1 .. Len(cs) : cs[i] = Call("frame", << >>)

\* A reader that is told calls instead of bytes: what is left to be read, and
\* of the calls, when the first thing has been read.
Heard(td, cs) ==
    LET x == Head(td)
        c == Head(cs)
        s == Types[x.type]
        Shape(k)   == x.is = "one" /\ s.shape = k
        Says(name) == cs # << >> /\ c.call = name
        Bare(name) == cs # << >> /\ c = Call(name, << >>)
        Open(more) == << more \o Tail(td), cs >>
        Tell(more) == << more \o Tail(td), Tail(cs) >>
    IN  CASE x.is = "many" /\ x.len > 0 -> Open(<< One(x.type), Many(x.type, x.len - 1) >>)
          [] x.is = "many" /\ x.len = 0 -> Open(<< >>)
          [] Shape("unit")    -> Open(<< >>)
          [] Shape("tuple")   -> Open(Each(s.fields))
          [] Shape("newtype") -> Open(<< One(s.of) >>)
          [] Shape("or_eof")  -> IF cs = << >> THEN << << >>, << >> >> ELSE Open(<< One(s.of) >>)
          [] Shape("u64")    /\ Says("u64")  -> Tell(<< >>)
          [] Shape("bool")   /\ Says("bool") -> Tell(<< >>)
          [] Shape("bytes")  /\ Says("bytes") /\ Allocates(Len(c.value)) -> Tell(<< >>)
          [] Shape("option") /\ Bare("none") -> Tell(<< >>)
          [] Shape("option") /\ Bare("some") -> Tell(<< One(s.of) >>)
          [] Shape("seq")    /\ Says("seq")  -> Tell(<< Many(s.of, c.value[1]) >>)
          [] Shape("tagged") /\ Says("u64") /\ c.value[1] \in DOMAIN s.variants ->
               Tell(Each(s.variants[c.value[1]]))
          [] Shape("framed") /\ Says("frame") /\ c.value # << >> /\ Allocates(Len(c.value)) ->
               Tell(<< x >>)
          [] Shape("framed") /\ Bare("last_frame") -> Tell(<< >>)
          [] OTHER -> << td, cs >>

\* The calls are a value of the types, which such a reader has read after k
\* steps: they are what the Serialize of those types makes.
Conforms(k, cs, ts) ==
    LET left[i \in 0 .. k] ==
            IF i = 0 THEN << Each(ts), cs >>
            ELSE LET l == left[i - 1]
                 IN  IF l[1] = << >> THEN l ELSE Heard(l[1], l[2])
    IN  left[k] = << << >>, << >> >>

\* What this library writes it reads back, the same value and not an error
\* (test_serialize and test_roundtrip of worker_op.rs, for sampled values).
ReadsBack ==
    meant # Unknown /\ complete /\ ~ HasEmptyFrame(meant) =>
        /\ turn = 1 => pc \notin { "failed", "panic" }
        /\ turn = 2 => Said(first) = meant

\* A value that has not come whole, because its stream was cut or its writer
\* gave up, is never taken for a shorter one: every read_exact is for something
\* that was announced.  Only read_error_msg_or_eof returns, to say so.
NothingShort ==
    meant # Unknown /\ ~ complete /\ ~ HasEmptyFrame(meant) /\ turn = 2 =>
        \E i \in 1 .. Len(first) : first[i].call = "eof"

\* Whatever came, if it could be read, what is written for it reads as the same
\* value, and nothing is left over: a proxy that decodes what it forwards
\* changes no value and loses no place in the stream.
ForwardsTheValue ==
    turn = 2 =>
        /\ pc \notin { "failed", "panic" }
        /\ pc = "done" => got = first /\ wire = << >>

\* It takes as many bytes as it took when it came, and the very same bytes if
\* this library wrote them (`check` of tests/main.rs).
ForwardsTheBytes ==
    turn = 2 /\ pc = "write" /\ calls = << >> =>
        /\ Len(wire) = Len(came)
        /\ meant # Unknown => wire = came

\* Reading and writing come to an end, whatever comes.
Ends == <> Ended
=============================================================================
