------------------------------- MODULE MCWire -------------------------------
(***************************************************************************)
(* Instances of Wire.tla over the types of the protocol: bytes of 256      *)
(* values, in words of four so that every tag is itself.  The values of a  *)
(* type are sampled; Sample calls itself for the fields, so it is          *)
(* RECURSIVE and nothing is proved in this module.                         *)
(***************************************************************************)
EXTENDS WireTypes, WireEnds, FiniteSets
SX == INSTANCE SequencesExt

U64Samples   == << 0, 1, 77, 65537 >>
BytesSamples == << << >>, << 110 >>, << 110, 105, 120, 33 >>, << 0, 255, 0, 1, 10 >> >>

Nth(s, i) == s[(i % Len(s)) + 1]

\* The calls that write a value of a type, another one for each i.
RECURSIVE Sample(_, _)

Samples(ts, i) == SX!FlattenSeq([ k \in 1 .. Len(ts) |-> Sample(ts[k], i + k) ])

\* The tag that i of the others of its type come before.
Tag(t, i) ==
    LET tags == DOMAIN NixTypes[t].variants
    IN  CHOOSE tag \in tags : Cardinality({ u \in tags : u < tag }) = i % Cardinality(tags)

TaggedSample(t, tag, i) ==
    << Call("tuple", << >>), Call("u64", << tag >>) >> \o Samples(NixTypes[t].variants[tag], i)

Sample(t, i) ==
    LET s == NixTypes[t]
    IN  CASE s.shape = "u64"     -> << Call("u64", << Nth(U64Samples, i) >>) >>
          [] s.shape = "bool"    -> << Call("bool", << i % 2 >>) >>
          [] s.shape = "bytes"   -> << Call("bytes", Nth(BytesSamples, i)) >>
          [] s.shape = "unit"    -> << Call("unit", << >>) >>
          [] s.shape = "newtype" -> << Call("newtype_struct", << >>) >> \o Sample(s.of, i)
          [] s.shape = "option"  ->
               IF (i % 2) = 0 THEN << Call("none", << >>) >>
               ELSE << Call("some", << >>) >> \o Sample(s.of, i)
          [] s.shape = "seq"     ->
               << Call("seq", << i % 3 >>) >> \o Samples([ k \in 1 .. i % 3 |-> s.of ], i)
          [] s.shape = "tuple"   -> << Call("struct", << >>) >> \o Samples(s.fields, i)
          [] s.shape = "tagged"  -> TaggedSample(t, Tag(t, i), i)

Frames(ss) == [ k \in 1 .. Len(ss) |-> Call("frame", ss[k]) ] \o << Call("last_frame", << >>) >>

Writing(cs, ts) == [calls |-> cs, asked |-> ts]

\* A value that follows, as the next operation or answer does: a word that could
\* be taken for part of what comes before.
NextOne == Call("u64", << 1 >>)
Then(cs, ts) == Writing(Append(cs, NextOne), Append(ts, "u64"))

-----------------------------------------------------------------------------
\* Every operation, with what is streamed after it, and every answer.
SampleIndices == 0 .. 3

OpWritings ==
    UNION { { IF RequiresStreaming(o)
                THEN Then(TaggedSample("worker_op", o, i) \o Frames(<< << 1, 2, 3, 4, 5 >>, << 0 >> >>),
                          << "worker_op", "framed" >>)
                ELSE Then(TaggedSample("worker_op", o, i), << "worker_op" >>)
              : o \in WorkerOp } : i \in SampleIndices }

ReplyWritings ==
    { Then(Samples(Reply(o), i), Reply(o)) :
        o \in { p \in WorkerOp : Reply(p) # << "nar" >> }, i \in SampleIndices }

\* What the format has nothing for: a slice of bytes, which serde writes as a
\* sequence of u8, a String, a map; and what its reader would look for.
FailedWritings ==
    { Writing(<< Call("seq", << 2 >>), Call("u8", << 0 >>), Call("u8", << 0 >>) >>, << "bytes" >>),
      Writing(<< Call("struct", << >>), Call("bool", << 1 >>), Call("str", << 0 >>) >>,
              << "bool", "string" >>),
      Writing(<< Call("seq", << 1 >>), Call("bytes", << 7 >>), Call("map", << 1 >>) >>,
              << "paths", "map" >>) }


-----------------------------------------------------------------------------
\* What a daemon says while it works, read by read_error_msg_or_eof.
Message(i) == Sample("msg", i)
LogCalls == { << Message(i), Message(j) >> : i \in 0 .. 6, j \in 0 .. 6 }
LogWritings == { Writing(SX!FlattenSeq(l), << "msg_or_eof", "msg_or_eof", "msg_or_eof" >>) : l \in LogCalls }

Meaning(cs) == Meant(cs)[Len(cs)]

\* The logs of WireEnds, as the calls that write something.
MessageLogs == { [ k \in 1 .. Len(l) |-> Meaning(l[k]) ] : l \in LogCalls }

-----------------------------------------------------------------------------
\* Framed data with empty buffers in it.
SomeBuffers == { << >>, << 1 >>, << 0, 0, 0, 0 >>, << 1, 0, 0, 0, 9 >> }
FrameLists == { Frames(ss) : ss \in UNION { [ 1 .. n -> SomeBuffers ] : n \in 0 .. 3 } }
FrameWritings == { Writing(f, << "framed" >>) : f \in FrameLists }

-----------------------------------------------------------------------------
AllWritings ==
    OpWritings \cup ReplyWritings \cup FailedWritings \cup LogWritings \cup FrameWritings

NoStreams == { }

\* What is written is a value of the types that it is read as (the hypothesis of
\* WireForwarding), unless there is an empty buffer of framed data in it.
ASSUME ValuesAssumption ==
    \A w \in OpWritings \cup ReplyWritings \cup LogWritings \cup FrameWritings :
        LET cs == Meaning(w.calls)
        IN  Conforms(MaxSteps, cs, w.asked) <=> ~ HasEmptyFrame(cs)
=============================================================================
