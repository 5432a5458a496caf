--------------------------- MODULE WireForwarding ---------------------------
(***************************************************************************)
(* What a value is written with when it has been read is read as the same  *)
(* value: for all types, all streams, words of every length and bytes of   *)
(* every base.                                                             *)
(*                                                                         *)
(* Between the two turns of Wire.tla there is only the value.  So the      *)
(* proof states the format by itself: which calls a visitor can be told of *)
(* when a type is read (Parses), and which bytes the calls are written as  *)
(* (Wrote).  Both are the least relations that have their rules, the       *)
(* members of every set that the rules are closed under.                   *)
(*                                                                         *)
(* What this library writes for a value of the types it is read as is read *)
(* back as that value, from the same format: a reader that is told calls   *)
(* (Conforms) has been told what Parses allows.                            *)
(*                                                                         *)
(* Two things that are not values of a type are followed in the same way:  *)
(* framed data with empty buffers in it, up to the first of them, and the  *)
(* messages of a daemon, whatever beginning of them comes (WireEnds.tla).  *)
(***************************************************************************)
EXTENDS WireProofs, WireEnds

-----------------------------------------------------------------------------
\* What calls are written as.

ClosedWrote(R) ==
    /\ << << >>, << >> >> \in R
    /\ \A c \in Told, cs \in Seq(Told), u \in Seq(Byte) :
         << cs, u >> \in R => << << c >> \o cs, Written(c) \o u >> \in R

Wrote(cs, u) == \A R \in SUBSET (Seq(Told) \X Seq(Byte)) : ClosedWrote(R) => << cs, u >> \in R

LEMMA WroteNothing ==
    Wrote(<< >>, << >>)
  BY DEF Wrote, ClosedWrote

LEMMA WroteFirst ==
    ASSUME NEW c \in Told, NEW cs \in Seq(Told), NEW u \in Seq(Byte), Wrote(cs, u)
    PROVE  Wrote(<< c >> \o cs, Written(c) \o u)
  BY DEF Wrote, ClosedWrote

\* The bytes of the first call come first.
LEMMA WroteFrom ==
    ASSUME NEW cs \in Seq(Told), NEW u \in Seq(Byte), Wrote(cs, u)
    PROVE  \/ cs = << >> /\ u = << >>
           \/ /\ cs # << >>
              /\ \E v \in Seq(Byte) : u = Written(Head(cs)) \o v /\ Wrote(Tail(cs), v)
<1> DEFINE From(ds, w) ==
             \/ ds = << >> /\ w = << >>
             \/ /\ ds # << >>
                /\ \E v \in Seq(Byte) : w = Written(Head(ds)) \o v /\ Wrote(Tail(ds), v)
           R == { p \in Seq(Told) \X Seq(Byte) : Wrote(p[1], p[2]) /\ From(p[1], p[2]) }
<1>1. << << >>, << >> >> \in R
  <2>1. << >> \in Seq(Told) /\ << >> \in Seq(Byte)
    OBVIOUS
  <2>2. QED
    BY <2>1, WroteNothing
<1>2. ASSUME NEW c \in Told, NEW ds \in Seq(Told), NEW w \in Seq(Byte), << ds, w >> \in R
      PROVE  << << c >> \o ds, Written(c) \o w >> \in R
  <2>1. Wrote(ds, w)
    BY <1>2
  <2>2. Written(c) \in Seq(Byte)
    BY WrittenIsBytes DEF Told
  <2>3. << c >> \o ds \in Seq(Told) /\ Written(c) \o w \in Seq(Byte)
    BY <2>2, Cons, ConcatProperties
  <2>4. Wrote(<< c >> \o ds, Written(c) \o w)
    BY <2>1, WroteFirst
  <2>5. << c >> \o ds # << >> /\ Head(<< c >> \o ds) = c /\ Tail(<< c >> \o ds) = ds
    BY Cons
  <2>6. From(<< c >> \o ds, Written(c) \o w)
    BY <2>1, <2>5
  <2> HIDE DEF From
  <2>7. QED
    BY <2>3, <2>4, <2>6
<1>3. R \in SUBSET (Seq(Told) \X Seq(Byte))
  OBVIOUS
<1> HIDE DEF R
<1>4. ClosedWrote(R)
  BY <1>1, <1>2 DEF ClosedWrote
<1>5. << cs, u >> \in R
  BY <1>3, <1>4 DEF Wrote
<1>6. QED
  BY <1>5 DEF R

\* One more call at the end.
LEMMA WroteLast ==
    ASSUME NEW cs \in Seq(Told), NEW u \in Seq(Byte), Wrote(cs, u), NEW c \in Told
    PROVE  Wrote(Append(cs, c), u \o Written(c))
<1> DEFINE R == { p \in Seq(Told) \X Seq(Byte) : Wrote(Append(p[1], c), p[2] \o Written(c)) }
<1>1. Written(c) \in Seq(Byte)
  BY WrittenIsBytes DEF Told
<1>2. << << >>, << >> >> \in R
  <2>1. << >> \in Seq(Told) /\ << >> \in Seq(Byte)
    OBVIOUS
  <2>2. Wrote(<< c >> \o << >>, Written(c) \o << >>)
    BY <2>1, WroteNothing, WroteFirst
  <2>3. << c >> \o << >> = Append(<< >>, c) /\ Written(c) \o << >> = << >> \o Written(c)
    BY <1>1
  <2>4. Wrote(Append(<< >>, c), << >> \o Written(c))
    BY <2>2, <2>3
  <2>5. QED
    BY <2>1, <2>4
<1>3. ASSUME NEW d \in Told, NEW ds \in Seq(Told), NEW w \in Seq(Byte), << ds, w >> \in R
      PROVE  << << d >> \o ds, Written(d) \o w >> \in R
  <2>1. Wrote(Append(ds, c), w \o Written(c))
    BY <1>3
  <2>2. Written(d) \in Seq(Byte)
    BY WrittenIsBytes DEF Told
  <2>3. Append(ds, c) \in Seq(Told) /\ w \o Written(c) \in Seq(Byte)
    BY <1>1, AppendProperties, ConcatProperties
  <2>4. Wrote(<< d >> \o Append(ds, c), Written(d) \o (w \o Written(c)))
    BY <2>1, <2>3, WroteFirst
  <2>5. << d >> \o Append(ds, c) = Append(<< d >> \o ds, c)
    OBVIOUS
  <2>6. Written(d) \o (w \o Written(c)) = (Written(d) \o w) \o Written(c)
    BY <1>1, <2>2
  <2>7. << d >> \o ds \in Seq(Told) /\ Written(d) \o w \in Seq(Byte)
    BY <2>2, Cons, ConcatProperties
  <2>8. QED
    BY <2>4, <2>5, <2>6, <2>7
<1>4. R \in SUBSET (Seq(Told) \X Seq(Byte))
  OBVIOUS
<1> HIDE DEF R
<1>5. ClosedWrote(R)
  BY <1>2, <1>3 DEF ClosedWrote
<1>6. << cs, u >> \in R
  BY <1>4, <1>5 DEF Wrote
<1>7. QED
  BY <1>6 DEF R

\* One value after the other.
LEMMA WroteTogether ==
    ASSUME NEW cs \in Seq(Told), NEW u \in Seq(Byte), Wrote(cs, u),
           NEW ds \in Seq(Told), NEW v \in Seq(Byte), Wrote(ds, v)
    PROVE  Wrote(cs \o ds, u \o v)
<1> DEFINE R == { p \in Seq(Told) \X Seq(Byte) : Wrote(p[1] \o ds, p[2] \o v) }
<1>1. << << >>, << >> >> \in R
  <2>1. << >> \in Seq(Told) /\ << >> \in Seq(Byte) /\ << >> \o ds = ds /\ << >> \o v = v
    OBVIOUS
  <2>2. QED
    BY <2>1
<1>2. ASSUME NEW c \in Told, NEW es \in Seq(Told), NEW w \in Seq(Byte), << es, w >> \in R
      PROVE  << << c >> \o es, Written(c) \o w >> \in R
  <2>1. Wrote(es \o ds, w \o v)
    BY <1>2
  <2>2. PICK x \in Seq(Byte) : x = Written(c)
    BY WrittenIsBytes DEF Told
  <2>3. es \o ds \in Seq(Told) /\ w \o v \in Seq(Byte)
    BY ConcatProperties
  <2>4. Wrote(<< c >> \o (es \o ds), x \o (w \o v))
    BY <2>1, <2>2, <2>3, WroteFirst
  <2>5. << c >> \o (es \o ds) = (<< c >> \o es) \o ds
    OBVIOUS
  <2>6. x \o (w \o v) = (x \o w) \o v
    OBVIOUS
  <2>7. << c >> \o es \in Seq(Told) /\ x \o w \in Seq(Byte)
    BY Cons, ConcatProperties
  <2>8. QED
    BY <2>2, <2>4, <2>5, <2>6, <2>7
<1>3. R \in SUBSET (Seq(Told) \X Seq(Byte))
  OBVIOUS
<1> HIDE DEF R
<1>4. ClosedWrote(R)
  BY <1>1, <1>2 DEF ClosedWrote
<1>5. << cs, u >> \in R
  BY <1>3, <1>4 DEF Wrote
<1>6. QED
  BY <1>5 DEF R

\* Calls are written in one way only.
LEMMA WroteIsUnique ==
    ASSUME NEW cs \in Seq(Told), NEW u \in Seq(Byte), Wrote(cs, u),
           NEW v \in Seq(Byte), Wrote(cs, v)
    PROVE  u = v
<1> DEFINE R == { p \in Seq(Told) \X Seq(Byte) : \A w \in Seq(Byte) : Wrote(p[1], w) => w = p[2] }
<1>1. << << >>, << >> >> \in R
  <2>1. << >> \in Seq(Told) /\ << >> \in Seq(Byte)
    OBVIOUS
  <2>2. \A w \in Seq(Byte) : Wrote(<< >>, w) => w = << >>
    BY <2>1, WroteFrom
  <2>3. QED
    BY <2>1, <2>2
<1>2. ASSUME NEW c \in Told, NEW es \in Seq(Told), NEW x \in Seq(Byte), << es, x >> \in R
      PROVE  << << c >> \o es, Written(c) \o x >> \in R
  <2>1. << c >> \o es \in Seq(Told) /\ << c >> \o es # << >>
        /\ Head(<< c >> \o es) = c /\ Tail(<< c >> \o es) = es
    BY Cons
  <2>2. ASSUME NEW w \in Seq(Byte), Wrote(<< c >> \o es, w) PROVE w = Written(c) \o x
    <3>1. PICK y \in Seq(Byte) : w = Written(c) \o y /\ Wrote(es, y)
      <4>1. PICK d \in Seq(Told) : d = << c >> \o es
        BY <2>1
      <4>2. d # << >> /\ Head(d) = c /\ Tail(d) = es /\ Wrote(d, w)
        BY <2>1, <2>2, <4>1
      <4>3. QED
        BY <4>2, WroteFrom
    <3>2. y = x
      BY <1>2, <3>1
    <3>3. QED
      BY <3>1, <3>2
  <2>3. Written(c) \o x \in Seq(Byte)
    <3>1. Written(c) \in Seq(Byte)
      BY WrittenIsBytes DEF Told
    <3>2. QED
      BY <3>1, ConcatProperties
  <2>4. QED
    BY <2>1, <2>2, <2>3
<1>3. R \in SUBSET (Seq(Told) \X Seq(Byte))
  OBVIOUS
<1> HIDE DEF R
<1>4. ClosedWrote(R)
  BY <1>1, <1>2 DEF ClosedWrote
<1>5. << cs, u >> \in R
  BY <1>3, <1>4 DEF Wrote
<1>6. QED
  BY <1>5 DEF R

-----------------------------------------------------------------------------
\* What a type is read as.

Steps(td, r, td2, r2) ==
    /\ td # << >>
    /\ \/ \E c \in Told, more \in Seq(Plain) :
            Tells(Head(td), c, more) /\ r = << c >> \o r2 /\ td2 = more \o Tail(td)
       \/ \E more \in Stack : Opens(Head(td), more) /\ r2 = r /\ td2 = more \o Tail(td)
       \/ /\ Is(Head(td), "or_eof")
          /\ r = << Call("eof", << >>) >> /\ r2 = << >> /\ td2 = << >>

ClosedParses(R) ==
    /\ << << >>, << >> >> \in R
    /\ \A td, td2 \in Stack, r, r2 \in Seq(Told) :
         Steps(td, r, td2, r2) /\ << td2, r2 >> \in R => << td, r >> \in R

Parses(td, r) == \A R \in SUBSET (Stack \X Seq(Told)) : ClosedParses(R) => << td, r >> \in R

LEMMA ParsesNothing ==
    Parses(<< >>, << >>)
  BY DEF Parses, ClosedParses

LEMMA ParsesFirst ==
    ASSUME NEW td \in Stack, NEW td2 \in Stack, NEW r \in Seq(Told), NEW r2 \in Seq(Told),
           Steps(td, r, td2, r2), Parses(td2, r2)
    PROVE  Parses(td, r)
  BY DEF Parses, ClosedParses

LEMMA ParsesFrom ==
    ASSUME NEW td \in Stack, NEW r \in Seq(Told), Parses(td, r)
    PROVE  \/ td = << >> /\ r = << >>
           \/ \E td2 \in Stack, r2 \in Seq(Told) : Steps(td, r, td2, r2) /\ Parses(td2, r2)
<1> DEFINE From(te, s) ==
             \/ te = << >> /\ s = << >>
             \/ \E td2 \in Stack, r2 \in Seq(Told) : Steps(te, s, td2, r2) /\ Parses(td2, r2)
           R == { p \in Stack \X Seq(Told) : Parses(p[1], p[2]) /\ From(p[1], p[2]) }
<1>1. << << >>, << >> >> \in R
  <2>1. << >> \in Seq(Plain) /\ << >> \in Seq(Told)
    OBVIOUS
  <2>2. << >> \in Stack
    BY <2>1, PlainIsStack
  <2>3. QED
    BY <2>1, <2>2, ParsesNothing
<1>2. ASSUME NEW te \in Stack, NEW te2 \in Stack, NEW s \in Seq(Told), NEW s2 \in Seq(Told),
             Steps(te, s, te2, s2), << te2, s2 >> \in R
      PROVE  << te, s >> \in R
  <2>1. Parses(te2, s2)
    BY <1>2
  <2>2. Parses(te, s)
    BY <1>2, <2>1, ParsesFirst
  <2>3. From(te, s)
    BY <1>2, <2>1
  <2> HIDE DEF From
  <2>4. QED
    BY <2>2, <2>3
<1>3. R \in SUBSET (Stack \X Seq(Told))
  OBVIOUS
<1> HIDE DEF R
<1>4. ClosedParses(R)
  BY <1>1, <1>2 DEF ClosedParses
<1>5. << td, r >> \in R
  BY <1>3, <1>4 DEF Parses
<1>6. QED
  BY <1>5 DEF R

\* What must come next of a buffer whose length is known, and of an enum.
LEMMA Expects ==
    ASSUME NEW td \in Stack, NEW r \in Seq(Told), Parses(td, r), td # << >>
    PROVE  /\ Head(td).is = "buf" =>
                r # << >> /\ Head(r).call = "bytes" /\ Len(Head(r).value) = Head(td).len
           /\ Head(td).is = "frame" =>
                r # << >> /\ Head(r).call = "frame" /\ Len(Head(r).value) = Head(td).len
           /\ Is(Head(td), "tagged") => r # << >> /\ Head(r).call = "u64"
<1>1. PICK td2 \in Stack, r2 \in Seq(Told) : Steps(td, r, td2, r2)
  BY ParsesFrom
<1>2. SUFFICES ASSUME Head(td).is \in { "buf", "frame" } \/ Is(Head(td), "tagged")
               PROVE  /\ Head(td).is = "buf" =>
                           r # << >> /\ Head(r).call = "bytes" /\ Len(Head(r).value) = Head(td).len
                      /\ Head(td).is = "frame" =>
                           r # << >> /\ Head(r).call = "frame" /\ Len(Head(r).value) = Head(td).len
                      /\ Is(Head(td), "tagged") => r # << >> /\ Head(r).call = "u64"
  OBVIOUS
<1>3. ~ \E more : Opens(Head(td), more)
  BY <1>2 DEF Opens, Is
<1>4. ~ Is(Head(td), "or_eof")
  BY <1>2 DEF Is
<1>5. PICK c \in Told, more \in Seq(Plain) : Tells(Head(td), c, more) /\ r = << c >> \o r2
  BY <1>1, <1>3, <1>4 DEF Steps
<1>6. r # << >> /\ Head(r) = c
  BY <1>5, Cons
<1>7. /\ Head(td).is = "buf" => c.call = "bytes" /\ Len(c.value) = Head(td).len
      /\ Head(td).is = "frame" => c.call = "frame" /\ Len(c.value) = Head(td).len
      /\ Is(Head(td), "tagged") => c.call = "u64"
  BY <1>5 DEF Tells, Is, Call
<1>8. QED
  BY <1>6, <1>7

-----------------------------------------------------------------------------
\* The reader of what was written.

LEMMA Regroup ==
    ASSUME NEW s \in Seq(Byte), NEW t \in Seq(Byte), NEW u \in Seq(Byte)
    PROVE  /\ (s \o t) \o u = s \o (t \o u)
           /\ s \o t \in Seq(Byte) /\ t \o u \in Seq(Byte)
  OBVIOUS

Regroups(s, t, u) == (s \o t) \o u = s \o (t \o u)

LEMMA Grouping ==
    ASSUME NEW S, NEW s \in Seq(S), NEW t \in Seq(S), NEW u \in Seq(S)
    PROVE  Regroups(s, t, u)
  BY ConcatAssociative DEF Regroups

\* What has come of what was written, when the rest of it may not come.
Begins(s, tail, a, v) == \E b \in Seq(Byte) : s = a \o b /\ b \o tail = v

LEMMA Split ==
    ASSUME NEW s \in Seq(Byte), NEW tail \in Seq(Byte), NEW a \in Seq(Byte), NEW v \in Seq(Byte),
           s \o tail = a \o v, Len(a) <= Len(s)
    PROVE  Begins(s, tail, a, v)
<1> DEFINE a2 == SubSeq(s, 1, Len(a))
           b == SubSeq(s, Len(a) + 1, Len(s))
<1>1. Len(a) \in 0 .. Len(s)
  OBVIOUS
<1>2. a2 \in Seq(Byte) /\ b \in Seq(Byte) /\ Len(a2) = Len(a)
  BY <1>1, Cut
<1>3. s = a2 \o b
  <2>1. SubSeq(s, 1, Len(s)) = s /\ Len(s) \in Nat
    BY SubSeqFull
  <2>2. SubSeq(s, 1, Len(a)) \o SubSeq(s, Len(a) + 1, Len(s)) = SubSeq(s, 1, Len(s))
    <3>1. 1 \in 1 .. Len(s) + 1 /\ Len(a) \in 1 - 1 .. Len(s) /\ Len(s) \in Len(a) .. Len(s)
      BY <1>1, <2>1
    <3>2. QED
      BY <3>1, ConcatAdjacentSubSeq
  <2>3. QED
    BY <2>1, <2>2
<1> HIDE DEF a2, b
<1>4. a2 \o (b \o tail) = a \o v /\ b \o tail \in Seq(Byte)
  <2>1. (a2 \o b) \o tail = a2 \o (b \o tail)
    <3>1. Regroups(a2, b, tail)
      BY <1>2, Grouping
    <3>2. QED
      BY <3>1 DEF Regroups
  <2>2. b \o tail \in Seq(Byte)
    BY <1>2, ConcatProperties
  <2>3. QED
    BY <1>3, <2>1, <2>2
<1>5. /\ SubSeq(a2 \o (b \o tail), 1, Len(a2)) = a2
      /\ SubSeq(a \o v, 1, Len(a)) = a
      /\ SubSeq(a2 \o (b \o tail), Len(a2) + 1, Len(a2 \o (b \o tail))) = b \o tail
      /\ SubSeq(a \o v, Len(a) + 1, Len(a \o v)) = v
  BY <1>2, <1>4, CutConcat
<1>6. a2 = a /\ b \o tail = v
  BY <1>2, <1>4, <1>5
<1>7. QED
  BY <1>2, <1>3, <1>6 DEF Begins

LEMMA WordRead ==
    ASSUME NEW n \in Number, NEW v \in Seq(Byte), wire = Word(n) \o v
    PROVE  /\ Len(wire) >= WordLen /\ Len(wire) \in Nat
           /\ NextWord = n
           /\ ReadU64 => wire' = v
<1>1. PICK w \in Seq(Byte) : w = Word(n) /\ Len(w) = WordLen
  BY WordIsBytes DEF Number
<1>2. wire = w \o v
  BY <1>1
<1>3. SubSeq(wire, 1, WordLen) = w /\ SubSeq(wire, WordLen + 1, Len(wire)) = v
  BY <1>1, <1>2, CutConcat
<1>4. NextWord = n
  BY <1>1, <1>3, WordRoundTrip DEF NextWord, Number
<1>5. Len(wire) = WordLen + Len(v)
  BY <1>1, <1>2, ConcatProperties
<1>6. Len(wire) >= WordLen /\ Len(wire) \in Nat
  BY <1>5, SmallBytes
<1>7. ReadU64 => wire' = v
  BY <1>3 DEF ReadU64, ReadExact
<1>8. QED
  BY <1>4, <1>6, <1>7

\* Which step there is, is up to what is to be read.
LEMMA ByKind ==
    ASSUME Typed, Deserialize
    PROVE  /\ todo # << >> /\ pc = "read"
           /\ WordLen <= Len(wire) =>
                /\ Is(Top, "u64") => DeserializeU64
                /\ Is(Top, "bool") => DeserializeBool
                /\ Is(Top, "bytes") => ReadByteBufLen
                /\ Is(Top, "option") => DeserializeOption
                /\ Is(Top, "seq") => DeserializeSeq
                /\ Is(Top, "tagged") => DeserializeTagged
                /\ Is(Top, "framed") => ReadFrameLen
           /\ Top.is = "buf" /\ BufSpan(Top.len) <= Len(wire) => ReadByteBuf
           /\ Top.is = "frame" /\ Top.len <= Len(wire) => ReadFrame
           /\ Top.is = "many" => NextElement
           /\ Is(Top, "tuple") => DeserializeTuple
           /\ Is(Top, "newtype") => DeserializeNewtype
           /\ Is(Top, "unit") => DeserializeUnit
           /\ Is(Top, "or_eof") => ReadErrorMsgOrEof
<1>1. todo # << >> /\ pc = "read"
  BY DEF Deserialize, DeserializeU64, DeserializeBool, ReadByteBufLen, ReadByteBuf,
         DeserializeOption, DeserializeSeq, NextElement, DeserializeTuple,
         DeserializeNewtype, DeserializeUnit, DeserializeTagged, ReadFrameLen, ReadFrame,
         ReadErrorMsgOrEof, WontImplement, UnexpectedEof, At, In
<1>2. \A shape : At(shape) => Is(Top, shape)
  BY <1>1 DEF At, Is
<1>3. /\ DeserializeU64 => Is(Top, "u64")
      /\ DeserializeBool => Is(Top, "bool")
      /\ ReadByteBufLen => Is(Top, "bytes")
      /\ DeserializeOption => Is(Top, "option")
      /\ DeserializeSeq => Is(Top, "seq")
      /\ DeserializeTagged => Is(Top, "tagged")
      /\ ReadFrameLen => Is(Top, "framed")
      /\ DeserializeTuple => Is(Top, "tuple")
      /\ DeserializeNewtype => Is(Top, "newtype")
      /\ DeserializeUnit => Is(Top, "unit")
      /\ ReadErrorMsgOrEof => Is(Top, "or_eof")
      /\ WontImplement => \E shape \in WontRead : Is(Top, shape)
  BY <1>2 DEF DeserializeU64, DeserializeBool, ReadByteBufLen,
         DeserializeOption, DeserializeSeq, DeserializeTuple,
         DeserializeNewtype, DeserializeUnit, DeserializeTagged, ReadFrameLen,
         ReadErrorMsgOrEof, WontImplement
<1>4. /\ ReadByteBuf => Top.is = "buf"
      /\ ReadFrame => Top.is = "frame"
      /\ NextElement => Top.is = "many"
  BY DEF ReadByteBuf, ReadFrame, NextElement, In
<1>5. UnexpectedEof => Len(wire) < Wants
  BY DEF UnexpectedEof
<1>6. /\ Top.is = "buf" => Wants = BufSpan(Top.len)
      /\ Top.is = "frame" => Wants = Top.len
      /\ Top.is = "many" => Wants = 0
      /\ \A shape \in { "u64", "bool", "bytes", "option", "seq", "tagged", "framed" } :
           Is(Top, shape) => Wants = WordLen
      /\ \A shape \in { "tuple", "newtype", "unit", "or_eof" } : Is(Top, shape) => Wants = 0
  BY DEF Wants, Is
<1>7. Len(wire) \in Nat /\ WordLen \in Nat
  BY SmallBytes DEF Typed
<1>8. Top \in Item /\ (Top.is = "buf" => Top.len \in Number)
  BY <1>1, Front
<1>9. Top.is = "buf" => BufSpan(Top.len) \in Nat
  BY <1>8, PaddingIsNat DEF Number
<1>10. Top.len \in Nat
  BY <1>8 DEF Item
<1>11. ~ (UnexpectedEof /\ Wants \in Nat /\ Wants <= Len(wire))
  BY <1>5, <1>7
<1>12. ASSUME NEW shape, Is(Top, shape)
       PROVE  \A other : Is(Top, other) <=> other = shape
  BY <1>12 DEF Is
<1>13. ASSUME NEW shape, Is(Top, shape) PROVE Top.is \notin { "buf", "frame", "many" }
  BY <1>13 DEF Is
<1>14. WordLen <= Len(wire) =>
                /\ Is(Top, "u64") => DeserializeU64
                /\ Is(Top, "bool") => DeserializeBool
                /\ Is(Top, "bytes") => ReadByteBufLen
                /\ Is(Top, "option") => DeserializeOption
                /\ Is(Top, "seq") => DeserializeSeq
                /\ Is(Top, "tagged") => DeserializeTagged
                /\ Is(Top, "framed") => ReadFrameLen
  BY <1>3, <1>4, <1>6, <1>7, <1>11, <1>12, <1>13 DEF Deserialize, WontRead
<1>15. /\ Top.is = "buf" /\ BufSpan(Top.len) <= Len(wire) => ReadByteBuf
       /\ Top.is = "frame" /\ Top.len <= Len(wire) => ReadFrame
       /\ Top.is = "many" => NextElement
  BY <1>3, <1>4, <1>6, <1>7, <1>9, <1>10, <1>11, <1>13 DEF Deserialize
<1>16. /\ Is(Top, "tuple") => DeserializeTuple
       /\ Is(Top, "newtype") => DeserializeNewtype
       /\ Is(Top, "unit") => DeserializeUnit
       /\ Is(Top, "or_eof") => ReadErrorMsgOrEof
  BY <1>3, <1>4, <1>6, <1>7, <1>11, <1>12, <1>13 DEF Deserialize, WontRead
<1>17. QED
  BY <1>1, <1>14, <1>15, <1>16

\* A word that tells a visitor of a call.
LEMMA RereadsAWord ==
    ASSUME Typed, Deserialize, Top.is = "one", NEW c \in Told, NEW more, Tells(Top, c, more),
           NEW v \in Seq(Byte), wire = Written(c) \o v
    PROVE  Unmoved /\ got' = Append(got, c) /\ todo' = more \o Below /\ wire' = v
<1>1. todo # << >>
  BY ByKind
<1>2. 0 \in Number /\ 1 \in Number /\ 0 # 1
  BY SmallFit DEF Number
<1>3. ASSUME NEW n \in Number, Written(c) = Word(n)
      PROVE  /\ NextWord = n /\ WordLen <= Len(wire)
             /\ ReadU64 => wire' = v
  BY <1>3, WordRead, SmallBytes
<1>4. ASSUME NEW name, NEW value, NEW rest, Visit(name, value, rest)
      PROVE  Unmoved /\ got' = Append(got, Call(name, value)) /\ todo' = rest \o Below
  BY <1>4 DEF Visit, Unmoved
<1>5. CASE Is(Top, "u64")
  <2>1. PICK n \in Number : c = Call("u64", << n >>) /\ more = << >>
    BY <1>5 DEF Tells, Is
  <2>2. Written(c) = Word(n)
    BY <2>1 DEF Written, Silent, Call
  <2>3. NextWord = n /\ DeserializeU64
    BY <1>3, <1>5, <2>2, ByKind
  <2>4. ReadU64 /\ Visit("u64", << n >>, << >>)
    BY <2>3 DEF DeserializeU64
  <2>5. QED
    BY <1>3, <1>4, <2>1, <2>2, <2>4
<1>6. CASE Is(Top, "bool")
  <2>1. PICK n \in { 0, 1 } : c = Call("bool", << n >>) /\ more = << >>
    BY <1>6 DEF Tells, Is
  <2>2. Written(c) = Word(n)
    BY <2>1 DEF Written, Silent, Call, SerializeBool
  <2>3. NextWord = n /\ DeserializeBool
    BY <1>2, <1>3, <1>6, <2>2, ByKind
  <2>4. BoolValue(NextWord) = n
    BY <2>1, <2>3 DEF BoolValue
  <2>5. ReadU64 /\ Visit("bool", << n >>, << >>)
    BY <2>3, <2>4 DEF DeserializeBool
  <2>6. QED
    BY <1>2, <1>3, <1>4, <2>1, <2>2, <2>5
<1>7. CASE Is(Top, "option")
  <2>1. \/ c = Call("none", << >>) /\ more = << >>
        \/ c = Call("some", << >>) /\ more = << One(Types[Top.type].of) >>
    BY <1>7 DEF Tells, Is
  <2>2. CASE c = Call("none", << >>) /\ more = << >>
    <3>1. Written(c) = Word(0)
      BY <2>2 DEF Written, Silent, Call, SerializeNone
    <3>2. NextWord = 0 /\ DeserializeOption
      BY <1>2, <1>3, <1>7, <3>1, ByKind
    <3>3. ReadU64 /\ Visit("none", << >>, << >>)
      BY <3>2 DEF DeserializeOption
    <3>4. QED
      BY <1>2, <1>3, <1>4, <2>2, <3>1, <3>3
  <2>3. CASE c = Call("some", << >>) /\ more = << One(Types[Top.type].of) >>
    <3>1. Written(c) = Word(1)
      BY <2>3 DEF Written, Silent, Call, SerializeSome
    <3>2. NextWord = 1 /\ DeserializeOption
      BY <1>2, <1>3, <1>7, <3>1, ByKind
    <3>3. ReadU64 /\ Visit("some", << >>, more)
      BY <2>3, <3>2 DEF DeserializeOption
    <3>4. QED
      BY <1>2, <1>3, <1>4, <2>3, <3>1, <3>3
  <2>4. QED
    BY <2>1, <2>2, <2>3
<1>8. CASE Is(Top, "seq")
  <2>1. PICK n \in Number :
          c = Call("seq", << n >>) /\ more = << Many(Types[Top.type].of, n) >>
    BY <1>8 DEF Tells, Is
  <2>2. Written(c) = Word(n)
    BY <2>1 DEF Written, Silent, Call, SerializeSeq
  <2>3. NextWord = n /\ DeserializeSeq
    BY <1>3, <1>8, <2>2, ByKind
  <2>4. ReadU64 /\ Visit("seq", << n >>, more)
    BY <2>1, <2>3 DEF DeserializeSeq
  <2>5. QED
    BY <1>3, <1>4, <2>1, <2>2, <2>4
<1>9. CASE Is(Top, "tagged")
  <2>1. PICK n \in Number \cap DOMAIN Types[Top.type].variants :
          c = Call("u64", << n >>) /\ more = Each(Types[Top.type].variants[n])
    BY <1>9 DEF Tells, Is
  <2>2. Written(c) = Word(n)
    BY <2>1 DEF Written, Silent, Call
  <2>3. NextWord = n /\ DeserializeTagged
    BY <1>3, <1>9, <2>2, ByKind
  <2>4. ReadU64 /\ Visit("u64", << n >>, more)
    BY <2>1, <2>3 DEF DeserializeTagged
  <2>5. QED
    BY <1>3, <1>4, <2>1, <2>2, <2>4
<1>10. CASE Is(Top, "framed")
  <2>1. c = Call("last_frame", << >>) /\ more = << >>
    BY <1>10 DEF Tells, Is
  <2>2. Written(c) = Word(0)
    BY <2>1 DEF Written, Silent, Call, WriteLastFrame
  <2>3. NextWord = 0 /\ ReadFrameLen
    BY <1>2, <1>3, <1>10, <2>2, ByKind
  <2>4. ReadU64 /\ Visit("last_frame", << >>, << >>)
    BY <2>3 DEF ReadFrameLen
  <2>5. QED
    BY <1>2, <1>3, <1>4, <2>1, <2>2, <2>4
<1>11. QED
  BY <1>5, <1>6, <1>7, <1>8, <1>9, <1>10 DEF Tells, Is

\* The contents of a buffer.
LEMMA RereadsABuffer ==
    ASSUME Typed, Deserialize, Top.is \in { "buf", "frame" }, NEW c \in Told, NEW more,
           Tells(Top, c, more), NEW v \in Seq(Byte), Pending(todo) \o wire = Written(c) \o v
    PROVE  Unmoved /\ got' = Append(got, c) /\ todo' = more \o Below /\ wire' = v
<1>1. todo # << >> /\ wire \in Seq(Byte)
  BY ByKind DEF Typed
<1>2. Top.len \in Number /\ Pending(todo) = Word(Top.len)
  BY <1>1, Front
<1>3. PICK w \in Seq(Byte) : w = Word(Top.len)
  BY <1>2, WordIsBytes DEF Number
<1>4. ASSUME NEW u \in Seq(Byte), w \o wire = (w \o u) \o v
      PROVE  wire = u \o v
  <2>1. w \o wire = w \o (u \o v)
    BY <1>4
  <2>2. u \o v \in Seq(Byte)
    OBVIOUS
  <2>3. QED
    BY <1>1, <2>1, <2>2, ConcatSimplifications
<1>5. CASE Top.is = "buf"
  <2>1. PICK s \in Seq(Byte) : Len(s) = Top.len /\ c = Call("bytes", s) /\ more = << >>
    BY <1>5 DEF Tells, Is
  <2>2. Padding(Top.len) \in Nat /\ BufSpan(Top.len) = Top.len + Padding(Top.len)
        /\ Top.len \in Nat
    BY <1>2, PaddingIsNat DEF Number
  <2>3. PICK z \in Seq(Byte) : z = Zeros(Padding(Top.len)) /\ Len(z) = Padding(Top.len)
    BY <2>2, ZerosIsBytes
  <2>4. Written(c) = w \o s \o z
    BY <1>3, <2>1, <2>3 DEF Written, Silent, Call, WriteByteBuf
  <2>5. w \o wire = (w \o (s \o z)) \o v /\ s \o z \in Seq(Byte)
    <3>1. s \o z \in Seq(Byte) /\ (w \o s) \o z = w \o (s \o z)
      OBVIOUS
    <3>2. w \o wire = Written(c) \o v
      BY <1>2, <1>3
    <3>3. QED
      BY <2>4, <3>1, <3>2
  <2>6. wire = (s \o z) \o v
    BY <1>4, <2>5
  <2>7. Len(s \o z) = BufSpan(Top.len)
    BY <2>1, <2>2, <2>3
  <2>8. BufSpan(Top.len) <= Len(wire)
    BY <2>2, <2>5, <2>6, <2>7
  <2>9. ReadByteBuf
    BY <1>5, <2>8, ByKind
  <2>10. wire' = v
    <3>1. wire' = SubSeq(wire, BufSpan(Top.len) + 1, Len(wire))
      BY <2>9 DEF ReadByteBuf, ReadExact
    <3>2. QED
      BY <2>5, <2>6, <2>7, <3>1, CutConcat
  <2>11. SubSeq(wire, 1, Top.len) = s
    <3>1. wire = s \o (z \o v) /\ z \o v \in Seq(Byte)
      BY <2>6
    <3>2. QED
      BY <2>1, <3>1, CutConcat
  <2>12. Visit("bytes", s, << >>)
    BY <2>9, <2>11 DEF ReadByteBuf
  <2>13. QED
    BY <2>1, <2>10, <2>12 DEF Visit, Unmoved
<1>6. CASE Top.is = "frame"
  <2>1. PICK s \in Seq(Byte) : Len(s) = Top.len /\ c = Call("frame", s) /\ more = << >>
    BY <1>6 DEF Tells, Is
  <2>2. Written(c) = w \o s
    BY <1>3, <2>1 DEF Written, Silent, Call, WriteFrame
  <2>3. wire = s \o v
    BY <1>2, <1>3, <1>4, <2>2
  <2>4. Top.len <= Len(wire)
    BY <2>1, <2>3
  <2>5. ReadFrame
    BY <1>6, <2>4, ByKind
  <2>6. SubSeq(wire, 1, Top.len) = s /\ SubSeq(wire, Top.len + 1, Len(wire)) = v
    BY <2>1, <2>3, CutConcat
  <2>7. wire' = v /\ Visit("frame", s, << >>)
    BY <2>5, <2>6 DEF ReadFrame, ReadExact
  <2>8. QED
    BY <2>1, <2>7 DEF Visit, Unmoved
<1>7. QED
  BY <1>5, <1>6

LEMMA PendingIs ==
    ASSUME NEW more \in Stack, NEW below \in Seq(Plain)
    PROVE  Pending(more \o below) = Pending(more)
<1>1. CASE more = << >>
  <2>1. more \o below = below
    BY <1>1
  <2>2. below # << >> => Head(below) \in Plain
    OBVIOUS
  <2>3. Pending(below) = << >>
    BY <2>2 DEF Pending, Plain
  <2>4. QED
    BY <1>1, <2>1, <2>3 DEF Pending
<1>2. CASE more # << >>
  <2>1. more \in Seq(Item) /\ below \in Seq(Item)
    BY SeqMonotonic DEF Stack, Plain
  <2>2. more \o below # << >> /\ Head(more \o below) = Head(more)
    BY <1>2, <2>1
  <2>3. QED
    BY <1>2, <2>2 DEF Pending
<1>3. QED
  BY <1>1, <1>2

\* Where the bytes do not suffice the stream ends unexpectedly.
LEMMA TooShort ==
    ASSUME Typed, Deserialize, Len(wire) < Wants
    PROVE  UnexpectedEof
<1>1. todo # << >> /\ Top \in Item
  BY ByKind, Front
<1>2. Len(wire) \in Nat /\ WordLen \in Nat
  BY SmallBytes DEF Typed
<1>3. Wants = 0 \/ Wants = WordLen \/ Top.is \in { "buf", "frame" }
  BY <1>1 DEF Wants, Item
<1>4. ~ (Wants = 0)
  BY <1>2
<1>5. ASSUME NEW shape \in { "u64", "bool", "bytes", "option", "seq", "tagged", "framed" }, At(shape)
      PROVE  ~ ReadU64
  BY <1>2, <1>5 DEF At, Wants, ReadU64, ReadExact
<1>6. /\ ~ DeserializeU64 /\ ~ DeserializeBool /\ ~ ReadByteBufLen /\ ~ DeserializeOption
      /\ ~ DeserializeSeq /\ ~ DeserializeTagged /\ ~ ReadFrameLen
  BY <1>5 DEF DeserializeU64, DeserializeBool, ReadByteBufLen, DeserializeOption,
              DeserializeSeq, DeserializeTagged, ReadFrameLen
<1>7. ~ ReadByteBuf
  <2>1. SUFFICES ASSUME ReadByteBuf PROVE FALSE
    OBVIOUS
  <2>2. Top.is = "buf" /\ Len(wire) >= BufSpan(Top.len)
    BY <2>1 DEF ReadByteBuf, In, ReadExact
  <2>3. Top.len \in Nat /\ BufSpan(Top.len) \in Nat
    BY <1>1, PaddingIsNat DEF Item
  <2>4. Wants = BufSpan(Top.len)
    BY <2>2 DEF Wants
  <2>5. QED
    BY <1>2, <2>2, <2>3, <2>4
<1>8. ~ ReadFrame
  <2>1. SUFFICES ASSUME ReadFrame PROVE FALSE
    OBVIOUS
  <2>2. Top.is = "frame" /\ Len(wire) >= Top.len /\ Wants = Top.len
    BY <2>1 DEF ReadFrame, In, ReadExact, Wants
  <2>3. Top.len \in Nat
    BY <1>1 DEF Item
  <2>4. QED
    BY <1>2, <2>2, <2>3
<1>9. ~ NextElement
  BY <1>4 DEF NextElement, In, Wants
<1>10. ASSUME NEW shape \in { "tuple", "newtype", "unit", "or_eof" } \cup WontRead
       PROVE  ~ At(shape)
  BY <1>4 DEF At, Wants, WontRead
<1>11. ~ DeserializeTuple /\ ~ DeserializeNewtype /\ ~ DeserializeUnit /\ ~ ReadErrorMsgOrEof
       /\ ~ WontImplement
  BY <1>10 DEF DeserializeTuple, DeserializeNewtype, DeserializeUnit, ReadErrorMsgOrEof,
               WontImplement
<1>12. QED
  BY <1>6, <1>7, <1>8, <1>9, <1>11 DEF Deserialize

\* But there are enough bytes of what was written, if all of them come.
LEMMA Enough ==
    ASSUME Typed, todo # << >>, NEW r \in Seq(Told), Parses(todo, r),
           NEW u \in Seq(Byte), Wrote(r, Pending(todo) \o u)
    PROVE  /\ Wants <= Len(u)
           /\ Is(Top, "or_eof") => u # << >> \/ r = << Call("eof", << >>) >>
<1>1. Top \in Item /\ Below \in Seq(Plain) /\ todo \in Stack
      /\ (Top.is \in { "buf", "frame" } => Top.len \in Number /\ Pending(todo) = Word(Top.len))
      /\ (Top.is \in { "one", "many" } => Pending(todo) = << >>)
  BY Front DEF Typed
<1>2. PICK p \in Seq(Byte) : p = Pending(todo) /\ Wrote(r, p \o u) /\ p \o u \in Seq(Byte)
  <2>1. Pending(todo) \in Seq(Byte)
    <3>1. Pending(todo) = << >> \/ (Top.len \in Number /\ Pending(todo) = Word(Top.len))
      BY <1>1 DEF Item
    <3>2. << >> \in Seq(Byte)
      OBVIOUS
    <3>3. QED
      BY <3>1, <3>2, WordIsBytes DEF Number
  <2>2. QED
    BY <2>1, Regroup
<1>3. WordLen \in Nat \ {0} /\ Len(u) \in Nat /\ Len(p) \in Nat /\ Len(p \o u) = Len(p) + Len(u)
  BY SizeAssumption, ConcatProperties
<1>4. ASSUME r # << >>
      PROVE  /\ Head(r) \in Told /\ Len(Written(Head(r))) \in Nat
             /\ Len(Written(Head(r))) <= Len(p) + Len(u)
  <2>1. PICK v \in Seq(Byte) : p \o u = Written(Head(r)) \o v
    BY <1>2, <1>4, WroteFrom
  <2>2. Head(r) \in Told
    BY <1>4
  <2>3. PICK w \in Seq(Byte) : w = Written(Head(r))
    BY <2>2, WrittenIsBytes DEF Told
  <2>4. Len(p \o u) = Len(w) + Len(v)
    BY <2>1, <2>3, ConcatProperties
  <2>5. Len(w) \in Nat /\ Len(v) \in Nat
    OBVIOUS
  <2>6. QED
    BY <1>3, <2>2, <2>3, <2>4, <2>5
<1>5. PICK td2 \in Stack, r2 \in Seq(Told) : Steps(todo, r, td2, r2) /\ Parses(td2, r2)
  BY <1>1, ParsesFrom
<1>6. CASE \E c \in Told, more \in Seq(Plain) : Tells(Top, c, more) /\ r = << c >> \o r2
  <2>1. PICK c \in Told, more \in Seq(Plain) : Tells(Top, c, more) /\ r = << c >> \o r2
    BY <1>6
  <2>2. r # << >> /\ Head(r) = c
    BY <2>1, Cons
  <2>3. Len(Written(c)) <= Len(p) + Len(u) /\ ~ Is(Top, "or_eof")
    BY <1>4, <2>1, <2>2 DEF Tells, Is
  <2>4. CASE Top.is = "one"
    <3>1. c.call \in { "u64", "bool", "none", "some", "seq", "last_frame" }
      BY <2>1, <2>4 DEF Tells, Is, Call
    <3>2. Len(Written(c)) = WordLen /\ Len(p) = 0
      BY <1>1, <1>2, <2>4, <3>1, LenWritten
    <3>3. Wants = WordLen
      BY <2>1, <2>4 DEF Wants, Tells, Is
    <3>4. QED
      BY <1>3, <2>3, <3>2, <3>3
  <2>5. CASE Top.is = "buf"
    <3>1. c.call = "bytes" /\ Len(c.value) = Top.len
      BY <2>1, <2>5 DEF Tells, Is, Call
    <3>2. Len(Written(c)) = WordLen + BufSpan(Top.len) /\ Len(p) = WordLen
      BY <1>1, <1>2, <2>5, <3>1, LenWritten, WordIsBytes DEF Number
    <3>3. Wants = BufSpan(Top.len) /\ BufSpan(Top.len) \in Nat
      BY <1>1, <2>5, PaddingIsNat DEF Wants, Number
    <3>4. QED
      BY <1>3, <2>3, <3>2, <3>3
  <2>6. CASE Top.is = "frame"
    <3>1. c.call = "frame" /\ Len(c.value) = Top.len
      BY <2>1, <2>6 DEF Tells, Is, Call
    <3>2. Len(Written(c)) = WordLen + Top.len /\ Len(p) = WordLen
      BY <1>1, <1>2, <2>6, <3>1, LenWritten, WordIsBytes DEF Number
    <3>3. Wants = Top.len /\ Top.len \in Nat
      BY <1>1, <2>6 DEF Wants, Number
    <3>4. QED
      BY <1>3, <2>3, <3>2, <3>3
  <2>7. Top.is # "many"
    BY <2>1 DEF Tells, Is
  <2>8. QED
    BY <1>1, <2>4, <2>5, <2>6, <2>7 DEF Item
<1>7. CASE \E more \in Stack : Opens(Top, more) /\ r2 = r /\ td2 = more \o Below
  <2>1. PICK more \in Stack : Opens(Top, more) /\ r2 = r /\ td2 = more \o Below
    BY <1>7
  <2>2. Len(p) = 0
    <3>1. Top \in Plain
      BY <1>1, <2>1, OpensIs
    <3>2. QED
      BY <1>1, <1>2, <3>1 DEF Plain
  <2>3. ASSUME more # << >>
        PROVE  /\ Head(more).is \in { "buf", "frame" } => r # << >> /\ Head(r).call \in { "bytes", "frame" }
                    /\ Len(Head(r).value) = Head(more).len
               /\ Is(Head(more), "tagged") => r # << >> /\ Head(r).call = "u64"
    <3>1. td2 # << >> /\ Head(td2) = Head(more)
      <4>1. more \in Seq(Item) /\ Below \in Seq(Item)
        BY <1>1, SeqMonotonic DEF Stack, Plain
      <4>2. QED
        BY <2>1, <2>3, <4>1
    <3>2. QED
      BY <1>5, <2>1, <3>1, Expects
  <2>4. CASE Is(Top, "bytes") \/ Is(Top, "framed")
    <3>1. PICK n \in Number : more = << Buf(n) >> \/ more = << FrameBuf(n), Top >>
      BY <2>1, <2>4 DEF Opens, Is
    <3>2. more # << >> /\ Head(more).is \in { "buf", "frame" } /\ Head(more).len = n
      BY <3>1 DEF Buf, FrameBuf
    <3>3. r # << >> /\ Head(r).call \in { "bytes", "frame" } /\ Len(Head(r).value) = n
      BY <2>3, <3>2
    <3>4. n \in Nat /\ BufSpan(n) \in Nat
      BY PaddingIsNat DEF Number
    <3>5. Head(r) \in Told /\ Len(Written(Head(r))) <= Len(u)
      BY <1>3, <1>4, <2>2, <3>3
    <3>6. WordLen <= Len(Written(Head(r)))
      BY <1>3, <3>3, <3>4, <3>5, LenWritten
    <3>7. Len(Written(Head(r))) \in Nat
      BY <1>4, <3>3
    <3>8. Wants = WordLen /\ ~ Is(Top, "or_eof")
      BY <2>4 DEF Wants, Is
    <3>9. QED
      BY <1>3, <3>5, <3>6, <3>7, <3>8
  <2>5. CASE Is(Top, "or_eof")
    <3>1. more = << One(Types[Top.type].of) >>
      BY <2>1, <2>5 DEF Opens, Is
    <3>2. Is(One(Types[Top.type].of), "tagged")
      BY <1>1, <2>5, InputAssumption DEF TypesAssumption, Is, Item, One
    <3>3. more # << >> /\ Is(Head(more), "tagged")
      BY <3>1, <3>2
    <3>4. r # << >> /\ Head(r).call = "u64"
      BY <2>3, <3>3
    <3>5. Head(r) \in Told /\ Len(Written(Head(r))) = WordLen
      BY <1>4, <3>4, LenWritten
    <3>6. u # << >>
      <4>1. Len(u) # 0
        BY <1>3, <1>4, <2>2, <3>4, <3>5
      <4>2. QED
        BY <4>1
    <3>7. Wants = 0
      BY <2>5 DEF Wants, Is
    <3>8. QED
      BY <1>3, <3>6, <3>7
  <2>6. CASE ~ (Is(Top, "bytes") \/ Is(Top, "framed") \/ Is(Top, "or_eof"))
    <3>1. Wants = 0
      BY <2>1, <2>6 DEF Wants, Opens, Is
    <3>2. QED
      BY <1>3, <2>6, <3>1
  <2>7. QED
    BY <2>4, <2>5, <2>6
<1>8. CASE Is(Top, "or_eof") /\ r = << Call("eof", << >>) >>
  <2>1. Wants = 0
    BY <1>8 DEF Wants, Is
  <2>2. QED
    BY <1>3, <1>8, <2>1
<1>9. QED
  BY <1>5, <1>6, <1>7, <1>8 DEF Steps, Top, Below

\* What is found out before a visitor is told.
LEMMA RereadsAnOpening ==
    ASSUME Typed, Deserialize, NEW more \in Stack, Opens(Top, more),
           NEW r \in Seq(Told), Parses(more \o Below, r),
           NEW tail \in Seq(Byte), Wrote(r, wire \o tail),
           Wants <= Len(wire), Is(Top, "or_eof") => wire # << >>
    PROVE  Unmoved /\ got' = got /\ todo' = more \o Below /\ Pending(more) \o wire' = wire
<1>1. todo # << >> /\ wire \in Seq(Byte)
  BY ByKind DEF Typed
<1>2. Top \in Item /\ Below \in Seq(Plain) /\ more \o Below \in Stack
  BY <1>1, Front, Pushed
<1>3. ASSUME NEW rest, Descend(rest)
      PROVE  Unmoved /\ got' = got /\ todo' = rest \o Below
  BY <1>3 DEF Descend, Unmoved
<1>4. more # << >> => more \o Below # << >> /\ Head(more \o Below) = Head(more)
  <2>1. more \in Seq(Item) /\ Below \in Seq(Item)
    BY <1>2, SeqMonotonic DEF Stack, Plain
  <2>2. QED
    BY <2>1
<1>5. ASSUME r # << >>
      PROVE  \E v \in Seq(Byte) : wire \o tail = Written(Head(r)) \o v
  <2>1. wire \o tail \in Seq(Byte)
    BY <1>1, Regroup
  <2>2. QED
    BY <1>5, <2>1, WroteFrom
<1>6. ASSUME more # << >>
      PROVE  /\ Head(more).is = "buf" =>
                  r # << >> /\ Head(r).call = "bytes" /\ Len(Head(r).value) = Head(more).len
             /\ Head(more).is = "frame" =>
                  r # << >> /\ Head(r).call = "frame" /\ Len(Head(r).value) = Head(more).len
  <2>1. PICK td \in Stack : td = more \o Below
    BY <1>2
  <2>2. Parses(td, r) /\ td # << >> /\ Head(td) = Head(more)
    BY <1>4, <1>6, <2>1
  <2>3. QED
    BY <2>2, Expects
<1>7. ASSUME NEW n \in Number, NEW v \in Seq(Byte), wire = Word(n) \o v
      PROVE  /\ NextWord = n /\ WordLen <= Len(wire)
             /\ ReadU64 => Word(n) \o wire' = wire
  BY <1>7, WordRead, SmallBytes
<1>8. ASSUME NEW n \in Number, NEW v \in Seq(Byte), wire \o tail = Word(n) \o v,
              WordLen <= Len(wire)
       PROVE  \E b \in Seq(Byte) : wire = Word(n) \o b
  <2>1. PICK w \in Seq(Byte) : w = Word(n) /\ Len(w) = WordLen
    BY WordIsBytes DEF Number
  <2>2. PICK s \in Seq(Byte) : s = wire
    BY <1>1
  <2>3. s \o tail = w \o v /\ Len(w) <= Len(s)
    BY <1>8, <2>1, <2>2
  <2>4. Begins(s, tail, w, v)
    BY <2>3, Split
  <2>5. QED
    BY <2>1, <2>2, <2>4 DEF Begins
<1>9. ASSUME UNCHANGED wire, Pending(more) = << >>
      PROVE  Pending(more) \o wire' = wire
  BY <1>1, <1>9
<1>10. CASE Is(Top, "bytes")
  <2>1. PICK n \in Number : Allocates(n) /\ more = << Buf(n) >>
    BY <1>10 DEF Opens, Is
  <2>2. more # << >> /\ Head(more) = Buf(n) /\ Pending(more) = Word(n)
    BY <2>1 DEF Pending, Buf
  <2>3. r # << >> /\ Head(r).call = "bytes" /\ Len(Head(r).value) = n
    <3>1. Buf(n).is = "buf" /\ Buf(n).len = n
      BY DEF Buf
    <3>2. QED
      BY <1>6, <2>2, <3>1
  <2>4. Head(r).value \in Seq(Byte)
    BY <2>3, Uncons DEF Told, AnyCall
  <2>10. PICK x \in Seq(Byte) : wire \o tail = Word(n) \o x
    <3>1. PICK u \in Seq(Byte) : wire \o tail = Written(Head(r)) \o u
      BY <1>5, <2>3
    <3>2. Written(Head(r)) = (Word(n) \o Head(r).value) \o Zeros(Padding(n))
      BY <2>3 DEF Written, Silent, WriteByteBuf
    <3>3. PICK w \in Seq(Byte) : w = Word(n)
      BY WordIsBytes DEF Number
    <3>4. PICK z \in Seq(Byte) : z = Zeros(Padding(n))
      BY PaddingIsNat, ZerosIsBytes DEF Number
    <3>5. wire \o tail = ((w \o Head(r).value) \o z) \o u
      BY <3>1, <3>2, <3>3, <3>4
    <3>6. PICK h \in Seq(Byte) : h = Head(r).value
      BY <2>4
    <3>7. ((w \o h) \o z) \o u = w \o (h \o (z \o u)) /\ h \o (z \o u) \in Seq(Byte)
      <4>1. PICK p \in Seq(Byte) : p = w \o h
        BY Regroup
      <4>2. PICK q \in Seq(Byte) : q = z \o u
        BY Regroup
      <4>3. (p \o z) \o u = p \o q
        <5>1. (p \o z) \o u = p \o (z \o u)
          <6>1. Regroups(p, z, u)
            BY Grouping
          <6>2. QED
            BY <6>1 DEF Regroups
        <5>2. QED
          BY <4>2, <5>1
      <4>4. p \o q = w \o (h \o q) /\ h \o q \in Seq(Byte)
        <5>1. (w \o h) \o q = w \o (h \o q)
          <6>1. Regroups(w, h, q)
            BY Grouping
          <6>2. QED
            BY <6>1 DEF Regroups
        <5>2. h \o q \in Seq(Byte)
          BY ConcatProperties
        <5>3. QED
          BY <4>1, <5>1, <5>2
      <4>5. QED
        BY <4>1, <4>2, <4>3, <4>4
    <3>8. QED
      BY <3>3, <3>5, <3>6, <3>7
  <2>5. PICK v \in Seq(Byte) : wire = Word(n) \o v
    <3>1. Wants = WordLen
      BY <1>10 DEF Wants, Is
    <3>2. QED
      BY <1>8, <2>10, <3>1
  <2>6. NextWord = n /\ ReadByteBufLen
    BY <1>7, <1>10, <2>5, ByKind
  <2>7. ReadU64 /\ Descend(more)
    BY <2>1, <2>6 DEF ReadByteBufLen
  <2>8. Word(n) \o wire' = wire
    BY <1>7, <2>5, <2>7
  <2>9. QED
    BY <1>3, <2>2, <2>7, <2>8
<1>11. CASE Is(Top, "framed")
  <2>1. PICK n \in Number : n # 0 /\ Allocates(n) /\ more = << FrameBuf(n), Top >>
    BY <1>11 DEF Opens, Is
  <2>2. more # << >> /\ Head(more) = FrameBuf(n) /\ Pending(more) = Word(n)
    BY <2>1 DEF Pending, FrameBuf
  <2>3. r # << >> /\ Head(r).call = "frame" /\ Len(Head(r).value) = n
    <3>1. FrameBuf(n).is = "frame" /\ FrameBuf(n).len = n
      BY DEF FrameBuf
    <3>2. QED
      BY <1>6, <2>2, <3>1
  <2>4. Head(r).value \in Seq(Byte)
    BY <2>3, Uncons DEF Told, AnyCall
  <2>10. PICK x \in Seq(Byte) : wire \o tail = Word(n) \o x
    <3>1. PICK u \in Seq(Byte) : wire \o tail = Written(Head(r)) \o u
      BY <1>5, <2>3
    <3>2. Written(Head(r)) = Word(n) \o Head(r).value
      BY <2>3 DEF Written, Silent, WriteFrame
    <3>3. PICK w \in Seq(Byte) : w = Word(n)
      BY WordIsBytes DEF Number
    <3>4. wire \o tail = (w \o Head(r).value) \o u
      BY <3>1, <3>2, <3>3
    <3>5. PICK h \in Seq(Byte) : h = Head(r).value
      BY <2>4
    <3>6. (w \o h) \o u = w \o (h \o u) /\ h \o u \in Seq(Byte)
      OBVIOUS
    <3>7. QED
      BY <3>3, <3>4, <3>5, <3>6
  <2>5. PICK v \in Seq(Byte) : wire = Word(n) \o v
    <3>1. Wants = WordLen
      BY <1>11 DEF Wants, Is
    <3>2. QED
      BY <1>8, <2>10, <3>1
  <2>6. NextWord = n /\ ReadFrameLen
    BY <1>7, <1>11, <2>5, ByKind
  <2>7. ReadU64 /\ Descend(more)
    BY <2>1, <2>6 DEF ReadFrameLen
  <2>8. Word(n) \o wire' = wire
    BY <1>7, <2>5, <2>7
  <2>9. QED
    BY <1>3, <2>2, <2>7, <2>8
<1>12. CASE Top.is = "many"
  <2>1. UNCHANGED wire /\ Descend(more)
    <3>1. NextElement
      BY <1>12, ByKind
    <3>2. Top.len \in Nat
      BY <1>2 DEF Item
    <3>3. more = IF Remaining(Top.len) THEN << One(Top.type), Many(Top.type, Top.len - 1) >>
                 ELSE << >>
      BY <1>12, <3>2 DEF Opens, Is, Remaining
    <3>4. QED
      BY <3>1, <3>3 DEF NextElement
  <2>2. Pending(more) = << >>
    BY <1>12 DEF Opens, Is, Pending, One
  <2>3. QED
    BY <1>3, <1>9, <2>1, <2>2
<1>13. CASE Is(Top, "tuple")
  <2>1. more = Each(Types[Top.type].fields) /\ DeserializeTuple
    BY <1>13, ByKind DEF Opens, Is
  <2>2. UNCHANGED wire /\ Descend(more)
    BY <2>1 DEF DeserializeTuple
  <2>3. Pending(more) = << >>
    BY <1>2, <1>13, <2>1, Made, EachIsStack DEF Is
  <2>4. QED
    BY <1>3, <1>9, <2>2, <2>3
<1>14. CASE Is(Top, "newtype")
  <2>1. more = << One(Types[Top.type].of) >> /\ DeserializeNewtype
    BY <1>14, ByKind DEF Opens, Is
  <2>2. UNCHANGED wire /\ Descend(more) /\ Pending(more) = << >>
    BY <2>1 DEF DeserializeNewtype, Pending, One
  <2>3. QED
    BY <1>3, <1>9, <2>2
<1>15. CASE Is(Top, "unit")
  <2>1. more = << >> /\ DeserializeUnit
    BY <1>15, ByKind DEF Opens, Is
  <2>2. UNCHANGED wire /\ Descend(more) /\ Pending(more) = << >>
    BY <2>1 DEF DeserializeUnit, Pending
  <2>3. QED
    BY <1>3, <1>9, <2>2
<1>16. CASE Is(Top, "or_eof")
  <2> DEFINE t == Types[Top.type].of
  <2>1. more = << One(t) >> /\ ReadErrorMsgOrEof
    BY <1>16, ByKind DEF Opens, Is
  <2>5. UNCHANGED wire /\ Descend(more)
    BY <1>16, <2>1 DEF ReadErrorMsgOrEof
  <2>6. Pending(more) = << >>
    BY <2>1 DEF Pending, One
  <2>7. QED
    BY <1>3, <1>9, <2>5, <2>6
<1>17. QED
  BY <1>10, <1>11, <1>12, <1>13, <1>14, <1>15, <1>16 DEF Opens

LEMMA Shift ==
    ASSUME NEW s \in Seq(Told), NEW c \in Told, NEW r \in Seq(Told)
    PROVE  s \o (<< c >> \o r) = Append(s, c) \o r
<1>1. << c >> \in Seq(Told)
  OBVIOUS
<1>2. s \o (<< c >> \o r) = (s \o << c >>) \o r
  BY <1>1, ConcatAssociative
<1>3. QED
  BY <1>2, AppendIsConcat

-----------------------------------------------------------------------------
\* The reader and what was written, of which the tail may not come.

\* What is still to be read are the bytes of the rest of m, and of m's types.
Goes(m, tail) ==
    \E r \in Seq(Told) :
        m = got \o r /\ Parses(todo, r) /\ Wrote(r, Pending(todo) \o (wire \o tail))

\* The visitors are told the same calls by the bytes that these are written as.
Goes1(tail, r) ==
    \E cs, r2 \in Seq(Told), u \in Seq(Byte) :
        /\ r = cs \o r2 /\ got' = got \o cs
        /\ Parses(todo', r2) /\ Wrote(r2, Pending(todo') \o (wire' \o tail))
        /\ Wrote(cs, u) /\ Pending(todo) \o wire = u \o (Pending(todo') \o wire')

LEMMA PendingIsBytes ==
    ASSUME NEW td \in Stack
    PROVE  Pending(td) \in Seq(Byte)
<1>1. td # << >> => Head(td) \in Item /\ (Head(td).is \in { "buf", "frame" } => Head(td).len \in Number)
  BY DEF Stack, Plain
<1>2. << >> \in Seq(Byte)
  OBVIOUS
<1>3. QED
  BY <1>1, <1>2, WordIsBytes DEF Pending, Number

LEMMA FollowsACall ==
    ASSUME Typed, Deserialize, NEW r \in Seq(Told), NEW tail \in Seq(Byte),
           Wrote(r, Pending(todo) \o (wire \o tail)), Wants <= Len(wire),
           NEW c \in Told, NEW more \in Seq(Plain), NEW r2 \in Seq(Told),
           Tells(Top, c, more), r = << c >> \o r2, Parses(more \o Below, r2)
    PROVE  Unmoved /\ Goes1(tail, r)
<1>1. todo # << >> /\ wire \in Seq(Byte) /\ got \in Seq(Told) /\ todo \in Stack
  BY ByKind DEF Typed
<1>2. Top \in Item /\ Below \in Seq(Plain)
      /\ (Top.is \in { "buf", "frame" } => Top.len \in Number /\ Pending(todo) = Word(Top.len))
      /\ (Top.is \in { "one", "many" } => Pending(todo) = << >>)
  BY <1>1, Front
<1>3. PICK p \in Seq(Byte) : p = Pending(todo)
  BY <1>1, PendingIsBytes
<1>4. PICK w \in Seq(Byte) : w = Written(c)
  BY WrittenIsBytes DEF Told
<1>5. PICK s \in Seq(Byte) : s = p \o wire
  BY <1>1, Regroup
<1>6. s \o tail \in Seq(Byte) /\ s \o tail = p \o (wire \o tail)
  <2>1. (p \o wire) \o tail = p \o (wire \o tail)
    <3>1. Regroups(p, wire, tail)
      BY <1>1, Grouping
    <3>2. QED
      BY <3>1 DEF Regroups
  <2>2. s \o tail \in Seq(Byte)
    BY ConcatProperties
  <2>3. QED
    BY <1>5, <2>1, <2>2
<1>7. PICK v \in Seq(Byte) : s \o tail = w \o v /\ Wrote(r2, v)
  <2>1. r # << >> /\ Head(r) = c /\ Tail(r) = r2
    BY Cons
  <2>2. Wrote(r, s \o tail)
    BY <1>3, <1>6
  <2>3. \E v \in Seq(Byte) : s \o tail = Written(Head(r)) \o v /\ Wrote(Tail(r), v)
    BY <1>6, <2>1, <2>2, WroteFrom
  <2>4. QED
    BY <1>4, <2>1, <2>3
<1>8. Len(w) <= Len(s)
  <2>1. Len(s) = Len(p) + Len(wire) /\ Len(p) \in Nat /\ Len(wire) \in Nat
    BY <1>1, <1>5, ConcatProperties
  <2>2. CASE Top.is = "one"
    <3>1. c.call \in { "u64", "bool", "none", "some", "seq", "last_frame" }
      BY <2>2 DEF Tells, Is, Call
    <3>2. Len(w) = WordLen /\ Len(p) = 0
      BY <1>2, <1>3, <1>4, <2>2, <3>1, LenWritten
    <3>3. Wants = WordLen
      BY <2>2 DEF Wants, Tells, Is
    <3>4. QED
      BY <2>1, <3>2, <3>3
  <2>3. CASE Top.is = "buf"
    <3>1. c.call = "bytes" /\ Len(c.value) = Top.len
      BY <2>3 DEF Tells, Is, Call
    <3>2. Len(w) = WordLen + BufSpan(Top.len) /\ Len(p) = WordLen
      BY <1>2, <1>3, <1>4, <2>3, <3>1, LenWritten, WordIsBytes DEF Number
    <3>3. Wants = BufSpan(Top.len) /\ BufSpan(Top.len) \in Nat /\ WordLen \in Nat
      BY <1>2, <2>3, PaddingIsNat, SmallBytes DEF Wants, Number
    <3>4. QED
      BY <2>1, <3>2, <3>3
  <2>4. CASE Top.is = "frame"
    <3>1. c.call = "frame" /\ Len(c.value) = Top.len
      BY <2>4 DEF Tells, Is, Call
    <3>2. Len(w) = WordLen + Top.len /\ Len(p) = WordLen
      BY <1>2, <1>3, <1>4, <2>4, <3>1, LenWritten, WordIsBytes DEF Number
    <3>3. Wants = Top.len /\ Top.len \in Nat /\ WordLen \in Nat
      BY <1>2, <2>4, SmallBytes DEF Wants, Number
    <3>4. QED
      BY <2>1, <3>2, <3>3
  <2>5. Top.is # "many"
    BY DEF Tells, Is
  <2>6. QED
    BY <1>2, <2>2, <2>3, <2>4, <2>5 DEF Item
<1>9. PICK b \in Seq(Byte) : s = w \o b /\ b \o tail = v
  <2>1. s \o tail = w \o v
    BY <1>7
  <2>2. Begins(s, tail, w, v)
    BY <1>8, <2>1, Split
  <2>3. QED
    BY <2>2 DEF Begins
<1>10. Unmoved /\ got' = Append(got, c) /\ todo' = more \o Below /\ wire' = b
  <2>1. CASE Top.is = "one"
    <3>1. wire = w \o b
      <4>1. p = << >> /\ s = << >> \o wire
        BY <1>2, <1>3, <1>5, <2>1
      <4>2. << >> \o wire = wire
        BY <1>1, ConcatEmptySeq
      <4>3. QED
        BY <1>9, <4>1, <4>2
    <3>2. QED
      BY <1>4, <2>1, <3>1, RereadsAWord
  <2>2. CASE Top.is \in { "buf", "frame" }
    BY <1>3, <1>4, <1>5, <1>9, <2>2, RereadsABuffer
  <2>3. Top.is # "many"
    BY DEF Tells, Is
  <2>4. QED
    BY <1>2, <2>1, <2>2, <2>3 DEF Item
<1>11. Pending(todo') = << >>
  <2>1. more \in Stack
    BY PlainIsStack
  <2>2. Pending(more) = << >>
    <3>1. more # << >> => Head(more) \in Plain
      OBVIOUS
    <3>2. QED
      BY <3>1 DEF Pending, Plain
  <2>3. QED
    BY <1>2, <1>10, <2>1, <2>2, PendingIs
<1>12. /\ << c >> \in Seq(Told) /\ got' = got \o << c >>
       /\ Wrote(<< c >>, w)
  <2>1. << >> \in Seq(Told) /\ << >> \in Seq(Byte) /\ << c >> \in Seq(Told)
    OBVIOUS
  <2>2. Wrote(<< c >> \o << >>, Written(c) \o << >>)
    BY <2>1, WroteNothing, WroteFirst
  <2>3. << c >> \o << >> = << c >> /\ w \o << >> = w
    BY <2>1
  <2>4. got' = got \o << c >>
    BY <1>1, <1>10, AppendIsConcat
  <2>5. QED
    BY <1>4, <2>1, <2>2, <2>3, <2>4
<1>13. Wrote(r2, Pending(todo') \o (wire' \o tail))
  <2>1. << >> \o v = v
    BY ConcatEmptySeq
  <2>2. QED
    BY <1>7, <1>9, <1>10, <1>11, <2>1
<1>14. Pending(todo) \o wire = w \o (Pending(todo') \o wire')
  <2>1. << >> \o b = b
    BY ConcatEmptySeq
  <2>2. QED
    BY <1>3, <1>5, <1>9, <1>10, <1>11, <2>1
<1>15. Parses(todo', r2)
  BY <1>10
<1>16. QED
  BY <1>10, <1>12, <1>13, <1>14, <1>15 DEF Goes1

LEMMA FollowsOn ==
    ASSUME Typed, Deserialize, NEW r \in Seq(Told), Parses(todo, r),
           NEW tail \in Seq(Byte), Wrote(r, Pending(todo) \o (wire \o tail))
    PROVE  \/ Unmoved /\ Goes1(tail, r)
           \/ tail # << >> /\ (UnexpectedEof \/ (Unmoved /\ AtEnd))
<1>1. todo # << >> /\ wire \in Seq(Byte) /\ got \in Seq(Told) /\ todo \in Stack
  BY ByKind DEF Typed
<1>2. Top \in Item /\ Below \in Seq(Plain)
      /\ (Top.is \in { "buf", "frame" } => Top.len \in Number /\ Pending(todo) = Word(Top.len))
      /\ (Top.is \in { "one", "many" } => Pending(todo) = << >>)
  BY <1>1, Front
<1>3. wire \o tail \in Seq(Byte) /\ (tail = << >> => wire \o tail = wire)
  BY <1>1
<1>4. ASSUME tail = << >>
      PROVE  /\ Wants <= Len(wire)
             /\ Is(Top, "or_eof") => wire # << >> \/ r = << Call("eof", << >>) >>
  <2>1. Wrote(r, Pending(todo) \o wire)
    BY <1>3, <1>4
  <2>2. QED
    BY <1>1, <2>1, Enough
<1>5. CASE ~ (Wants <= Len(wire))
  <2>1. Wants \in Nat
    <3>1. Top.len \in Nat /\ BufSpan(Top.len) \in Nat /\ WordLen \in Nat
      BY <1>2, PaddingIsNat, SmallBytes DEF Item
    <3>2. QED
      BY <1>2, <3>1 DEF Wants, Item
  <2>2. Len(wire) < Wants
    BY <1>1, <1>5, <2>1
  <2>3. QED
    BY <1>4, <1>5, <2>2, TooShort
<1>6. CASE Wants <= Len(wire)
  <2>1. PICK td2 \in Stack, r2 \in Seq(Told) : Steps(todo, r, td2, r2) /\ Parses(td2, r2)
    BY <1>1, ParsesFrom
  <2>2. CASE \E c \in Told, more \in Seq(Plain) :
               Tells(Top, c, more) /\ r = << c >> \o r2 /\ td2 = more \o Below
    BY <1>6, <2>1, <2>2, FollowsACall
  <2>3. CASE \E more \in Stack : Opens(Top, more) /\ r2 = r /\ td2 = more \o Below
    <3>1. PICK more \in Stack : Opens(Top, more) /\ r2 = r /\ td2 = more \o Below
      BY <2>3
    <3>2. Top \in Plain
      BY <1>2, <3>1, OpensIs
    <3>3. Pending(todo) = << >>
      BY <1>2, <3>2 DEF Plain
    <3>4. Parses(more \o Below, r) /\ Wrote(r, wire \o tail)
      BY <1>3, <2>1, <3>1, <3>3
    <3>5. CASE Is(Top, "or_eof") => wire # << >>
      <4>1. Unmoved /\ got' = got /\ todo' = more \o Below /\ Pending(more) \o wire' = wire
        BY <1>6, <3>1, <3>4, <3>5, RereadsAnOpening
      <4>2. PICK p \in Seq(Byte) : p = Pending(todo')
        <5>1. more \o Below \in Stack
          BY <1>2, Pushed
        <5>2. QED
          BY <4>1, <5>1, PendingIsBytes
      <4>3. p \o wire' = wire
        BY <1>2, <4>1, <4>2, PendingIs
      <4>4. wire' \in Seq(Byte)
        BY TypedDeserialize DEF Typed
      <4>5. p \o (wire' \o tail) = wire \o tail
        BY <4>3, <4>4, Regroup
      <4>6. << >> \in Seq(Told) /\ << >> \in Seq(Byte) /\ r = << >> \o r /\ got' = got \o << >>
        BY <1>1, <4>1
      <4>7. Pending(todo) \o wire = << >> \o (Pending(todo') \o wire')
        BY <1>1, <3>3, <4>2, <4>3
      <4>8. Parses(todo', r) /\ Wrote(r, Pending(todo') \o (wire' \o tail))
        BY <3>4, <4>1, <4>2, <4>5
      <4>9. QED
        BY <4>1, <4>6, <4>7, <4>8, WroteNothing DEF Goes1
    <3>6. CASE Is(Top, "or_eof") /\ wire = << >>
      <4>1. r # << Call("eof", << >>) >>
        <5> DEFINE eof == Call("eof", << >>)
        <5>1. SUFFICES ASSUME r = << eof >> PROVE FALSE
          OBVIOUS
        <5>2. eof \in Told /\ eof.call = "eof"
          BY EofIsTold DEF Call
        <5> HIDE DEF eof
        <5>3. more # << >> /\ Is(Head(more), "tagged")
          <6>1. more = << One(Types[Top.type].of) >>
            BY <3>1, <3>6 DEF Opens, Is
          <6>2. Is(One(Types[Top.type].of), "tagged")
            BY <1>2, <3>6, InputAssumption DEF TypesAssumption, Is, Item, One
          <6>3. QED
            BY <6>1, <6>2
        <5>4. td2 # << >> /\ Head(td2) = Head(more)
          <6>1. more \in Seq(Item) /\ Below \in Seq(Item)
            BY <1>2, SeqMonotonic DEF Stack, Plain
          <6>2. QED
            BY <3>1, <5>3, <6>1
        <5>5. Head(r).call = "u64"
          BY <2>1, <3>1, <5>3, <5>4, Expects
        <5>6. Head(r) = eof
          BY <5>1
        <5>7. QED
          BY <5>2, <5>5, <5>6
      <4>2. tail # << >>
        BY <1>4, <3>6, <4>1
      <4>3. ReadErrorMsgOrEof
        BY <3>6, ByKind
      <4>4. Unmoved /\ AtEnd
        BY <3>6, <4>3 DEF ReadErrorMsgOrEof, AtEnd, Unmoved
      <4>5. QED
        BY <4>2, <4>4
    <3>7. QED
      BY <3>5, <3>6
  <2>4. CASE /\ Is(Top, "or_eof")
             /\ r = << Call("eof", << >>) >> /\ r2 = << >> /\ td2 = << >>
    <3> DEFINE eof == Call("eof", << >>)
    <3>1. eof \in Told /\ Written(eof) = << >>
      BY EofIsTold, LenWritten DEF Call
    <3>2. r = << eof >> /\ << >> \in Seq(Told) /\ << >> \in Seq(Byte)
      BY <2>4
    <3> HIDE DEF eof
    <3>3. Pending(todo) = << >> /\ Wrote(r, wire \o tail)
      BY <1>2, <1>3, <2>4 DEF Is
    <3>4. wire \o tail = << >>
      <4>1. r # << >> /\ Head(r) = eof /\ Tail(r) = << >>
        BY <3>2
      <4>2. PICK v \in Seq(Byte) : wire \o tail = Written(Head(r)) \o v /\ Wrote(Tail(r), v)
        BY <1>3, <3>3, <4>1, WroteFrom
      <4>3. v = << >>
        BY <3>2, <4>1, <4>2, WroteFrom
      <4>4. QED
        BY <3>1, <3>2, <4>1, <4>2, <4>3
    <3>5. wire = << >> /\ tail = << >>
      <4>1. Len(wire \o tail) = Len(wire) + Len(tail) /\ Len(wire \o tail) = 0
        BY <1>1, <3>4, ConcatProperties
      <4>2. Len(wire) = 0 /\ Len(tail) = 0
        BY <1>1, <4>1
      <4>3. QED
        BY <1>1, <4>2
    <3>6. ReadErrorMsgOrEof
      BY <2>4, ByKind
    <3>7. Unmoved /\ got' = Append(got, eof) /\ todo' = << >> /\ wire' = << >>
      BY <3>5, <3>6 DEF ReadErrorMsgOrEof, Unmoved, eof
    <3>8. Wrote(<< eof >>, << >>)
      <4>1. Wrote(<< eof >> \o << >>, Written(eof) \o << >>)
        BY <3>1, <3>2, WroteNothing, WroteFirst
      <4>2. << eof >> \o << >> = << eof >> /\ << >> \o << >> = << >>
        OBVIOUS
      <4>3. QED
        BY <3>1, <4>1, <4>2
    <3>9. << eof >> \in Seq(Told) /\ r = << eof >> \o << >> /\ got' = got \o << eof >>
      BY <1>1, <3>1, <3>2, <3>7, AppendIsConcat
    <3>10. Pending(todo') = << >>
      BY <3>7 DEF Pending
    <3>11. Pending(todo') \o (wire' \o tail) = << >>
           /\ Pending(todo) \o wire = << >> \o (Pending(todo') \o wire')
      BY <3>3, <3>5, <3>7, <3>10
    <3>12. Parses(todo', << >>) /\ Wrote(<< >>, Pending(todo') \o (wire' \o tail))
      BY <3>7, <3>11, ParsesNothing, WroteNothing
    <3>13. QED
      BY <3>2, <3>7, <3>8, <3>9, <3>11, <3>12 DEF Goes1
  <2>5. QED
    BY <2>1, <2>2, <2>3, <2>4 DEF Steps, Top, Below
<1>7. QED
  BY <1>5, <1>6

\* All that has come is what has been read and what is still to be read.
Whole == \E u \in Seq(Byte) : Wrote(got, u) /\ came = u \o (Pending(todo) \o wire)

\* The reader follows what was written, unless the tail that does not come is not
\* empty and the stream ends in the next value of a type.
LEMMA GoesOn ==
    ASSUME Typed, Typed', Deserialize, NEW m \in Seq(Told), NEW tail \in Seq(Byte), Goes(m, tail)
    PROVE  \/ Unmoved /\ Goes(m, tail)' /\ (Whole => Whole')
           \/ tail # << >> /\ (UnexpectedEof \/ (Unmoved /\ AtEnd))
<1>1. PICK r \in Seq(Told) :
        m = got \o r /\ Parses(todo, r) /\ Wrote(r, Pending(todo) \o (wire \o tail))
  BY DEF Goes
<1>2. Pending(todo)' = Pending(todo')
  BY DEF Pending
<1>3. CASE Unmoved /\ Goes1(tail, r)
  <2>1. PICK cs \in Seq(Told), r2 \in Seq(Told), u \in Seq(Byte) :
          /\ r = cs \o r2 /\ got' = got \o cs
          /\ Parses(todo', r2) /\ Wrote(r2, Pending(todo') \o (wire' \o tail))
          /\ Wrote(cs, u) /\ Pending(todo) \o wire = u \o (Pending(todo') \o wire')
    BY <1>3 DEF Goes1
  <2>2. got \in Seq(Told) /\ wire \in Seq(Byte) /\ wire' \in Seq(Byte) /\ todo' \in Stack
        /\ todo \in Stack
    BY DEF Typed
  <2>3. m = got' \o r2
    <3>1. got \o (cs \o r2) = (got \o cs) \o r2
      <4>1. Regroups(got, cs, r2)
        BY <2>2, Grouping
      <4>2. QED
        BY <4>1 DEF Regroups
    <3>2. QED
      BY <1>1, <2>1, <3>1
  <2>4. Goes(m, tail)'
    BY <1>2, <2>1, <2>3 DEF Goes
  <2>5. ASSUME Whole PROVE Whole'
    <3>1. PICK v \in Seq(Byte) : Wrote(got, v) /\ came = v \o (Pending(todo) \o wire)
      BY <2>5 DEF Whole
    <3>2. Wrote(got', v \o u) /\ v \o u \in Seq(Byte)
      BY <2>1, <2>2, <3>1, WroteTogether, ConcatProperties
    <3>3. PICK p \in Seq(Byte) : p = Pending(todo')
      BY <2>2, PendingIsBytes
    <3>4. PICK q \in Seq(Byte) : q = p \o wire'
      BY <2>2, ConcatProperties
    <3>5. (v \o u) \o q = v \o (u \o q)
      <4>1. Regroups(v, u, q)
        BY Grouping
      <4>2. QED
        BY <4>1 DEF Regroups
    <3>6. came' = (v \o u) \o (Pending(todo') \o wire')
      BY <1>3, <2>1, <3>1, <3>3, <3>4, <3>5 DEF Unmoved
    <3>7. QED
      BY <1>2, <3>2, <3>6 DEF Whole
  <2>6. QED
    BY <1>3, <2>4, <2>5
<1>4. CASE tail # << >> /\ (UnexpectedEof \/ (Unmoved /\ AtEnd))
  BY <1>4
<1>5. QED
  BY <1>1, <1>3, <1>4, FollowsOn

-----------------------------------------------------------------------------
\* What conforms to types is read as a value of them.

Spoken == { c \in Told : c.call # "eof" }

\* The visitors are told the calls, and perhaps that nothing comes after them.
Speaks(td, cs) ==
    /\ cs \in Seq(Spoken)
    /\ \E m \in Seq(Told) : Parses(td, m) /\ (m = cs \/ m = Append(cs, Call("eof", << >>)))

\* A step of the reader that is told calls is at most two of the other one.
Hears(td, cs, l) ==
    \/ l = << td, cs >>
    \/ \E more \in Seq(Plain) : Opens(Head(td), more) /\ l = << more \o Tail(td), cs >>
    \/ /\ cs # << >>
       /\ \E more \in Seq(Plain) :
            Tells(Head(td), Head(cs), more) /\ l = << more \o Tail(td), Tail(cs) >>
    \/ /\ cs # << >>
       /\ \E b \in Item, more \in Seq(Plain) :
            /\ b.len \in Number
            /\ Opens(Head(td), << b >> \o more) /\ Tells(b, Head(cs), << >>)
            /\ l = << more \o Tail(td), Tail(cs) >>
    \/ Is(Head(td), "or_eof") /\ cs = << >> /\ l = << << >>, << >> >>

LEMMA Two ==
    ASSUME NEW S, NEW x \in S, NEW y \in S
    PROVE  << x >> \o << y >> = << x, y >>
<1> DEFINE s == << x >> \o << y >>
<1>1. s \in Seq(S) /\ Len(s) = 2
  OBVIOUS
<1>2. s[1] = x /\ s[2] = y
  OBVIOUS
<1> HIDE DEF s
<1>3. s = << x, y >>
  BY <1>1, <1>2
<1>4. QED
  BY <1>3 DEF s

LEMMA HeardIs ==
    ASSUME NEW td \in Seq(Plain), td # << >>, NEW cs \in Seq(AnyCall)
    PROVE  Hears(td, cs, Heard(td, cs))
<1> DEFINE x == Head(td)
           c == Head(cs)
           below == Tail(td)
           s == Types[x.type]
           l == Heard(td, cs)
<1>1. x \in Plain /\ x \in Item /\ x.len \in Nat /\ x.type \in DOMAIN Types
  BY DEF Plain, Item
<1>2. \A t \in DOMAIN Types, n \in Nat : One(t) \in Plain /\ Many(t, n) \in Plain
  BY DEF One, Many, Plain, Item
<1>3. ASSUME NEW more \in Seq(Plain), Opens(x, more), l = << more \o below, cs >>
      PROVE  Hears(td, cs, l)
  BY <1>3 DEF Hears
<1>4. ASSUME NEW more \in Seq(Plain), cs # << >>, Tells(x, c, more), l = << more \o below, Tail(cs) >>
      PROVE  Hears(td, cs, l)
  BY <1>4 DEF Hears
<1>5. << >> \in Seq(Plain)
  OBVIOUS
<1>6. cs # << >> =>
        /\ c \in AnyCall /\ c = Call(c.call, c.value)
        /\ c.call \in { "u64", "seq" } => c.value[1] \in Number /\ c.value = << c.value[1] >>
        /\ c.call = "bool" => c.value \in { << 0 >>, << 1 >> }
        /\ c.call \in { "bytes", "frame" } => c.value \in Seq(Byte) /\ Len(c.value) \in Number
  BY DEF AnyCall, Call, Number, Fits
<1>7. CASE x.is = "many"
  <2>1. CASE x.len > 0
    <3>1. l = << << One(x.type), Many(x.type, x.len - 1) >> \o below, cs >>
      <4>1. x.is = "many" /\ x.is # "one" /\ x.len > 0 /\ ~ (x.len = 0)
        BY <1>1, <1>7, <2>1
      <4>2. QED
        BY <4>1 DEF Heard
    <3>2. One(x.type) \in Plain /\ Many(x.type, x.len - 1) \in Plain
      BY <1>1, <1>2, <2>1
    <3>3. << One(x.type), Many(x.type, x.len - 1) >> \in Seq(Plain)
      BY <3>2
    <3>4. Opens(x, << One(x.type), Many(x.type, x.len - 1) >>)
      BY <1>1, <1>7, <2>1 DEF Opens
    <3>5. QED
      BY <1>3, <3>1, <3>3, <3>4
  <2>2. CASE x.len = 0
    <3>1. l = << << >> \o below, cs >>
      <4>1. x.is = "many" /\ x.is # "one" /\ x.len = 0 /\ ~ (x.len > 0)
        BY <1>1, <1>7, <2>2
      <4>2. QED
        BY <4>1 DEF Heard
    <3>2. Opens(x, << >>)
      BY <1>7, <2>2 DEF Opens
    <3>3. QED
      BY <1>3, <1>5, <3>1, <3>2
  <2>3. QED
    BY <1>1, <2>1, <2>2
<1>8. CASE Is(x, "unit")
  <2>1. l = << << >> \o below, cs >>
    BY <1>8 DEF Heard, Is
  <2>2. Opens(x, << >>)
    BY <1>8 DEF Opens
  <2>3. QED
    BY <1>3, <1>5, <2>1, <2>2
<1>9. CASE Is(x, "tuple")
  <2>1. l = << Each(s.fields) \o below, cs >>
    BY <1>9 DEF Heard, Is
  <2>2. Opens(x, Each(s.fields)) /\ Each(s.fields) \in Seq(Plain)
    BY <1>1, <1>9, Made, EachIsPlain DEF Opens, Is
  <2>3. QED
    BY <1>3, <2>1, <2>2
<1>10. CASE Is(x, "newtype")
  <2>1. l = << << One(s.of) >> \o below, cs >>
    BY <1>10 DEF Heard, Is
  <2>2. Opens(x, << One(s.of) >>) /\ << One(s.of) >> \in Seq(Plain)
    BY <1>1, <1>2, <1>10, Made DEF Opens, Is
  <2>3. QED
    BY <1>3, <2>1, <2>2
<1>11. CASE Is(x, "or_eof")
  <2>1. CASE cs = << >>
    <3>1. l = << << >>, << >> >>
      BY <1>11, <2>1 DEF Heard, Is
    <3>2. QED
      BY <1>11, <2>1, <3>1 DEF Hears
  <2>2. CASE cs # << >>
    <3>1. l = << << One(s.of) >> \o below, cs >>
      BY <1>11, <2>2 DEF Heard, Is
    <3>2. Opens(x, << One(s.of) >>) /\ << One(s.of) >> \in Seq(Plain)
      BY <1>1, <1>2, <1>11, Made DEF Opens, Is
    <3>3. QED
      BY <1>3, <3>1, <3>2
  <2>3. QED
    BY <2>1, <2>2
<1>12. CASE cs # << >> /\ c.call = "u64" /\ Is(x, "u64")
  <2>1. l = << << >> \o below, Tail(cs) >>
    BY <1>12 DEF Heard, Is
  <2>2. Tells(x, c, << >>)
    BY <1>6, <1>12 DEF Tells
  <2>3. QED
    BY <1>4, <1>5, <1>12, <2>1, <2>2
<1>13. CASE cs # << >> /\ c.call = "bool" /\ Is(x, "bool")
  <2>1. l = << << >> \o below, Tail(cs) >>
    BY <1>13 DEF Heard, Is
  <2>2. Tells(x, c, << >>)
    BY <1>6, <1>13 DEF Tells
  <2>3. QED
    BY <1>4, <1>5, <1>13, <2>1, <2>2
<1>14. CASE cs # << >> /\ c = Call("none", << >>) /\ Is(x, "option")
  <2>1. l = << << >> \o below, Tail(cs) >>
    BY <1>14 DEF Heard, Is, Call
  <2>2. Tells(x, c, << >>)
    BY <1>14 DEF Tells
  <2>3. QED
    BY <1>4, <1>5, <1>14, <2>1, <2>2
<1>15. CASE cs # << >> /\ c = Call("some", << >>) /\ Is(x, "option")
  <2>1. l = << << One(s.of) >> \o below, Tail(cs) >>
    <3>1. c.call = "some" /\ c # Call("none", << >>)
      BY <1>15 DEF Call
    <3>2. QED
      BY <1>15, <3>1 DEF Heard, Is
  <2>2. Tells(x, c, << One(s.of) >>) /\ << One(s.of) >> \in Seq(Plain)
    BY <1>1, <1>2, <1>15, Made DEF Tells, Is
  <2>3. QED
    BY <1>4, <1>15, <2>1, <2>2
<1>16. CASE cs # << >> /\ c.call = "seq" /\ Is(x, "seq")
  <2>1. l = << << Many(s.of, c.value[1]) >> \o below, Tail(cs) >>
    BY <1>16 DEF Heard, Is
  <2>2. << Many(s.of, c.value[1]) >> \in Seq(Plain)
    BY <1>1, <1>2, <1>6, <1>16, Made DEF Is, Number
  <2>3. Tells(x, c, << Many(s.of, c.value[1]) >>)
    BY <1>6, <1>16 DEF Tells
  <2>4. QED
    BY <1>4, <1>16, <2>1, <2>2, <2>3
<1>17. CASE cs # << >> /\ c.call = "u64" /\ Is(x, "tagged") /\ c.value[1] \in DOMAIN s.variants
  <2>1. l = << Each(s.variants[c.value[1]]) \o below, Tail(cs) >>
    BY <1>17 DEF Heard, Is
  <2>2. Each(s.variants[c.value[1]]) \in Seq(Plain)
    BY <1>1, <1>17, Made, EachIsPlain DEF Is
  <2>3. Tells(x, c, Each(s.variants[c.value[1]]))
    BY <1>6, <1>17 DEF Tells
  <2>4. QED
    BY <1>4, <1>17, <2>1, <2>2, <2>3
<1>18. CASE cs # << >> /\ c = Call("last_frame", << >>) /\ Is(x, "framed")
  <2>1. l = << << >> \o below, Tail(cs) >>
    BY <1>18 DEF Heard, Is, Call
  <2>2. Tells(x, c, << >>)
    BY <1>18 DEF Tells
  <2>3. QED
    BY <1>4, <1>5, <1>18, <2>1, <2>2
<1>19. CASE cs # << >> /\ c.call = "bytes" /\ Is(x, "bytes") /\ Allocates(Len(c.value))
  <2> DEFINE n == Len(c.value)
  <2>1. l = << << >> \o below, Tail(cs) >>
    BY <1>19 DEF Heard, Is
  <2>2. Buf(n) \in Item /\ Buf(n).len = n /\ Buf(n).is = "buf"
    BY <1>6, <1>19, InputAssumption DEF Item, Buf, Number, TypesAssumption
  <2>3. Opens(x, << Buf(n) >> \o << >>)
    <3>1. << Buf(n) >> \o << >> = << Buf(n) >>
      OBVIOUS
    <3>2. QED
      BY <1>6, <1>19, <3>1 DEF Opens
  <2>4. Tells(Buf(n), c, << >>)
    BY <1>6, <1>19, <2>2 DEF Tells
  <2>5. QED
    BY <1>5, <1>6, <1>19, <2>1, <2>2, <2>3, <2>4 DEF Hears
<1>20. CASE /\ cs # << >> /\ c.call = "frame" /\ Is(x, "framed")
            /\ c.value # << >> /\ Allocates(Len(c.value))
  <2> DEFINE n == Len(c.value)
  <2>1. l = << << x >> \o below, Tail(cs) >>
    <3>1. c # Call("last_frame", << >>)
      BY <1>20 DEF Call
    <3>2. QED
      BY <1>20, <3>1 DEF Heard, Is
  <2>2. FrameBuf(n) \in Item /\ FrameBuf(n).len = n /\ FrameBuf(n).is = "frame"
    BY <1>6, <1>20, InputAssumption DEF Item, FrameBuf, Number, TypesAssumption
  <2>3. Opens(x, << FrameBuf(n) >> \o << x >>)
    <3>1. << FrameBuf(n) >> \o << x >> = << FrameBuf(n), x >>
      <4>1. PICK b \in Item : b = FrameBuf(n)
        BY <2>2
      <4>2. PICK y \in Item : y = x
        BY <1>1
      <4>3. << b >> \o << y >> = << b, y >>
        BY Two
      <4>4. QED
        BY <4>1, <4>2, <4>3
    <3>2. n # 0
      BY <1>6, <1>20
    <3>3. QED
      BY <1>6, <1>20, <3>1, <3>2 DEF Opens
  <2>4. Tells(FrameBuf(n), c, << >>)
    BY <1>6, <1>20, <2>2 DEF Tells
  <2>5. << x >> \in Seq(Plain)
    BY <1>1
  <2>6. QED
    BY <1>6, <1>20, <2>1, <2>2, <2>3, <2>4, <2>5 DEF Hears
<1>21. CASE /\ x.is # "many"
            /\ \A shape \in { "unit", "tuple", "newtype", "or_eof" } : ~ Is(x, shape)
            /\ ~ (cs # << >> /\ c.call = "u64" /\ Is(x, "u64"))
            /\ ~ (cs # << >> /\ c.call = "bool" /\ Is(x, "bool"))
            /\ ~ (cs # << >> /\ c = Call("none", << >>) /\ Is(x, "option"))
            /\ ~ (cs # << >> /\ c = Call("some", << >>) /\ Is(x, "option"))
            /\ ~ (cs # << >> /\ c.call = "seq" /\ Is(x, "seq"))
            /\ ~ (cs # << >> /\ c.call = "u64" /\ Is(x, "tagged") /\ c.value[1] \in DOMAIN s.variants)
            /\ ~ (cs # << >> /\ c = Call("last_frame", << >>) /\ Is(x, "framed"))
            /\ ~ (cs # << >> /\ c.call = "bytes" /\ Is(x, "bytes") /\ Allocates(Len(c.value)))
            /\ ~ (/\ cs # << >> /\ c.call = "frame" /\ Is(x, "framed")
                  /\ c.value # << >> /\ Allocates(Len(c.value)))
  <2>1. l = << td, cs >>
    BY <1>21 DEF Heard, Is
  <2>2. QED
    BY <2>1 DEF Hears
<1>22. QED
  BY <1>7, <1>8, <1>9, <1>10, <1>11, <1>12, <1>13, <1>14, <1>15, <1>16, <1>17, <1>18, <1>19,
     <1>20, <1>21

LEMMA HearsIs ==
    ASSUME NEW td \in Seq(Plain), td # << >>, NEW cs \in Seq(AnyCall), NEW l, Hears(td, cs, l)
    PROVE  l \in Seq(Plain) \X Seq(AnyCall)
<1>1. Tail(td) \in Seq(Plain) /\ << >> \in Seq(Plain)
  OBVIOUS
<1>2. cs # << >> => Tail(cs) \in Seq(AnyCall)
  OBVIOUS
<1>3. \A more \in Seq(Plain) : more \o Tail(td) \in Seq(Plain)
  BY <1>1, ConcatProperties
<1>4. \/ l = << td, cs >>
      \/ \E more \in Seq(Plain) : l = << more \o Tail(td), cs >>
      \/ cs # << >> /\ \E more \in Seq(Plain) : l = << more \o Tail(td), Tail(cs) >>
      \/ cs = << >> /\ l = << << >>, cs >>
  BY Zenon DEF Hears
<1>5. \E a \in Seq(Plain), d \in Seq(AnyCall) : l = << a, d >>
  BY <1>1, <1>2, <1>3, <1>4, Zenon
<1>6. QED
  BY <1>5

\* The first call comes before what is said after it.
LEMMA SpeaksFirst ==
    ASSUME NEW td \in Stack, NEW td2 \in Stack, NEW c \in Told, c.call # "eof",
           NEW cs \in Seq(AnyCall), Speaks(td2, cs),
           \A m \in Seq(Told) : Parses(td2, m) => Parses(td, << c >> \o m)
    PROVE  Speaks(td, << c >> \o cs)
<1> DEFINE eof == Call("eof", << >>)
<1>1. eof \in Told
  BY EofIsTold
<1> HIDE DEF eof
<1>2. PICK m \in Seq(Told) : Parses(td2, m) /\ (m = cs \/ m = Append(cs, eof))
  BY DEF Speaks, eof
<1>3. cs \in Seq(Spoken) /\ c \in Spoken
  BY DEF Speaks, Spoken
<1>4. << c >> \o cs \in Seq(Spoken)
  BY <1>3, Cons
<1>5. << c >> \o m \in Seq(Told) /\ Parses(td, << c >> \o m)
  BY <1>2, Cons
<1>6. cs \in Seq(Told)
  <2>1. Spoken \subseteq Told
    BY DEF Spoken
  <2>2. QED
    BY <1>3, <2>1, SeqMonotonic
<1>7. << c >> \o Append(cs, eof) = Append(<< c >> \o cs, eof)
  BY <1>1, <1>6
<1>8. QED
  BY <1>2, <1>4, <1>5, <1>7 DEF Speaks, eof

\* What is said from some step on is said from the step before it on.
LEMMA SpeaksBefore ==
    ASSUME NEW td \in Seq(Plain), td # << >>, NEW cs \in Seq(AnyCall),
           NEW td2 \in Seq(Plain), NEW cs2 \in Seq(AnyCall),
           Hears(td, cs, << td2, cs2 >>), Speaks(td2, cs2)
    PROVE  Speaks(td, cs)
<1> DEFINE x == Head(td)
           c == Head(cs)
           below == Tail(td)
<1>1. td \in Stack /\ td2 \in Stack /\ x \in Item /\ x.is \notin { "buf", "frame" }
      /\ below \in Seq(Plain)
  BY PlainIsStack DEF Plain
<1>2. cs # << >> => cs = << c >> \o Tail(cs) /\ Tail(cs) \in Seq(AnyCall)
  BY Uncons
<1>3. CASE td2 = td /\ cs2 = cs
  BY <1>3
<1>4. CASE \E more \in Seq(Plain) : Opens(x, more) /\ td2 = more \o below /\ cs2 = cs
  <2>1. PICK more \in Seq(Plain) : Opens(x, more) /\ td2 = more \o below /\ cs2 = cs
    BY <1>4
  <2>2. more \in Stack
    BY PlainIsStack
  <2>3. ASSUME NEW m \in Seq(Told), Parses(td2, m) PROVE Parses(td, m)
    <3>1. Steps(td, m, td2, m)
      BY <2>1, <2>2 DEF Steps
    <3>2. QED
      BY <1>1, <2>3, <3>1, ParsesFirst
  <2>4. QED
    BY <2>1, <2>3 DEF Speaks
<1>5. CASE cs # << >> /\ \E more \in Seq(Plain) :
             Tells(x, c, more) /\ td2 = more \o below /\ cs2 = Tail(cs)
  <2>1. PICK more \in Seq(Plain) : Tells(x, c, more) /\ td2 = more \o below /\ cs2 = Tail(cs)
    BY <1>5
  <2>2. c \in Told /\ c.call # "eof"
    <3>1. c.call # "eof"
      BY <2>1 DEF Tells, Call
    <3>2. QED
      BY <1>1, <2>1, <3>1, TellsIs
  <2>3. ASSUME NEW m \in Seq(Told), Parses(td2, m) PROVE Parses(td, << c >> \o m)
    <3>1. Steps(td, << c >> \o m, td2, m)
      BY <2>1, <2>2 DEF Steps
    <3>2. << c >> \o m \in Seq(Told)
      BY <2>2, Cons
    <3>3. QED
      BY <1>1, <2>3, <3>1, <3>2, ParsesFirst
  <2>4. Speaks(td, << c >> \o cs2)
    BY <1>1, <2>2, <2>3, SpeaksFirst
  <2>5. QED
    BY <1>2, <1>5, <2>1, <2>4
<1>6. CASE cs # << >> /\ \E b \in Item, more \in Seq(Plain) :
             /\ b.len \in Number /\ Opens(x, << b >> \o more) /\ Tells(b, c, << >>)
             /\ td2 = more \o below /\ cs2 = Tail(cs)
  <2>1. PICK b \in Item, more \in Seq(Plain) :
             /\ b.len \in Number /\ Opens(x, << b >> \o more) /\ Tells(b, c, << >>)
             /\ td2 = more \o below /\ cs2 = Tail(cs)
    BY <1>6
  <2>2. c \in Told /\ c.call # "eof"
    <3>1. c.call # "eof"
      BY <2>1 DEF Tells, Call
    <3>2. QED
      BY <2>1, <3>1, TellsIs
  <2>3. PICK td1 \in Stack : td1 = (<< b >> \o more) \o below
    <3>1. << b >> \o more \in Stack
      BY <1>1, <2>1, OpensIs
    <3>2. QED
      BY <1>1, <3>1, Pushed
  <2>4. td1 # << >> /\ Head(td1) = b /\ Tail(td1) = td2
    <3>1. more \in Seq(Item) /\ below \in Seq(Item)
      BY <1>1, SeqMonotonic DEF Plain
    <3>2. more \o below \in Seq(Item) /\ td1 = << b >> \o (more \o below)
      BY <2>3, <3>1
    <3>3. QED
      BY <2>1, <3>2, Cons
  <2>5. ASSUME NEW m \in Seq(Told), Parses(td2, m) PROVE Parses(td, << c >> \o m)
    <3>1. PICK n \in Seq(Told) : n = << c >> \o m
      BY <2>2, Cons
    <3>2. Steps(td1, n, td2, m)
      <4>1. << >> \in Seq(Plain) /\ td2 = << >> \o td2
        OBVIOUS
      <4>2. QED
        BY <2>1, <2>2, <2>4, <3>1, <4>1 DEF Steps
    <3>3. Parses(td1, n)
      BY <1>1, <2>5, <3>2, ParsesFirst
    <3>4. Steps(td, n, td1, n)
      <4>1. << b >> \o more \in Stack
        BY <1>1, <2>1, OpensIs
      <4>2. QED
        BY <2>1, <2>3, <4>1 DEF Steps
    <3>5. QED
      BY <1>1, <3>1, <3>3, <3>4, ParsesFirst
  <2>6. Speaks(td, << c >> \o cs2)
    BY <1>1, <2>2, <2>5, SpeaksFirst
  <2>7. QED
    BY <1>2, <1>6, <2>1, <2>6
<1>7. CASE Is(x, "or_eof") /\ cs = << >> /\ td2 = << >> /\ cs2 = << >>
  <2> DEFINE eof == Call("eof", << >>)
  <2>1. eof \in Told /\ << eof >> \in Seq(Told) /\ << >> \in Seq(Told) /\ << >> \in Stack
    BY <1>1, <1>7, EofIsTold
  <2>2. Steps(td, << eof >>, << >>, << >>)
    BY <1>7 DEF Steps
  <2>3. Parses(td, << eof >>)
    BY <1>1, <2>1, <2>2, ParsesNothing, ParsesFirst
  <2> HIDE DEF eof
  <2>4. << eof >> = Append(cs, eof)
    BY <1>7, <2>1
  <2>5. cs \in Seq(Spoken)
    BY <1>7
  <2>6. QED
    BY <2>1, <2>3, <2>4, <2>5 DEF Speaks, eof
<1>8. QED
  BY <1>3, <1>4, <1>5, <1>6, <1>7 DEF Hears

\* The values of Conforms are what its equation says.
Runs(g, k, cs, ts) ==
    /\ g \in [ 0 .. k -> Seq(Plain) \X Seq(AnyCall) ]
    /\ g[0] = << Each(ts), cs >>
    /\ \A i \in 1 .. k :
         g[i] = IF g[i - 1][1] = << >> THEN g[i - 1] ELSE Heard(g[i - 1][1], g[i - 1][2])

LEMMA ConformsIs ==
    ASSUME NEW k \in Nat, NEW cs \in Seq(AnyCall), NEW ts \in Seq(DOMAIN Types),
           Conforms(k, cs, ts)
    PROVE  \E g : Runs(g, k, cs, ts) /\ g[k] = << << >>, << >> >>
<1> DEFINE V == Seq(Plain) \X Seq(AnyCall)
           Then(v) == IF v[1] = << >> THEN v ELSE Heard(v[1], v[2])
           v0 == << Each(ts), cs >>
<1>1. v0 \in V
  BY EachIsPlain
<1>2. \A v \in V : Then(v) \in V
  <2>1. ASSUME NEW v \in V, v[1] # << >> PROVE Heard(v[1], v[2]) \in V
    <3>1. PICK td \in Seq(Plain), ds \in Seq(AnyCall) : v = << td, ds >>
      OBVIOUS
    <3>2. td # << >>
      BY <2>1, <3>1
    <3>3. Hears(td, ds, Heard(td, ds))
      BY <3>2, HeardIs
    <3>4. Heard(td, ds) \in V
      BY <3>2, <3>3, HearsIs
    <3>5. QED
      BY <3>1, <3>4
  <2>2. QED
    BY <2>1
<1> DEFINE F == [ i \in 1 .. k |-> [ v \in V |-> Then(v) ] ]
<1>3. F \in [ 1 .. k -> [ V -> V ] ]
  BY <1>2
<1>4. \A i \in 1 .. k, v \in V : F[i][v] = Then(v)
  OBVIOUS
<1> HIDE DEF F, V
<1>5. PICK g \in [ 0 .. k -> V ] : g[0] = v0 /\ \A i \in 1 .. k : g[i] = F[i][g[i - 1]]
  <2>1. Recursive(k, V, v0, F)
    BY <1>1, <1>3, Recursion
  <2>2. QED
    BY <2>1 DEF Recursive
<1>6. \A i \in 1 .. k : g[i] = Then(g[i - 1])
  <2>1. ASSUME NEW i \in 1 .. k PROVE g[i] = Then(g[i - 1])
    <3>1. g[i - 1] \in V
      OBVIOUS
    <3>2. QED
      BY <1>4, <1>5, <3>1, Zenon
  <2>2. QED
    BY <2>1
<1> HIDE DEF Then, v0
<1> DEFINE Eq(f) == f = [ i \in 0 .. k |-> IF i = 0 THEN v0 ELSE Then(f[i - 1]) ]
<1>7. Eq(g)
  <2>1. \A i \in 0 .. k : g[i] = IF i = 0 THEN v0 ELSE Then(g[i - 1])
    <3>1. ASSUME NEW i \in 0 .. k PROVE g[i] = IF i = 0 THEN v0 ELSE Then(g[i - 1])
      <4>1. i = 0 \/ i \in 1 .. k
        OBVIOUS
      <4>2. QED
        BY <1>5, <1>6, <4>1
    <3>2. QED
      BY <3>1
  <2>2. QED
    BY <1>5, <2>1
<1> DEFINE left == CHOOSE f : Eq(f)
<1>8. Eq(left)
  BY <1>7
<1>9. left[k] = << << >>, << >> >>
  BY DEF Conforms, Then, v0
<1> HIDE DEF left
<1>10. left[0] = v0 /\ \A i \in 1 .. k : left[i] = Then(left[i - 1])
  <2>1. \A i \in 0 .. k : left[i] = IF i = 0 THEN v0 ELSE Then(left[i - 1])
    BY <1>8, Zenon
  <2>2. 0 \in 0 .. k /\ \A i \in 1 .. k : i \in 0 .. k /\ i # 0
    OBVIOUS
  <2>3. QED
    BY <2>1, <2>2, Zenon
<1> DEFINE S == { i \in 0 .. k : left[i] = g[i] }
<1>11. \A i \in 0 .. k : i \in S
  <2>1. 0 \in S
    BY <1>5, <1>10
  <2>2. ASSUME NEW i \in 0 .. k - 1, i \in S PROVE i + 1 \in S
    <3>1. left[i] = g[i] /\ i + 1 \in 1 .. k /\ i + 1 \in 0 .. k /\ (i + 1) - 1 = i
      BY <2>2
    <3>2. left[i + 1] = Then(left[i]) /\ g[i + 1] = Then(g[i])
      BY <1>6, <1>10, <3>1, Zenon
    <3>3. QED
      BY <3>1, <3>2
  <2> HIDE DEF S
  <2>3. QED
    BY <2>1, <2>2, UpTo, Zenon
<1>12. g[k] = << << >>, << >> >>
  <2>1. k \in 0 .. k
    OBVIOUS
  <2>2. QED
    BY <1>9, <1>11, <2>1
<1>13. Runs(g, k, cs, ts)
  BY <1>5, <1>6 DEF Runs, Then, v0, V
<1>14. QED
  BY <1>12, <1>13

\* A value of the types is said when they are read.
LEMMA ConformsSpeaks ==
    ASSUME NEW k \in Nat, NEW cs \in Seq(AnyCall), NEW ts \in Seq(DOMAIN Types),
           Conforms(k, cs, ts)
    PROVE  Speaks(Each(ts), cs)
<1>1. PICK g : Runs(g, k, cs, ts) /\ g[k] = << << >>, << >> >>
  BY ConformsIs
<1> DEFINE S == { i \in 0 .. k : Speaks(g[k - i][1], g[k - i][2]) }
<1>2. 0 \in S
  <2>1. << >> \in Seq(Spoken) /\ << >> \in Seq(Told)
    OBVIOUS
  <2>2. Speaks(<< >>, << >>)
    BY <2>1, ParsesNothing DEF Speaks
  <2>3. k - 0 = k /\ 0 \in 0 .. k
    OBVIOUS
  <2>4. QED
    BY <1>1, <2>2, <2>3
<1>3. ASSUME NEW i \in 0 .. k - 1, i \in S PROVE i + 1 \in S
  <2>1. PICK j \in 1 .. k : j = k - i /\ j - 1 = k - (i + 1) /\ j - 1 \in 0 .. k /\ j \in 0 .. k
    OBVIOUS
  <2>2. PICK td \in Seq(Plain), ds \in Seq(AnyCall) : g[j - 1] = << td, ds >>
    <3>1. g[j - 1] \in Seq(Plain) \X Seq(AnyCall)
      BY <1>1, <2>1 DEF Runs
    <3>2. QED
      BY <3>1
  <2>3. PICK td2 \in Seq(Plain), ds2 \in Seq(AnyCall) : g[j] = << td2, ds2 >>
    <3>1. g[j] \in Seq(Plain) \X Seq(AnyCall)
      BY <1>1, <2>1 DEF Runs
    <3>2. QED
      BY <3>1
  <2>4. Speaks(td2, ds2)
    BY <1>3, <2>1, <2>3
  <2>5. g[j] = IF td = << >> THEN << td, ds >> ELSE Heard(td, ds)
    <3>1. g[j] = IF g[j - 1][1] = << >> THEN g[j - 1] ELSE Heard(g[j - 1][1], g[j - 1][2])
      BY <1>1, <2>1, Zenon DEF Runs
    <3>2. g[j - 1][1] = td /\ g[j - 1][2] = ds
      BY <2>2
    <3>3. QED
      BY <2>2, <3>1, <3>2
  <2>6. Speaks(td, ds)
    <3>1. CASE td = << >>
      BY <2>3, <2>4, <2>5, <3>1
    <3>2. CASE td # << >>
      <4>1. Hears(td, ds, << td2, ds2 >>)
        BY <2>3, <2>5, <3>2, HeardIs
      <4>2. QED
        BY <2>4, <3>2, <4>1, SpeaksBefore
    <3>3. QED
      BY <3>1, <3>2
  <2>7. i + 1 \in 0 .. k
    OBVIOUS
  <2>8. QED
    BY <2>1, <2>2, <2>6, <2>7
<1> HIDE DEF S
<1>4. k \in S
  <2>1. \A i \in 0 .. k : i \in S
    BY <1>2, <1>3, UpTo, Zenon
  <2>2. QED
    BY <2>1
<1>5. Speaks(g[0][1], g[0][2])
  BY <1>4 DEF S
<1>6. QED
  BY <1>1, <1>5 DEF Runs

\* Meant is what its equation says.
LEMMA MeantIs ==
    ASSUME NEW cs \in Seq(AnyCall)
    PROVE  /\ Meant(cs)[0] = << >>
           /\ \A i \in 1 .. Len(cs) :
                Meant(cs)[i] = IF cs[i].call \in Silent THEN Meant(cs)[i - 1]
                               ELSE Append(Meant(cs)[i - 1], cs[i])
           /\ \A i \in 0 .. Len(cs) : Meant(cs)[i] \in Seq(AnyCall)
<1> DEFINE V == Seq(AnyCall)
           n == Len(cs)
           Then(i, v) == IF cs[i].call \in Silent THEN v ELSE Append(v, cs[i])
<1>1. n \in Nat /\ << >> \in V
  OBVIOUS
<1>2. \A i \in 1 .. n, v \in V : Then(i, v) \in V
  <2>1. ASSUME NEW i \in 1 .. n, NEW v \in V PROVE Then(i, v) \in V
    <3>1. cs[i] \in AnyCall
      OBVIOUS
    <3>2. QED
      BY <3>1, AppendProperties
  <2>2. QED
    BY <2>1
<1> DEFINE F == [ i \in 1 .. n |-> [ v \in V |-> Then(i, v) ] ]
<1>3. F \in [ 1 .. n -> [ V -> V ] ]
  BY <1>2
<1>4. \A i \in 1 .. n, v \in V : F[i][v] = Then(i, v)
  OBVIOUS
<1> DEFINE Eq(f) == f = [ i \in 0 .. n |-> IF i = 0 THEN << >> ELSE Then(i, f[i - 1]) ]
           f0 == Meant(cs)
<1>5. f0 = CHOOSE f : Eq(f)
  BY DEF Meant
<1> HIDE DEF F, V, n, Then, f0
<1>6. PICK g \in [ 0 .. n -> V ] : g[0] = << >> /\ \A i \in 1 .. n : g[i] = F[i][g[i - 1]]
  <2>1. Recursive(n, V, << >>, F)
    BY <1>1, <1>3, Recursion
  <2>2. QED
    BY <2>1 DEF Recursive
<1>7. \A i \in 1 .. n : g[i] = Then(i, g[i - 1])
  <2>1. ASSUME NEW i \in 1 .. n PROVE g[i] = Then(i, g[i - 1])
    <3>1. g[i - 1] \in V
      BY <1>1
    <3>2. QED
      BY <1>4, <1>6, <3>1, Zenon
  <2>2. QED
    BY <2>1
<1>8. Eq(g)
  <2>1. \A i \in 0 .. n : g[i] = IF i = 0 THEN << >> ELSE Then(i, g[i - 1])
    <3>1. ASSUME NEW i \in 0 .. n PROVE g[i] = IF i = 0 THEN << >> ELSE Then(i, g[i - 1])
      <4>1. i = 0 \/ i \in 1 .. n
        BY <1>1
      <4>2. QED
        BY <1>6, <1>7, <4>1
    <3>2. QED
      BY <3>1
  <2>2. QED
    BY <1>6, <2>1
<1>9. Eq(f0)
  BY <1>5, <1>8
<1>10. f0[0] = << >> /\ \A i \in 1 .. n : f0[i] = Then(i, f0[i - 1])
  <2>1. \A i \in 0 .. n : f0[i] = IF i = 0 THEN << >> ELSE Then(i, f0[i - 1])
    BY <1>9, Zenon
  <2>2. 0 \in 0 .. n /\ \A i \in 1 .. n : i \in 0 .. n /\ i # 0
    BY <1>1
  <2>3. QED
    BY <2>1, <2>2, Zenon
<1> DEFINE S == { i \in 0 .. n : f0[i] \in V }
<1>11. \A i \in 0 .. n : i \in S
  <2>1. 0 \in S
    BY <1>1, <1>10
  <2>2. ASSUME NEW i \in 0 .. n - 1, i \in S PROVE i + 1 \in S
    <3>1. f0[i] \in V /\ i + 1 \in 1 .. n /\ i + 1 \in 0 .. n /\ (i + 1) - 1 = i
      BY <1>1, <2>2
    <3>2. f0[i + 1] = Then(i + 1, f0[i])
      BY <1>10, <3>1, Zenon
    <3>3. QED
      BY <1>2, <3>1, <3>2
  <2> HIDE DEF S
  <2>3. QED
    BY <1>1, <2>1, <2>2, UpTo, Zenon
<1>12. \A i \in 0 .. n : f0[i] \in V
  BY <1>11
<1>13. QED
  BY <1>10, <1>12 DEF f0, V, n, Then

\* What visitors can be told of has been written by calls that the writer implements.
LEMMA MeantIsWritten ==
    ASSUME NEW cs \in Seq(AnyCall), Meant(cs)[Len(cs)] \in Seq(Told)
    PROVE  \A j \in 1 .. Len(cs) : cs[j].call \notin WontWrite
<1> DEFINE n == Len(cs)
           f == Meant(cs)
           S == { i \in 0 .. n : f[n - i] \in Seq(Told) }
<1>1. n \in Nat /\ \A i \in 0 .. n : f[i] \in Seq(AnyCall)
  BY MeantIs
<1>2. \A i \in 1 .. n : f[i] = IF cs[i].call \in Silent THEN f[i - 1] ELSE Append(f[i - 1], cs[i])
  BY MeantIs
<1>3. f[n] \in Seq(Told)
  OBVIOUS
<1>4. \A i \in 1 .. n : cs[i] \in AnyCall
  OBVIOUS
<1> HIDE DEF n, f
<1>5. ASSUME NEW i \in 1 .. n, f[i] \in Seq(Told)
      PROVE  f[i - 1] \in Seq(Told) /\ cs[i].call \notin WontWrite
  <2>1. CASE cs[i].call \in Silent
    <3>1. f[i - 1] = f[i]
      BY <1>2, <2>1
    <3>2. cs[i].call \notin WontWrite
      BY <2>1 DEF Silent, WontWrite
    <3>3. QED
      BY <1>5, <3>1, <3>2
  <2>2. CASE cs[i].call \notin Silent
    <3>1. PICK s \in Seq(AnyCall), c \in AnyCall : s = f[i - 1] /\ c = cs[i]
      <4>1. i - 1 \in 0 .. n
        BY <1>1
      <4>2. QED
        BY <1>1, <1>4, <4>1
    <3>2. Append(s, c) \in Seq(Told)
      BY <1>2, <1>5, <2>2, <3>1
    <3>3. s \in Seq(Told) /\ c \in Told
      BY <3>2
    <3>4. QED
      BY <3>1, <3>3 DEF Told
  <2>3. QED
    BY <2>1, <2>2
<1>6. \A i \in 0 .. n : i \in S
  <2>1. 0 \in S
    BY <1>1, <1>3
  <2>2. ASSUME NEW i \in 0 .. n - 1, i \in S PROVE i + 1 \in S
    <3>1. n - i \in 1 .. n /\ (n - i) - 1 = n - (i + 1) /\ i + 1 \in 0 .. n /\ f[n - i] \in Seq(Told)
      BY <1>1, <2>2
    <3>2. QED
      BY <1>5, <3>1
  <2> HIDE DEF S
  <2>3. QED
    BY <1>1, <2>1, <2>2, UpTo, Zenon
<1>7. ASSUME NEW j \in 1 .. n PROVE cs[j].call \notin WontWrite
  <2>1. n - j \in 0 .. n /\ n - (n - j) = j
    BY <1>1
  <2>2. f[j] \in Seq(Told)
    BY <1>6, <2>1
  <2>3. QED
    BY <1>5, <2>2
<1>8. QED
  BY <1>7 DEF n

-----------------------------------------------------------------------------
\* The two turns.

\* What has been read can be completed to a value of the types asked for by
\* whatever completes what is still to be read; and it is written with as many
\* bytes as have been read.
WhileItComes ==
    turn = 1 /\ pc = "read" =>
        /\ \A r \in Seq(Told) : Parses(todo, r) => Parses(Each(asked), got \o r)
        /\ \E u \in Seq(Byte) :
             Wrote(got, u) /\ Len(came) = Len(u) + Len(Pending(todo)) + Len(wire)

\* A value is being written, to as many bytes as it took when it came.
WhileItIsWritten ==
    turn = 2 /\ pc = "write" =>
        /\ first \in Seq(Told) /\ calls \in Seq(Told)
        /\ Parses(Each(asked), first)
        /\ \E u \in Seq(Byte) :
             Wrote(calls, u) /\ Wrote(first, wire \o u) /\ Len(came) = Len(wire) + Len(u)

\* What is still to be read is what was written of the rest of the value.
WhileItIsReread ==
    turn = 2 /\ pc = "read" =>
        first \in Seq(Told) /\ Goes(first, << >>)

Reread ==
    turn = 2 => pc \in { "write", "read", "done" } /\ (pc = "done" => got = first /\ wire = << >>)

IInv == Typed /\ WhileItComes /\ WhileItIsWritten /\ WhileItIsReread /\ Reread

LEMMA NothingLeft ==
    ASSUME NEW r \in Seq(Told), Parses(<< >>, r)
    PROVE  r = << >>
<1>1. << >> \in Seq(Plain)
  OBVIOUS
<1>2. << >> \in Stack
  BY <1>1, PlainIsStack
<1>3. QED
  BY <1>2, ParsesFrom DEF Steps

\* A turn begins.
LEMMA Beginning ==
    ASSUME Typed, todo = Each(asked), got = << >>, came = wire
    PROVE  WhileItComes
<1>1. Pending(todo) = << >> /\ wire \in Seq(Byte)
  BY EachIsStack DEF Typed
<1>2. \A r \in Seq(Told) : << >> \o r = r
  OBVIOUS
<1>3. << >> \in Seq(Byte) /\ Wrote(got, << >>)
  BY WroteNothing
<1>4. Len(came) = Len(<< >>) + Len(Pending(todo)) + Len(wire)
  BY <1>1
<1>5. QED
  BY <1>2, <1>3, <1>4 DEF WhileItComes

LEMMA IInvInit ==
    Init => IInv
<1> SUFFICES ASSUME Init PROVE IInv
  OBVIOUS
<1>1. Typed /\ turn = 1
  BY TypedInit DEF Init
<1>2. pc = "read" => todo = Each(asked) /\ got = << >> /\ came = wire
  BY DEF Init
<1>3. WhileItComes
  BY <1>1, <1>2, Beginning DEF WhileItComes
<1>4. QED
  BY <1>1, <1>3 DEF IInv, WhileItIsWritten, WhileItIsReread, Reread

LEMMA Starts ==
    ASSUME IInv, Typed', NEW bytes, StartReading(bytes), turn = 1
    PROVE  IInv'
<1>1. Typed' /\ todo' = Each(asked)' /\ got' = << >> /\ came' = wire'
  BY DEF StartReading, Each
<1>2. WhileItComes'
  <2>1. (Typed /\ todo = Each(asked) /\ got = << >> /\ came = wire => WhileItComes)'
    BY Beginning, PTL
  <2>2. QED
    BY <1>1, <2>1
<1>3. turn' = 1
  BY DEF StartReading
<1>4. QED
  BY <1>1, <1>2, <1>3 DEF IInv, WhileItIsWritten, WhileItIsReread, Reread

LEMMA WriteKeeps ==
    ASSUME IInv, Typed', WriteCall
    PROVE  IInv'
<1>1. /\ pc = "write" /\ calls # << >> /\ Head(calls).call \notin WontWrite
      /\ wire' = wire \o Written(Head(calls)) /\ calls' = Tail(calls)
      /\ UNCHANGED << pc, turn, asked, came, todo, got, first >>
  BY DEF WriteCall
<1>2. CASE turn = 1
  BY <1>1, <1>2 DEF IInv, WhileItComes, WhileItIsWritten, WhileItIsReread, Reread
<1>3. CASE turn = 2
  <2>1. /\ first \in Seq(Told) /\ calls \in Seq(Told)
        /\ Parses(Each(asked), first) /\ wire \in Seq(Byte)
    BY <1>1, <1>3 DEF IInv, WhileItIsWritten, Typed
  <2>2. PICK u \in Seq(Byte) :
          Wrote(calls, u) /\ Wrote(first, wire \o u) /\ Len(came) = Len(wire) + Len(u)
    BY <1>1, <1>3 DEF IInv, WhileItIsWritten
  <2>3. PICK v \in Seq(Byte) : u = Written(Head(calls)) \o v /\ Wrote(Tail(calls), v)
    BY <1>1, <2>1, <2>2, WroteFrom
  <2>4. Head(calls) \in Told /\ Tail(calls) \in Seq(Told)
    BY <1>1, <2>1, Uncons
  <2>5. PICK w \in Seq(Byte) : w = Written(Head(calls))
    BY <2>4, WrittenIsBytes DEF Told
  <2>6. wire' \o v = wire \o u
    <3>1. (wire \o w) \o v = wire \o (w \o v)
      BY <2>1, Regroup
    <3>2. QED
      BY <1>1, <2>3, <2>5, <3>1
  <2>7. Len(wire') + Len(v) = Len(wire) + Len(u)
    <3>1. Len(wire') = Len(wire) + Len(w) /\ Len(u) = Len(w) + Len(v)
      BY <1>1, <2>1, <2>3, <2>5, Lengths
    <3>2. Len(wire) \in Nat /\ Len(w) \in Nat /\ Len(v) \in Nat
      BY <2>1
    <3>3. QED
      BY <3>1, <3>2
  <2>8. Each(asked)' = Each(asked)
    BY <1>1 DEF Each
  <2>9. Wrote(calls', v) /\ Wrote(first', wire' \o v) /\ Len(came') = Len(wire') + Len(v)
    BY <1>1, <2>2, <2>3, <2>6, <2>7
  <2>10. WhileItIsWritten'
    BY <1>1, <2>1, <2>4, <2>8, <2>9 DEF WhileItIsWritten
  <2>11. QED
    BY <1>1, <1>3, <2>10 DEF IInv, WhileItComes, WhileItIsReread, Reread
<1>4. QED
  BY <1>2, <1>3 DEF IInv, Typed

LEMMA ArriveKeeps ==
    ASSUME IInv, Typed', Arrive
    PROVE  IInv'
<1>1. PICK n \in IF turn = 1 THEN 0 .. Len(wire) ELSE { Len(wire) } :
        StartReading(SubSeq(wire, 1, n))
  BY DEF Arrive
<1>2. pc = "write" /\ calls = << >>
  BY DEF Arrive
<1>3. CASE turn = 1
  BY <1>1, <1>3, Starts
<1>4. CASE turn = 2
  <2>1. /\ first \in Seq(Told)
        /\ Parses(Each(asked), first) /\ wire \in Seq(Byte)
        /\ calls \in Seq(Told) /\ asked \in Seq(DOMAIN Types)
    BY <1>2, <1>4 DEF IInv, WhileItIsWritten, Typed
  <2>2. PICK u \in Seq(Byte) : Wrote(calls, u) /\ Wrote(first, wire \o u)
    BY <1>2, <1>4 DEF IInv, WhileItIsWritten
  <2>3. u = << >>
    BY <1>2, <2>1, <2>2, WroteFrom
  <2>4. Wrote(first, wire)
    BY <2>1, <2>2, <2>3
  <2>5. wire' = wire
    <3>1. wire' = SubSeq(wire, 1, Len(wire))
      BY <1>1, <1>4 DEF StartReading
    <3>2. QED
      BY <2>1, <3>1
  <2>6. /\ pc' = "read" /\ turn' = 2 /\ first' = first /\ got' = << >>
        /\ todo' = Each(asked)
    BY <1>1, <1>4 DEF StartReading
  <2>7. Pending(todo') \o (wire' \o << >>) = wire /\ Pending(todo)' = Pending(todo')
    <3>1. Pending(todo') = << >> /\ Pending(todo)' = Pending(todo')
      BY <2>1, <2>6, EachIsStack DEF Pending
    <3>2. QED
      BY <2>1, <2>5, <3>1
  <2>8. first' = got' \o first
    BY <2>1, <2>6
  <2>9. WhileItIsReread'
    <3>1. Goes(first, << >>)'
      BY <2>1, <2>4, <2>6, <2>7, <2>8 DEF Goes
    <3>2. QED
      BY <2>1, <2>6, <3>1 DEF WhileItIsReread, Goes
  <2>10. QED
    BY <2>6, <2>9 DEF IInv, WhileItComes, WhileItIsWritten, Reread
<1>5. QED
  BY <1>3, <1>4 DEF IInv, Typed

\* A step of the reader in the first turn.
LEMMA ComingKeeps ==
    ASSUME IInv, Typed', Deserialize, turn = 1
    PROVE  IInv'
<1>1. Typed /\ todo # << >> /\ pc = "read"
  BY ByKind DEF IInv
<1>2. Top \in Item /\ Below \in Seq(Plain) /\ todo \in Stack
      /\ (Top.is \in { "one", "many" } => Pending(todo) = << >>)
  BY <1>1, Front DEF Typed
<1>3. \A r \in Seq(Told) : Parses(todo, r) => Parses(Each(asked), got \o r)
  BY <1>1 DEF IInv, WhileItComes
<1>4. PICK u \in Seq(Byte) :
        Wrote(got, u) /\ Len(came) = Len(u) + Len(Pending(todo)) + Len(wire)
  BY <1>1 DEF IInv, WhileItComes
<1>5. got \in Seq(Told) /\ wire \in Seq(Byte) /\ todo' \in Stack /\ got' \in Seq(Told)
  BY <1>1 DEF Typed
<1>6. Len(u) \in Nat /\ Len(wire) \in Nat /\ Len(<< >>) = 0
  BY <1>5
<1>7. ASSUME Unmoved, \A r \in Seq(Told) : Parses(todo', r) => Parses(Each(asked), got' \o r),
             NEW v \in Seq(Byte), Wrote(got', v),
             Len(came) = Len(v) + Len(Pending(todo')) + Len(wire')
      PROVE  IInv'
  <2>1. /\ pc' = "read" /\ turn' = 1 /\ came' = came /\ Each(asked)' = Each(asked)
    BY <1>1, <1>7 DEF Unmoved, Each
  <2>2. Pending(todo)' = Pending(todo')
    BY DEF Pending
  <2>3. WhileItComes'
    BY <1>7, <2>1, <2>2 DEF WhileItComes
  <2>4. QED
    BY <2>1, <2>3 DEF IInv, WhileItIsWritten, WhileItIsReread, Reread
<1>8. CASE Telling /\ Unmoved
  <2>1. PICK c \in Told, more \in Seq(Plain), n \in 0 .. Len(wire) :
          /\ Tells(Top, c, more)
          /\ got' = Append(got, c) /\ todo' = more \o Below
          /\ wire' = SubSeq(wire, n + 1, Len(wire))
          /\ Len(Pending(todo)) + n = Len(Written(c))
    BY <1>8 DEF Telling
  <2>2. ASSUME NEW r \in Seq(Told), Parses(todo', r) PROVE Parses(Each(asked), got' \o r)
    <3>1. << c >> \o r \in Seq(Told)
      BY Cons
    <3>2. Steps(todo, << c >> \o r, todo', r)
      BY <1>1, <2>1 DEF Steps, Top, Below
    <3>3. Parses(todo, << c >> \o r)
      BY <1>2, <1>5, <2>2, <3>1, <3>2, ParsesFirst
    <3>4. Parses(Each(asked), got \o (<< c >> \o r))
      BY <1>3, <3>1, <3>3
    <3>5. got \o (<< c >> \o r) = got' \o r
      BY <1>5, <2>1, Shift
    <3>6. QED
      BY <3>4, <3>5
  <2>3. Written(c) \in Seq(Byte)
    BY WrittenIsBytes DEF Told
  <2>4. PICK v \in Seq(Byte) : v = u \o Written(c) /\ Len(v) = Len(u) + Len(Written(c))
    BY <2>3, ConcatProperties
  <2>5. Wrote(got', v)
    BY <1>4, <1>5, <2>1, <2>4, WroteLast
  <2>6. Len(Pending(todo')) = 0
    <3>1. more \in Stack /\ Pending(more) = << >>
      BY PlainIsStack DEF Pending, Plain
    <3>2. QED
      BY <1>2, <2>1, <3>1, PendingIs
  <2>7. Len(wire') = Len(wire) - n
    BY <1>5, <2>1, Cut
  <2>8. Len(came) = Len(v) + Len(Pending(todo')) + Len(wire')
    <3>1. Len(Written(c)) \in Nat /\ n \in Nat
      BY <2>3
    <3>2. Len(Pending(todo)) \in Nat
      <4>1. Pending(todo) = << >> \/ (Top.len \in Number /\ Pending(todo) = Word(Top.len))
        BY <1>1, <1>2, Front DEF Item
      <4>2. QED
        BY <1>6, <4>1, WordIsBytes, SmallBytes DEF Number
    <3>3. Len(v) = Len(u) + (Len(Pending(todo)) + n)
      BY <2>1, <2>4
    <3>4. QED
      BY <1>4, <1>6, <2>6, <2>7, <3>1, <3>2, <3>3
  <2>9. QED
    BY <1>7, <1>8, <2>2, <2>5, <2>8
<1>9. CASE Opening /\ Unmoved
  <2>1. PICK more \in Stack, n \in 0 .. Len(wire) :
          /\ Opens(Top, more)
          /\ got' = got /\ todo' = more \o Below
          /\ wire' = SubSeq(wire, n + 1, Len(wire))
          /\ Len(Pending(more)) = n
    BY <1>9 DEF Opening
  <2>2. ASSUME NEW r \in Seq(Told), Parses(todo', r) PROVE Parses(Each(asked), got' \o r)
    <3>1. Steps(todo, r, todo', r)
      BY <1>1, <2>1 DEF Steps, Top, Below
    <3>2. Parses(todo, r)
      BY <1>2, <1>5, <2>2, <3>1, ParsesFirst
    <3>3. QED
      BY <1>3, <2>1, <3>2
  <2>3. Len(Pending(todo')) = n
    BY <1>2, <2>1, PendingIs
  <2>4. Len(Pending(todo)) = 0
    <3>1. Top \in Plain
      BY <1>2, <2>1, OpensIs
    <3>2. QED
      BY <1>2, <3>1 DEF Plain
  <2>5. Len(wire') = Len(wire) - n
    BY <1>5, <2>1, Cut
  <2>6. Len(came) = Len(u) + Len(Pending(todo')) + Len(wire')
    BY <1>4, <1>6, <2>3, <2>4, <2>5
  <2>7. QED
    BY <1>4, <1>7, <1>9, <2>1, <2>2, <2>6
<1>10. CASE AtEnd /\ Unmoved
  <2> DEFINE eof == Call("eof", << >>)
  <2>1. eof \in Told /\ << eof >> \in Seq(Told) /\ << >> \in Seq(Told)
    BY EofIsTold
  <2>2. /\ Is(Top, "or_eof") /\ wire = << >> /\ wire' = << >>
        /\ got' = Append(got, eof) /\ todo' = << >>
    BY <1>10 DEF AtEnd
  <2>3. ASSUME NEW r \in Seq(Told), Parses(todo', r) PROVE Parses(Each(asked), got' \o r)
    <3>1. r = << >>
      BY <2>2, <2>3, NothingLeft
    <3>2. Steps(todo, << eof >>, << >>, << >>)
      BY <1>1, <2>2 DEF Steps, Top
    <3>3. Parses(todo, << eof >>)
      BY <1>2, <1>5, <2>1, <2>2, <3>2, ParsesNothing, ParsesFirst
    <3>4. Parses(Each(asked), got \o << eof >>)
      BY <1>3, <2>1, <3>3
    <3>5. got \o << eof >> = got' \o r
      <4> HIDE DEF eof
      <4>1. QED
        BY <1>5, <2>1, <2>2, <3>1
    <3>6. QED
      BY <3>4, <3>5
  <2>4. Written(eof) = << >>
    BY <2>1, LenWritten DEF Call
  <2> HIDE DEF eof
  <2>5. Wrote(got', u)
    <3>1. Wrote(Append(got, eof), u \o Written(eof))
      BY <1>4, <1>5, <2>1, WroteLast
    <3>2. QED
      BY <2>2, <2>4, <3>1
  <2>6. Pending(todo') = << >> /\ Pending(todo) = << >>
    BY <1>2, <2>2 DEF Pending, Is
  <2>7. Len(came) = Len(u) + Len(Pending(todo')) + Len(wire')
    BY <1>4, <2>2, <2>6
  <2>8. QED
    BY <1>7, <1>10, <2>3, <2>5, <2>7
<1>11. CASE Stopping
  BY <1>11 DEF Stopping, IInv, WhileItComes, WhileItIsWritten, WhileItIsReread, Reread
<1>12. QED
  BY <1>1, <1>8, <1>9, <1>10, <1>11, Reading

\* A step of the reader in the second turn.
LEMMA RereadingKeeps ==
    ASSUME IInv, Typed', Deserialize, turn = 2
    PROVE  IInv'
<1>1. Typed /\ pc = "read"
  BY ByKind DEF IInv
<1>2. PICK m \in Seq(Told) : m = first /\ Goes(m, << >>)
  <2>1. WhileItIsReread
    BY DEF IInv
  <2>2. first \in Seq(Told) /\ Goes(first, << >>)
    BY <1>1, <2>1, Zenon DEF WhileItIsReread
  <2>3. QED
    BY <2>2
<1>3. << >> \in Seq(Byte)
  OBVIOUS
<1>4. Unmoved /\ Goes(m, << >>)'
  BY <1>1, <1>2, <1>3, GoesOn
<1>5. pc' = "read" /\ turn' = 2 /\ first' = m
  BY <1>1, <1>2, <1>4 DEF Unmoved
<1>6. WhileItIsReread'
  BY <1>2, <1>4, <1>5 DEF WhileItIsReread, Goes
<1>7. QED
  BY <1>5, <1>6 DEF IInv, WhileItComes, WhileItIsWritten, Reread

\* The second turn begins.
LEMMA ForwardKeeps ==
    ASSUME IInv, Typed', Forward
    PROVE  IInv'
<1>1. /\ pc = "read" /\ todo = << >> /\ turn = 1
      /\ pc' = "write" /\ turn' = 2
      /\ calls' = got /\ first' = got
      /\ came' = SubSeq(came, 1, Len(came) - Len(wire))
      /\ wire' = << >> /\ asked' = asked
  BY DEF Forward
<1>2. got \in Seq(Told) /\ wire \in Seq(Byte) /\ came \in Seq(Byte) /\ << >> \in Seq(Told)
  BY DEF IInv, Typed
<1>3. PICK u \in Seq(Byte) : Wrote(got, u) /\ Len(came) = Len(u) + Len(Pending(todo)) + Len(wire)
  BY <1>1 DEF IInv, WhileItComes
<1>4. Parses(Each(asked), got)
  <2>1. Parses(Each(asked), got \o << >>)
    BY <1>1, <1>2, ParsesNothing DEF IInv, WhileItComes
  <2>2. got \o << >> = got
    BY <1>2
  <2>3. QED
    BY <2>1, <2>2
<1>5. Each(asked)' = Each(asked)
  BY <1>1 DEF Each
<1>6. Len(came') = Len(u)
  <2>1. Len(Pending(todo)) = 0
    BY <1>1 DEF Pending
  <2>2. Len(u) \in Nat /\ Len(wire) \in Nat
    BY <1>2
  <2>3. Len(came) - Len(wire) = Len(u) /\ Len(u) \in 0 .. Len(came)
    BY <1>3, <2>1, <2>2
  <2>4. QED
    BY <1>1, <1>2, <2>3, Cut
<1>7. wire' \o u = u /\ Len(came') = Len(wire') + Len(u)
  BY <1>1, <1>6
<1>8. Wrote(calls', u) /\ Wrote(first', wire' \o u)
  BY <1>1, <1>3, <1>7
<1>9. WhileItIsWritten'
  BY <1>1, <1>2, <1>4, <1>5, <1>7, <1>8 DEF WhileItIsWritten
<1>10. QED
  BY <1>1, <1>9 DEF IInv, WhileItComes, WhileItIsReread, Reread

LEMMA FinishKeeps ==
    ASSUME IInv, Typed', Finish
    PROVE  IInv'
<1>1. pc = "read" /\ todo = << >> /\ turn = 2 /\ pc' = "done" /\ UNCHANGED << wire, got, first, turn >>
  BY DEF Finish, Stop
<1>2. PICK r \in Seq(Told) :
        first = got \o r /\ Parses(todo, r) /\ Wrote(r, Pending(todo) \o (wire \o << >>))
  BY <1>1 DEF IInv, WhileItIsReread, Goes
<1>3. got \in Seq(Told) /\ wire \in Seq(Byte)
  BY DEF IInv, Typed
<1>4. r = << >>
  BY <1>1, <1>2, NothingLeft
<1>5. Pending(todo) \o (wire \o << >>) = wire
  BY <1>1, <1>3 DEF Pending
<1>6. wire = << >>
  BY <1>2, <1>3, <1>4, <1>5, WroteFrom
<1>7. first = got
  BY <1>2, <1>3, <1>4
<1>8. QED
  BY <1>1, <1>6, <1>7 DEF IInv, WhileItComes, WhileItIsWritten, WhileItIsReread, Reread

LEMMA IInvNext ==
    IInv /\ [Next]_vars => IInv'
<1> SUFFICES ASSUME IInv, [Next]_vars PROVE IInv'
  OBVIOUS
<1>1. Typed /\ Typed'
  BY TypedNext DEF IInv
<1>2. CASE WriteCall
  BY <1>1, <1>2, WriteKeeps
<1>3. CASE WriteFails
  <2>1. pc = "write" /\ calls # << >> /\ Head(calls).call \in WontWrite /\ StartReading(wire)
    BY <1>3 DEF WriteFails
  <2>2. turn = 1
    <3>1. SUFFICES ASSUME turn = 2 PROVE FALSE
      BY <1>1 DEF Typed
    <3>2. calls \in Seq(Told)
      BY <2>1, <3>1 DEF IInv, WhileItIsWritten
    <3>3. Head(calls) \in Told
      BY <2>1, <3>2, Uncons
    <3>4. QED
      BY <2>1, <3>3 DEF Told
  <2>3. QED
    BY <1>1, <2>1, <2>2, Starts
<1>4. CASE Arrive
  BY <1>1, <1>4, ArriveKeeps
<1>5. CASE Deserialize
  BY <1>1, <1>5, ComingKeeps, RereadingKeeps DEF Typed
<1>6. CASE Forward
  BY <1>1, <1>6, ForwardKeeps
<1>7. CASE Finish
  BY <1>1, <1>7, FinishKeeps
<1>8. CASE Rest \/ UNCHANGED vars
  <2>1. UNCHANGED << pc, turn, asked, calls, wire, came, todo, got, first >>
    BY <1>8 DEF Rest, vars
  <2>2. Each(asked)' = Each(asked) /\ Pending(todo)' = Pending(todo)
    BY <2>1 DEF Each, Pending
  <2>3. WhileItComes' /\ WhileItIsWritten' /\ WhileItIsReread' /\ Reread'
    BY <2>1, <2>2 DEF IInv, WhileItComes, WhileItIsWritten, WhileItIsReread, Goes, Reread
  <2>4. QED
    BY <1>1, <2>3 DEF IInv
<1>9. QED
  BY <1>2, <1>3, <1>4, <1>5, <1>6, <1>7, <1>8 DEF Next

\* Each turn keeps the value and the number of its bytes.
THEOREM IInvInductive ==
    Spec => []IInv
<1>1. QED
  BY IInvInit, IInvNext, PTL DEF Spec

\* Whatever stream came, of whatever types: if it could be read, what is written
\* for it is read without an error as the same value, to the last byte.
THEOREM ForwardsEveryValue ==
    Spec => []ForwardsTheValue
<1>1. IInv => ForwardsTheValue
  BY DEF IInv, Reread, ForwardsTheValue
<1>2. QED
  BY <1>1, IInvInductive, PTL

\* What is written for a value takes as many bytes as the value took when it came.
THEOREM ForwardsAsManyBytes ==
    Spec => [](turn = 2 /\ pc = "write" /\ calls = << >> => Len(wire) = Len(came))
<1>1. IInv => (turn = 2 /\ pc = "write" /\ calls = << >> => Len(wire) = Len(came))
  <2>1. SUFFICES ASSUME IInv, turn = 2, pc = "write", calls = << >>
                 PROVE  Len(wire) = Len(came)
    OBVIOUS
  <2>2. calls \in Seq(Told) /\ wire \in Seq(Byte)
    BY <2>1 DEF IInv, WhileItIsWritten, Typed
  <2>3. PICK u \in Seq(Byte) : Wrote(calls, u) /\ Len(came) = Len(wire) + Len(u)
    BY <2>1 DEF IInv, WhileItIsWritten
  <2>4. u = << >>
    BY <2>1, <2>2, <2>3, WroteFrom
  <2>5. QED
    BY <2>2, <2>3, <2>4
<1>2. QED
  BY <1>1, IInvInductive, PTL

-----------------------------------------------------------------------------
\* What this library wrote.

\* It is a value of the types that it is read as.
Value == meant # Unknown /\ \E k \in Nat : Conforms(k, meant, asked)

\* What is on the wire is what the calls that have been made are written as.
WhileItIsSent ==
    turn = 1 /\ pc = "write" =>
        /\ complete
        /\ \E cs \in Seq(AnyCall) : \E i \in 0 .. Len(cs) :
             /\ calls = SubSeq(cs, i + 1, Len(cs))
             /\ meant = Meant(cs)[Len(cs)]
             /\ Meant(cs)[i] \in Seq(Told) /\ Wrote(Meant(cs)[i], wire)

Reports(cs) == \E i \in 1 .. Len(cs) : cs[i].call = "eof"

\* The reader follows what was written, all of it if it has come whole, or has
\* reported the end of what has come.
WhileItIsReadBack ==
    turn = 1 /\ pc = "read" /\ Value =>
        /\ Whole
        /\ \/ \E m \in Seq(Told), tail \in Seq(Byte) :
                Said(m) = meant /\ Goes(m, tail) /\ (complete <=> tail = << >>)
           \/ ~ complete /\ todo = << >> /\ wire = << >> /\ Reports(got)

ReadBack ==
    Value =>
        /\ turn = 1 /\ complete => pc \in { "write", "read" }
        /\ turn = 2 => /\ complete => Said(first) = meant
                       /\ ~ complete => Reports(first)
                       /\ pc = "write" => Wrote(first, came)

JInv == IInv /\ WhileItIsSent /\ WhileItIsReadBack /\ ReadBack

LEMMA ValueStays ==
    ASSUME UNCHANGED << meant, asked >>
    PROVE  Value' <=> Value
  BY DEF Value

\* Said, with the end that was reported or without it.
LEMMA SaidIs ==
    ASSUME NEW cs \in Seq(Spoken)
    PROVE  Said(cs) = cs /\ Said(Append(cs, Call("eof", << >>))) = cs
<1> DEFINE eof == Call("eof", << >>)
<1>1. eof.call = "eof" /\ eof \in Told
  BY EofIsTold DEF Call
<1> HIDE DEF eof
<1>2. Said(cs) = cs
  <2>1. cs # << >> => cs[Len(cs)] \in Spoken
    OBVIOUS
  <2>2. QED
    BY <2>1 DEF Said, Spoken
<1>3. Said(Append(cs, eof)) = cs
  <2>1. cs \in Seq(Told)
    <3>1. Spoken \subseteq Told
      BY DEF Spoken
    <3>2. QED
      BY <3>1, SeqMonotonic
  <2>2. PICK ds \in Seq(Told) : ds = Append(cs, eof)
    BY <1>1, <2>1, AppendProperties
  <2>3. ds # << >> /\ ds[Len(ds)] = eof /\ SubSeq(ds, 1, Len(ds) - 1) = cs
    BY <1>1, <2>1, <2>2
  <2>4. QED
    BY <1>1, <2>2, <2>3 DEF Said
<1>4. QED
  BY <1>2, <1>3 DEF eof

\* What has been written of a value is the value of its types.
LEMMA ValueIsWritten ==
    ASSUME Typed, Value, meant \in Seq(AnyCall)
    PROVE  /\ meant \in Seq(Told)
           /\ \E m \in Seq(Told) : /\ Said(m) = meant /\ Parses(Each(asked), m)
                                   /\ \A u \in Seq(Byte) : Wrote(meant, u) => Wrote(m, u)
<1> DEFINE eof == Call("eof", << >>)
<1>1. eof.call = "eof" /\ eof \in Told /\ Written(eof) = << >>
  BY EofIsTold, LenWritten DEF Call
<1>2. Speaks(Each(asked), meant)
  BY ConformsSpeaks DEF Value, Typed
<1>3. meant \in Seq(Spoken)
  BY <1>2 DEF Speaks
<1>4. PICK m \in Seq(Told) : Parses(Each(asked), m) /\ (m = meant \/ m = Append(meant, eof))
  BY <1>2 DEF Speaks
<1>5. Said(m) = meant
  BY <1>3, <1>4, SaidIs
<1> HIDE DEF eof
<1>6. meant \in Seq(Told)
  <2>1. Spoken \subseteq Told
    BY DEF Spoken
  <2>2. QED
    BY <1>3, <2>1, SeqMonotonic
<1>7. ASSUME NEW u \in Seq(Byte), Wrote(meant, u) PROVE Wrote(m, u)
  <2>1. Wrote(Append(meant, eof), u \o Written(eof))
    BY <1>1, <1>6, <1>7, WroteLast
  <2>2. u \o << >> = u
    OBVIOUS
  <2>3. QED
    BY <1>1, <1>4, <1>7, <2>1, <2>2
<1>8. QED
  BY <1>4, <1>5, <1>6, <1>7

LEMMA JInvInit ==
    Init => JInv
<1> SUFFICES ASSUME Init PROVE JInv
  OBVIOUS
<1>1. IInv /\ turn = 1 /\ complete
  BY IInvInit DEF Init
<1>2. CASE \E w \in Writings :
             /\ pc = "write" /\ calls = w.calls /\ meant = Meant(w.calls)[Len(w.calls)]
             /\ wire = << >>
  <2>1. PICK cs \in Seq(AnyCall) :
          /\ pc = "write" /\ calls = cs /\ meant = Meant(cs)[Len(cs)]
          /\ wire = << >>
    BY <1>2, InputAssumption
  <2>2. calls = SubSeq(cs, 0 + 1, Len(cs)) /\ 0 \in 0 .. Len(cs)
    BY <2>1
  <2>3. Meant(cs)[0] \in Seq(Told) /\ Wrote(Meant(cs)[0], wire)
    <3>1. << >> \in Seq(Told)
      OBVIOUS
    <3>2. QED
      BY <2>1, <3>1, MeantIs, WroteNothing
  <2>4. WhileItIsSent
    BY <1>1, <2>1, <2>2, <2>3 DEF WhileItIsSent
  <2>5. QED
    BY <1>1, <2>1, <2>4 DEF JInv, WhileItIsReadBack, ReadBack
<1>3. CASE pc = "read" /\ meant = Unknown
  BY <1>1, <1>3 DEF JInv, WhileItIsSent, WhileItIsReadBack, ReadBack, Value
<1>4. QED
  BY <1>2, <1>3 DEF Init

\* Sending goes on.
LEMMA SendKeeps ==
    ASSUME JInv, IInv', WriteCall, turn = 1
    PROVE  JInv'
<1>1. /\ pc = "write" /\ calls # << >> /\ Head(calls).call \notin WontWrite
      /\ wire' = wire \o Written(Head(calls)) /\ calls' = Tail(calls)
      /\ UNCHANGED << pc, turn, meant, asked, complete, came, todo, got, first >>
  BY DEF WriteCall
<1>2. PICK cs \in Seq(AnyCall) : \E i \in 0 .. Len(cs) :
        /\ calls = SubSeq(cs, i + 1, Len(cs))
        /\ meant = Meant(cs)[Len(cs)]
        /\ Meant(cs)[i] \in Seq(Told) /\ Wrote(Meant(cs)[i], wire)
  BY <1>1 DEF JInv, WhileItIsSent
<1>3. PICK i \in 0 .. Len(cs) :
        /\ calls = SubSeq(cs, i + 1, Len(cs))
        /\ meant = Meant(cs)[Len(cs)]
        /\ Meant(cs)[i] \in Seq(Told) /\ Wrote(Meant(cs)[i], wire)
  BY <1>2
<1>4. i + 1 \in 1 .. Len(cs) /\ i + 1 \in 0 .. Len(cs) /\ (i + 1) - 1 = i
  BY <1>1, <1>3
<1>5. PICK c \in AnyCall : c = cs[i + 1]
  BY <1>4
<1>6. Head(calls) = c /\ calls' = SubSeq(cs, (i + 1) + 1, Len(cs))
  BY <1>1, <1>3, <1>4, <1>5
<1>7. wire \in Seq(Byte)
  BY DEF JInv, IInv, Typed
<1>8. Meant(cs)[i + 1] \in Seq(Told) /\ Wrote(Meant(cs)[i + 1], wire')
  <2>1. Meant(cs)[i + 1] = IF c.call \in Silent THEN Meant(cs)[i] ELSE Append(Meant(cs)[i], c)
    <3>1. Meant(cs)[i + 1] =
            IF cs[i + 1].call \in Silent THEN Meant(cs)[(i + 1) - 1]
            ELSE Append(Meant(cs)[(i + 1) - 1], cs[i + 1])
      BY <1>4, MeantIs, Zenon
    <3>2. QED
      BY <1>4, <1>5, <3>1
  <2>2. CASE c.call \in Silent
    <3>1. Written(c) = << >>
      BY <2>2 DEF Written, Silent
    <3>2. wire' = wire
      BY <1>1, <1>6, <1>7, <3>1
    <3>3. QED
      BY <1>3, <2>1, <2>2, <3>2
  <2>3. CASE c.call \notin Silent
    <3>1. c \in Told
      BY <1>1, <1>6, <2>3 DEF Told
    <3>2. PICK s \in Seq(Told) : s = Meant(cs)[i]
      BY <1>3
    <3>3. Append(s, c) \in Seq(Told)
      BY <3>1, AppendProperties
    <3>4. Wrote(Append(s, c), wire \o Written(c))
      BY <1>3, <1>7, <3>1, <3>2, WroteLast
    <3>5. QED
      BY <1>1, <1>6, <2>1, <2>3, <3>2, <3>3, <3>4
  <2>4. QED
    BY <2>2, <2>3
<1>9. complete
  BY <1>1 DEF JInv, WhileItIsSent
<1>10. WhileItIsSent'
  BY <1>1, <1>3, <1>4, <1>6, <1>8, <1>9 DEF WhileItIsSent
<1>11. QED
  BY <1>1, <1>10 DEF JInv, WhileItIsReadBack, ReadBack

\* What comes when the calls have been made, in full or in part.
LEMMA ComesAs ==
    ASSUME JInv, Arrive, turn = 1
    PROVE  /\ pc' = "read" /\ todo' = Each(asked) /\ got' = << >> /\ turn' = 1
           /\ UNCHANGED << meant, asked, first >> /\ came' = wire'
           /\ meant \in Seq(Told)
           /\ \E tail \in Seq(Byte) :
                Wrote(meant, wire' \o tail) /\ (complete' <=> tail = << >>)
<1>1. PICK n \in 0 .. Len(wire) :
        complete' = (complete /\ n = Len(wire)) /\ StartReading(SubSeq(wire, 1, n))
  BY DEF Arrive
<1>2. /\ pc' = "read" /\ wire' = SubSeq(wire, 1, n) /\ came' = SubSeq(wire, 1, n)
      /\ todo' = Each(asked) /\ got' = << >> /\ turn' = 1
      /\ UNCHANGED << meant, asked, first >>
  BY <1>1 DEF StartReading
<1>3. pc = "write" /\ calls = << >>
  BY DEF Arrive
<1>4. wire \in Seq(Byte)
  BY DEF JInv, IInv, Typed
<1>5. PICK tail \in Seq(Byte) : tail = SubSeq(wire, n + 1, Len(wire)) /\ Len(tail) = Len(wire) - n
  BY <1>4, Cut
<1>6. wire' \o tail = wire
  <2>1. wire' \in Seq(Byte)
    BY <1>2, <1>4, Cut
  <2>2. SubSeq(wire, 1, Len(wire)) = wire /\ Len(wire) \in Nat
    BY <1>4, SubSeqFull
  <2>3. SubSeq(wire, 1, n) \o SubSeq(wire, n + 1, Len(wire)) = SubSeq(wire, 1, Len(wire))
    <3>1. 1 \in 1 .. Len(wire) + 1 /\ n \in 1 - 1 .. Len(wire) /\ Len(wire) \in n .. Len(wire)
      BY <2>2
    <3>2. QED
      BY <1>4, <3>1, ConcatAdjacentSubSeq
  <2>4. QED
    BY <1>2, <1>5, <2>1, <2>2, <2>3
<1>7. complete' <=> tail = << >>
  <2>1. complete
    BY <1>3 DEF JInv, WhileItIsSent
  <2>2. n = Len(wire) <=> tail = << >>
    <3>1. tail = << >> <=> Len(tail) = 0
      OBVIOUS
    <3>2. Len(wire) \in Nat
      BY <1>4
    <3>3. QED
      BY <1>5, <3>1, <3>2
  <2>3. QED
    BY <1>1, <2>1, <2>2
<1>8. meant \in Seq(Told) /\ Wrote(meant, wire)
  <2>1. PICK cs \in Seq(AnyCall) : \E i \in 0 .. Len(cs) :
          /\ calls = SubSeq(cs, i + 1, Len(cs))
          /\ meant = Meant(cs)[Len(cs)]
          /\ Meant(cs)[i] \in Seq(Told) /\ Wrote(Meant(cs)[i], wire)
    BY <1>3 DEF JInv, WhileItIsSent
  <2>2. PICK i \in 0 .. Len(cs) :
          /\ calls = SubSeq(cs, i + 1, Len(cs))
          /\ meant = Meant(cs)[Len(cs)]
          /\ Meant(cs)[i] \in Seq(Told) /\ Wrote(Meant(cs)[i], wire)
    BY <2>1
  <2>3. i = Len(cs)
    <3>1. PICK l \in Nat : l = Len(cs)
      OBVIOUS
    <3>2. Len(SubSeq(cs, i + 1, Len(cs))) = l - i
      <4>1. Len(SubSeq(cs, i + 1, Len(cs))) = Len(cs) - i
        BY Cut
      <4>2. QED
        BY <3>1, <4>1
    <3>3. SubSeq(cs, i + 1, Len(cs)) = << >>
      BY <1>3, <2>2
    <3>4. Len(SubSeq(cs, i + 1, Len(cs))) = Len(<< >>)
      BY <3>3, Zenon
    <3>5. Len(<< >>) = 0
      OBVIOUS
    <3>6. l - i = 0
      BY <3>2, <3>4, <3>5, Zenon
    <3>7. i \in Nat
      OBVIOUS
    <3>8. QED
      BY <3>1, <3>6, <3>7
  <2>4. QED
    BY <2>2, <2>3
<1>9. Wrote(meant, wire' \o tail)
  BY <1>6, <1>8
<1>10. QED
  BY <1>2, <1>7, <1>8, <1>9

\* Calls that visitors can be told of are all written.
LEMMA NeverGivesUp ==
    ASSUME JInv, WriteFails, turn = 1
    PROVE  meant \in Seq(AnyCall) /\ meant \notin Seq(Told)
<1>1. pc = "write" /\ calls # << >> /\ Head(calls).call \in WontWrite
  BY DEF WriteFails
<1>2. PICK cs \in Seq(AnyCall) : \E i \in 0 .. Len(cs) :
        calls = SubSeq(cs, i + 1, Len(cs)) /\ meant = Meant(cs)[Len(cs)]
  BY <1>1 DEF JInv, WhileItIsSent
<1>3. PICK i \in 0 .. Len(cs) :
        calls = SubSeq(cs, i + 1, Len(cs)) /\ meant = Meant(cs)[Len(cs)]
  BY <1>2
<1>4. i + 1 \in 1 .. Len(cs) /\ Head(calls) = cs[i + 1]
  BY <1>1, <1>3
<1>5. meant \notin Seq(Told)
  BY <1>1, <1>3, <1>4, MeantIsWritten
<1>6. meant \in Seq(AnyCall)
  <2>1. Len(cs) \in 0 .. Len(cs)
    OBVIOUS
  <2>2. QED
    BY <1>3, <2>1, MeantIs
<1>7. QED
  BY <1>5, <1>6

\* All of it comes, or some of it.
LEMMA ComeKeeps ==
    ASSUME JInv, IInv', Arrive, turn = 1
    PROVE  JInv'
<1>1. /\ pc' = "read" /\ todo' = Each(asked) /\ got' = << >> /\ turn' = 1
      /\ UNCHANGED << meant, asked >> /\ came' = wire' /\ meant \in Seq(Told)
  BY ComesAs
<1>2. PICK tail \in Seq(Byte) : Wrote(meant, wire' \o tail) /\ (complete' <=> tail = << >>)
  BY ComesAs
<1>3. Typed /\ asked \in Seq(DOMAIN Types) /\ wire' \in Seq(Byte)
  BY DEF JInv, IInv, Typed
<1>4. PICK w \in Seq(Byte) : w = wire' \o tail
  BY <1>3, ConcatProperties
<1>5. Pending(todo') = << >> /\ Pending(todo)' = Pending(todo')
  BY <1>1, <1>3, EachIsStack DEF Pending
<1>6. ASSUME Value'
      PROVE  Whole' /\ \E m \in Seq(Told) : Said(m) = meant /\ Goes(m, tail)'
  <2>1. Value
    BY <1>1, <1>6, ValueStays
  <2>2. meant \in Seq(AnyCall)
    BY <1>1, ToldIsCall
  <2>3. PICK m \in Seq(Told) : /\ Said(m) = meant /\ Parses(Each(asked), m)
                               /\ \A u \in Seq(Byte) : Wrote(meant, u) => Wrote(m, u)
    BY <1>3, <2>1, <2>2, ValueIsWritten
  <2>4. Wrote(m, w)
    BY <1>2, <1>4, <2>3
  <2>5. Pending(todo') \o (wire' \o tail) = w
    BY <1>4, <1>5
  <2>6. m = got' \o m
    BY <1>1
  <2>7. Goes(m, tail)'
    BY <1>1, <1>5, <2>3, <2>4, <2>5, <2>6 DEF Goes
  <2>8. << >> \in Seq(Byte) /\ Wrote(got', << >>)
    BY <1>1, WroteNothing
  <2>9. came' = << >> \o (Pending(todo') \o wire')
    BY <1>1, <1>3, <1>5
  <2>10. Whole'
    BY <1>5, <2>8, <2>9 DEF Whole
  <2>11. QED
    BY <2>3, <2>7, <2>10
<1>7. WhileItIsReadBack'
  BY <1>1, <1>2, <1>6 DEF WhileItIsReadBack
<1>8. QED
  BY <1>1, <1>7 DEF JInv, WhileItIsSent, ReadBack

\* A value of its types is one that the writer implements.
LEMMA FailsKeeps ==
    ASSUME JInv, IInv', WriteFails, turn = 1
    PROVE  JInv'
<1>1. pc' = "read" /\ turn' = 1 /\ meant' = meant /\ asked' = asked
  BY DEF WriteFails, StartReading
<1>2. ~ Value
  <2>1. meant \in Seq(AnyCall) /\ meant \notin Seq(Told)
    BY NeverGivesUp
  <2>2. Typed
    BY DEF JInv, IInv
  <2>3. QED
    BY <2>1, <2>2, ValueIsWritten
<1>3. ~ Value'
  BY <1>1, <1>2, ValueStays
<1>4. QED
  BY <1>1, <1>3 DEF JInv, WhileItIsSent, WhileItIsReadBack, ReadBack

\* A step of the reader.
LEMMA ReadingBackKeeps ==
    ASSUME JInv, IInv', Deserialize, turn = 1
    PROVE  JInv'
<1>1. Typed /\ Typed' /\ pc = "read" /\ todo # << >>
  BY ByKind DEF JInv, IInv
<1>2. UNCHANGED << turn, meant, asked, complete >> /\ pc' # "write"
  BY <1>1, Reading DEF Unmoved, Stopping
<1>3. WhileItIsSent'
  BY <1>2 DEF WhileItIsSent
<1>4. Value' <=> Value
  BY <1>2, ValueStays
<1>5. ASSUME Value
      PROVE  WhileItIsReadBack' /\ ReadBack'
  <2>1. Whole
    BY <1>1, <1>5 DEF JInv, WhileItIsReadBack
  <2>2. PICK m \in Seq(Told), tail \in Seq(Byte) :
          Said(m) = meant /\ Goes(m, tail) /\ (complete <=> tail = << >>)
    BY <1>1, <1>5 DEF JInv, WhileItIsReadBack
  <2>3. CASE Unmoved /\ Goes(m, tail)' /\ Whole'
    <3>1. Said(m) = meant' /\ (complete' <=> tail = << >>) /\ pc' = "read" /\ turn' = 1
      BY <1>1, <1>2, <2>2, <2>3 DEF Unmoved
    <3>2. WhileItIsReadBack'
      BY <2>3, <3>1 DEF WhileItIsReadBack
    <3>3. QED
      BY <3>1, <3>2 DEF ReadBack
  <2>4. CASE tail # << >> /\ UnexpectedEof
    <3>1. ~ complete' /\ turn' = 1 /\ pc' = "failed"
      BY <1>2, <2>2, <2>4 DEF UnexpectedEof, Stop
    <3>2. QED
      BY <3>1 DEF WhileItIsReadBack, ReadBack
  <2>5. CASE tail # << >> /\ Unmoved /\ AtEnd
    <3>1. ~ complete' /\ turn' = 1 /\ pc' = "read" /\ came' = came
      BY <1>1, <1>2, <2>2, <2>5 DEF Unmoved
    <3>2. Is(Top, "or_eof") /\ wire = << >> /\ wire' = << >> /\ todo' = << >>
          /\ got' = Append(got, Call("eof", << >>))
      BY <2>5 DEF AtEnd
    <3>3. got \in Seq(Told)
      BY <1>1 DEF Typed
    <3>4. Reports(got')
      <4>1. PICK c \in Told : c = Call("eof", << >>) /\ c.call = "eof"
        BY EofIsTold DEF Call
      <4>2. got' = Append(got, c)
        BY <3>2, <4>1
      <4>3. Len(got') = Len(got) + 1 /\ got'[Len(got) + 1] = c /\ Len(got) \in Nat
        BY <3>3, <4>2
      <4>4. QED
        BY <4>1, <4>3 DEF Reports
    <3>5. Whole'
      <4>1. PICK u \in Seq(Byte) : Wrote(got, u) /\ came = u \o (Pending(todo) \o wire)
        BY <2>1 DEF Whole
      <4>2. Pending(todo) = << >> /\ Pending(todo') = << >> /\ Pending(todo)' = Pending(todo')
        BY <1>1, <3>2, Front DEF Pending, Is
      <4>3. came' = u
        BY <3>1, <3>2, <4>1, <4>2
      <4>4. u \o << >> = u /\ u \o (<< >> \o << >>) = u
        OBVIOUS
      <4>5. Wrote(got', u)
        <5>1. PICK c \in Told : c = Call("eof", << >>) /\ Written(c) = << >>
          BY EofIsTold, LenWritten DEF Call
        <5>2. Wrote(Append(got, c), u \o Written(c))
          BY <3>3, <4>1, WroteLast
        <5>3. QED
          BY <3>2, <4>4, <5>1, <5>2
      <4>6. came' = u \o (Pending(todo') \o wire')
        BY <3>2, <4>2, <4>3, <4>4
      <4>7. QED
        BY <4>2, <4>5, <4>6 DEF Whole
    <3>6. WhileItIsReadBack'
      BY <3>1, <3>2, <3>4, <3>5 DEF WhileItIsReadBack, Reports
    <3>7. QED
      BY <3>1, <3>6 DEF ReadBack
  <2>6. QED
    BY <1>1, <2>1, <2>2, <2>3, <2>4, <2>5, GoesOn
<1>6. QED
  BY <1>3, <1>4, <1>5 DEF JInv, WhileItIsReadBack, ReadBack

\* The first turn ends.
LEMMA ReturnKeeps ==
    ASSUME JInv, IInv', Forward
    PROVE  JInv'
<1>1. /\ pc = "read" /\ todo = << >> /\ turn = 1
      /\ pc' = "write" /\ turn' = 2
      /\ first' = got
      /\ came' = SubSeq(came, 1, Len(came) - Len(wire))
      /\ UNCHANGED << meant, asked, complete >>
  BY DEF Forward
<1>2. got \in Seq(Told) /\ wire \in Seq(Byte) /\ came \in Seq(Byte)
  BY DEF JInv, IInv, Typed
<1>3. Value' <=> Value
  BY <1>1, ValueStays
<1>4. ASSUME Value
      PROVE  /\ complete => Said(got) = meant
             /\ ~ complete => Reports(got)
             /\ Wrote(got, came')
  <2>1. PICK u \in Seq(Byte) : Wrote(got, u) /\ came = u \o (Pending(todo) \o wire)
    BY <1>1, <1>4 DEF JInv, WhileItIsReadBack, Whole
  <2>2. Pending(todo) = << >>
    BY <1>1 DEF Pending
  <2>3. ASSUME wire = << >> PROVE came' = u
    <3>1. u \o (<< >> \o << >>) = u /\ Len(<< >>) = 0
      OBVIOUS
    <3>2. came = u
      BY <2>1, <2>2, <2>3, <3>1
    <3>3. came' = SubSeq(u, 1, Len(u))
      <4>1. Len(u) - 0 = Len(u)
        OBVIOUS
      <4>2. QED
        BY <1>1, <2>3, <3>1, <3>2, <4>1
    <3>4. QED
      BY <3>3, SubSeqFull
  <2>4. CASE ~ complete /\ wire = << >> /\ Reports(got)
    BY <2>1, <2>3, <2>4
  <2>5. CASE \E m \in Seq(Told), tail \in Seq(Byte) :
               Said(m) = meant /\ Goes(m, tail) /\ (complete <=> tail = << >>)
    <3>1. PICK m \in Seq(Told), tail \in Seq(Byte) :
            Said(m) = meant /\ Goes(m, tail) /\ (complete <=> tail = << >>)
      BY <2>5
    <3>2. PICK r \in Seq(Told) :
            m = got \o r /\ Parses(todo, r) /\ Wrote(r, Pending(todo) \o (wire \o tail))
      BY <3>1 DEF Goes
    <3>3. r = << >>
      BY <1>1, <3>2, NothingLeft
    <3>4. m = got
      BY <1>2, <3>2, <3>3
    <3>5. PICK w \in Seq(Byte) : w = wire \o tail /\ Len(w) = Len(wire) + Len(tail)
      BY <1>2, ConcatProperties
    <3>6. Wrote(<< >>, w)
      BY <2>2, <3>2, <3>3, <3>5
    <3>7. w = << >>
      <4>1. << >> \in Seq(Told)
        OBVIOUS
      <4>2. QED
        BY <3>6, <4>1, WroteFrom
    <3>8. Len(wire) = 0 /\ Len(tail) = 0
      <4>1. Len(wire) \in Nat /\ Len(tail) \in Nat /\ Len(<< >>) = 0
        BY <1>2
      <4>2. QED
        BY <3>5, <3>7, <4>1
    <3>9. wire = << >> /\ tail = << >>
      BY <1>2, <3>8
    <3>10. QED
      BY <2>1, <2>3, <3>1, <3>4, <3>9
  <2>6. QED
    BY <1>1, <1>4, <2>4, <2>5 DEF JInv, WhileItIsReadBack
<1>5. ReadBack'
  <2>1. SUFFICES ASSUME Value' PROVE /\ complete' => Said(first') = meant'
                                     /\ ~ complete' => Reports(first')
                                     /\ Wrote(first', came')
    BY <1>1 DEF ReadBack, Reports
  <2>2. Value
    BY <1>3, <2>1
  <2>3. QED
    BY <1>1, <1>4, <2>2
<1>6. QED
  BY <1>1, <1>5 DEF JInv, WhileItIsSent, WhileItIsReadBack

\* The second turn.
LEMMA SecondTurnKeeps ==
    ASSUME JInv, IInv', [Next]_vars, turn = 2
    PROVE  JInv'
<1>1. Typed /\ ReadBack
  BY DEF JInv, IInv
<1>2. ASSUME UNCHANGED << turn, meant, asked, complete, first >>,
             pc' = "write" => pc = "write" /\ came' = came
      PROVE  JInv'
  <2>1. Value' <=> Value
    BY <1>2, ValueStays
  <2>2. ReadBack'
    BY <1>1, <1>2, <2>1 DEF ReadBack, Reports
  <2>3. QED
    BY <1>2, <2>2 DEF JInv, WhileItIsSent, WhileItIsReadBack
<1>3. CASE WriteCall
  BY <1>2, <1>3 DEF WriteCall
<1>4. CASE WriteFails
  <2>1. pc = "write" /\ calls # << >> /\ Head(calls).call \in WontWrite
    BY <1>4 DEF WriteFails
  <2>2. calls \in Seq(Told)
    BY <2>1 DEF JInv, IInv, WhileItIsWritten
  <2>3. Head(calls) \in Told
    BY <2>1, <2>2, Uncons
  <2>4. QED
    BY <2>1, <2>3 DEF Told
<1>5. CASE Arrive
  <2>1. complete' = complete /\ pc' = "read" /\ UNCHANGED << turn, meant, asked, first >>
    BY <1>1, <1>5 DEF Arrive, StartReading, Typed
  <2>2. QED
    BY <1>2, <2>1
<1>6. CASE Deserialize
  <2>1. pc = "read" /\ todo # << >>
    BY <1>1, <1>6, ByKind
  <2>2. UNCHANGED << turn, meant, asked, complete, first >> /\ pc' # "write"
    BY <1>1, <1>6, <2>1, Reading DEF Unmoved, Stopping
  <2>3. QED
    BY <1>2, <2>2
<1>7. CASE Forward
  BY <1>7 DEF Forward
<1>8. CASE Finish
  BY <1>2, <1>8 DEF Finish, Stop
<1>9. CASE Rest \/ UNCHANGED vars
  BY <1>2, <1>9 DEF Rest, vars
<1>10. QED
  BY <1>3, <1>4, <1>5, <1>6, <1>7, <1>8, <1>9 DEF Next

LEMMA JInvNext ==
    JInv /\ [Next]_vars => JInv'
<1> SUFFICES ASSUME JInv, [Next]_vars PROVE JInv'
  OBVIOUS
<1>1. IInv'
  BY IInvNext DEF JInv
<1>2. turn = 1 \/ turn = 2
  BY DEF JInv, IInv, Typed
<1>3. CASE turn = 2
  BY <1>1, <1>3, SecondTurnKeeps
<1>4. CASE turn = 1
  <2>1. CASE WriteCall
    BY <1>1, <1>4, <2>1, SendKeeps
  <2>2. CASE WriteFails
    BY <1>1, <1>4, <2>2, FailsKeeps
  <2>3. CASE Arrive
    BY <1>1, <1>4, <2>3, ComeKeeps
  <2>4. CASE Deserialize
    BY <1>1, <1>4, <2>4, ReadingBackKeeps
  <2>5. CASE Forward
    BY <1>1, <2>5, ReturnKeeps
  <2>6. CASE Finish
    BY <1>4, <2>6 DEF Finish
  <2>7. CASE Rest \/ UNCHANGED vars
    <3>1. UNCHANGED vars
      BY <2>7 DEF Rest
    <3>2. UNCHANGED << pc, turn, meant, asked, calls, complete, wire, came, todo, got, first >>
      BY <3>1 DEF vars
    <3>3. (Value' <=> Value) /\ Pending(todo)' = Pending(todo)
      BY <3>2, ValueStays DEF Pending
    <3>4. WhileItIsSent' /\ ReadBack'
      BY <3>2, <3>3 DEF JInv, WhileItIsSent, ReadBack, Reports
    <3>5. WhileItIsReadBack'
      BY <3>2, <3>3 DEF JInv, WhileItIsReadBack, Whole, Goes, Reports
    <3>6. QED
      BY <1>1, <3>4, <3>5 DEF JInv
  <2>8. QED
    BY <2>1, <2>2, <2>3, <2>4, <2>5, <2>6, <2>7 DEF Next
<1>5. QED
  BY <1>2, <1>3, <1>4

\* At every step what is on the wire, what the reader has been told and what it
\* has still to read fit the value that this library wrote.
THEOREM JInvInductive ==
    Spec => []JInv
<1>1. QED
  BY JInvInit, JInvNext, PTL DEF Spec

\* What this library writes for a value of the types it is read as, it reads back:
\* the same value, and without an error, if all of it has come.
THEOREM ReadsEveryValueBack ==
    Spec => []((\E k \in Nat : Conforms(k, meant, asked)) => ReadsBack)
<1>1. JInv => ((\E k \in Nat : Conforms(k, meant, asked)) => ReadsBack)
  <2>1. SUFFICES ASSUME JInv, Value, complete
                 PROVE  /\ turn = 1 => pc \notin { "failed", "panic" }
                        /\ turn = 2 => Said(first) = meant
    BY DEF ReadsBack, Value
  <2>2. QED
    BY <2>1 DEF JInv, ReadBack
<1>2. QED
  BY <1>1, JInvInductive, PTL

\* If its stream has been cut, it is not taken for another value: it is not read,
\* or the end of the stream is reported.
THEOREM TakesNothingShort ==
    Spec => []((\E k \in Nat : Conforms(k, meant, asked)) => NothingShort)
<1>1. JInv => ((\E k \in Nat : Conforms(k, meant, asked)) => NothingShort)
  <2>1. SUFFICES ASSUME JInv, Value, ~ complete, turn = 2
                 PROVE  \E i \in 1 .. Len(first) : first[i].call = "eof"
    BY DEF NothingShort, Value
  <2>2. QED
    BY <2>1 DEF JInv, ReadBack, Reports
<1>2. QED
  BY <1>1, JInvInductive, PTL

\* What is written for a value that has been read is as many bytes as have come
\* of it, and the same bytes if it is one that this library wrote.
THEOREM ForwardsEveryByte ==
    Spec => [](meant = Unknown \/ (\E k \in Nat : Conforms(k, meant, asked)) => ForwardsTheBytes)
<1>1. JInv => (meant = Unknown \/ (\E k \in Nat : Conforms(k, meant, asked)) => ForwardsTheBytes)
  <2>1. SUFFICES ASSUME JInv, turn = 2, pc = "write", calls = << >>,
                        meant = Unknown \/ (\E k \in Nat : Conforms(k, meant, asked))
                 PROVE  Len(wire) = Len(came) /\ (meant # Unknown => wire = came)
    BY DEF ForwardsTheBytes
  <2>2. calls \in Seq(Told) /\ first \in Seq(Told) /\ wire \in Seq(Byte) /\ came \in Seq(Byte)
    BY <2>1 DEF JInv, IInv, WhileItIsWritten, Typed
  <2>3. PICK u \in Seq(Byte) :
          Wrote(calls, u) /\ Wrote(first, wire \o u) /\ Len(came) = Len(wire) + Len(u)
    BY <2>1 DEF JInv, IInv, WhileItIsWritten
  <2>4. u = << >>
    BY <2>1, <2>2, <2>3, WroteFrom
  <2>5. wire \o << >> = wire
    BY <2>2
  <2>6. Len(wire) = Len(came)
    BY <2>2, <2>3, <2>4
  <2>7. ASSUME meant # Unknown PROVE wire = came
    <3>1. Wrote(first, came)
      BY <2>1, <2>7 DEF JInv, ReadBack, Value
    <3>2. Wrote(first, wire)
      BY <2>3, <2>4, <2>5
    <3>3. QED
      BY <2>2, <3>1, <3>2, WroteIsUnique
  <2>8. QED
    BY <2>6, <2>7
<1>2. QED
  BY <1>1, JInvInductive, PTL

-----------------------------------------------------------------------------
\* Framed data with empty buffers in it.

UntilEmpty(cs) == Append(SubSeq(cs, 1, EmptyAt(cs) - 1), LastFrame)

OfFrames == IsFrames(meant) /\ asked = << "framed" >>

\* The first turn stands before a buffer, or has read the length of one that is
\* not empty, or has come to the end.
WhileItIsFramed ==
    turn = 1 /\ pc = "read" /\ OfFrames =>
        \/ todo = << >> /\ got = UntilEmpty(meant)
        \/ \E r \in Seq(Told), tail \in Seq(Byte) :
             /\ meant = got \o r /\ r # << >>
             /\ \A i \in 1 .. Len(got) : got[i].value # << >>
             /\ Wrote(r, Pending(todo) \o (wire \o tail))
             /\ complete => tail = << >>
             /\ \/ todo = << One("framed") >>
                \/ /\ todo = << FrameBuf(Len(Head(r).value)), One("framed") >>
                   /\ Head(r).call = "frame" /\ Head(r).value # << >>

FramesEnd ==
    OfFrames =>
        /\ turn = 1 /\ pc = "failed" => ~ complete
        /\ turn = 1 /\ pc = "panic" => \E i \in 1 .. Len(meant) : ~ Allocates(Len(meant[i].value))
        /\ turn = 2 => first = UntilEmpty(meant)

MeantIsCalls == meant = Unknown \/ meant \in Seq(AnyCall)

FInv == JInv /\ MeantIsCalls /\ WhileItIsFramed /\ FramesEnd

LEMMA FramedIsType ==
    /\ asked = << "framed" >> => Each(asked) = << One("framed") >>
    /\ "framed" \in DOMAIN Types /\ One("framed") \in Item /\ Is(One("framed"), "framed")
    /\ \A n \in Number : FrameBuf(n).is = "frame" /\ FrameBuf(n).len = n
<1>1. "framed" \in DOMAIN Types
  BY InputAssumption DEF TypesAssumption
<1>2. Is(One("framed"), "framed")
  BY EndsAssumption DEF Is, One, Framed
<1>3. One("framed") \in Item
  BY <1>1 DEF One, Item
<1>4. asked = << "framed" >> => Each(asked) = << One("framed") >>
  BY DEF Each
<1>5. \A n \in Number : FrameBuf(n).is = "frame" /\ FrameBuf(n).len = n
  BY DEF FrameBuf
<1>6. QED
  BY <1>1, <1>2, <1>3, <1>4, <1>5

\* Buffers, and the end of the list, are written with their length before them.
LEMMA FramesAreTold ==
    ASSUME NEW cs, cs = Unknown \/ cs \in Seq(AnyCall), IsFrames(cs)
    PROVE  /\ cs \in Seq(Told)
           /\ \A i \in 1 .. Len(cs) :
                /\ cs[i].call = "frame" \/ (i = Len(cs) /\ cs[i] = LastFrame)
                /\ cs[i].call = "frame" =>
                     /\ cs[i] = Call("frame", cs[i].value) /\ cs[i].value \in Seq(Byte)
                     /\ Len(cs[i].value) \in Number
<1>1. cs # Unknown
  BY DEF IsFrames, Unknown, LastFrame, Call
<1>2. cs \in Seq(AnyCall)
  BY <1>1
<1>3. ASSUME NEW i \in 1 .. Len(cs)
      PROVE  cs[i].call = "frame" \/ (i = Len(cs) /\ cs[i] = LastFrame)
  BY <1>2, <1>3 DEF IsFrames
<1>4. ASSUME NEW i \in 1 .. Len(cs) PROVE cs[i] \in Told
  <2>1. cs[i] \in AnyCall
    BY <1>2
  <2>2. cs[i].call \in { "frame", "last_frame" }
    BY <1>3 DEF LastFrame, Call
  <2>3. cs[i].call \notin Silent \cup WontWrite
    BY <2>2, Names
  <2>4. QED
    BY <2>1, <2>3 DEF Told
<1>5. ASSUME NEW i \in 1 .. Len(cs), cs[i].call = "frame"
      PROVE  /\ cs[i] = Call("frame", cs[i].value) /\ cs[i].value \in Seq(Byte)
             /\ Len(cs[i].value) \in Number
  <2>1. cs[i] \in AnyCall
    BY <1>2
  <2>2. cs[i].value \in Seq(Byte) /\ Fits(Len(cs[i].value))
    BY <1>5, <2>1 DEF AnyCall
  <2>3. cs[i] = [call |-> cs[i].call, value |-> cs[i].value]
    BY <2>1 DEF AnyCall
  <2>4. QED
    BY <1>5, <2>2, <2>3 DEF Call, Number
<1>6. cs \in Seq(Told)
  BY <1>2, <1>4
<1>7. QED
  BY <1>3, <1>5, <1>6

\* The first empty one is where everything before it is not.
LEMMA UntilEmptyIs ==
    ASSUME NEW g \in Seq(Told), NEW r \in Seq(Told), r # << >>, Head(r).value = << >>,
           \A i \in 1 .. Len(g) : g[i].value # << >>
    PROVE  UntilEmpty(g \o r) = Append(g, LastFrame)
<1> DEFINE k == Len(g) + 1
<1>1. PICK cs \in Seq(Told) : cs = g \o r
  BY ConcatProperties
<1>2. k \in 1 .. Len(cs) /\ cs[k] = Head(r) /\ \A i \in 1 .. Len(g) : cs[i] = g[i]
  BY <1>1
<1>3. Len(g) \in Nat /\ k \in Nat /\ k - 1 = Len(g)
  OBVIOUS
<1>4. SubSeq(cs, 1, k - 1) = g
  BY <1>1, <1>3, CutConcat
<1>5. cs[k].value = << >> /\ \A j \in 1 .. k - 1 : cs[j].value # << >>
  BY <1>2, <1>3
<1>6. ASSUME NEW i \in 1 .. Len(cs),
             cs[i].value = << >> /\ \A j \in 1 .. i - 1 : cs[j].value # << >>
      PROVE  i = k
  <2>1. ~ (i < k)
    BY <1>3, <1>5, <1>6
  <2>2. ~ (k < i)
    BY <1>2, <1>3, <1>5, <1>6
  <2>3. QED
    BY <1>3, <2>1, <2>2
<1> HIDE DEF k
<1>7. EmptyAt(cs) = k
  BY <1>2, <1>5, <1>6 DEF EmptyAt
<1>8. QED
  BY <1>1, <1>4, <1>7 DEF UntilEmpty

LEMMA FInvInit ==
    Init => FInv
<1> SUFFICES ASSUME Init PROVE FInv
  OBVIOUS
<1>1. JInv /\ turn = 1
  BY JInvInit DEF Init
<1>2. CASE \E w \in Writings : pc = "write" /\ meant = Meant(w.calls)[Len(w.calls)]
  <2>1. PICK cs \in Seq(AnyCall) : pc = "write" /\ meant = Meant(cs)[Len(cs)]
    BY <1>2, InputAssumption
  <2>2. Len(cs) \in 0 .. Len(cs)
    OBVIOUS
  <2>3. meant \in Seq(AnyCall)
    BY <2>1, <2>2, MeantIs
  <2>4. QED
    BY <1>1, <2>1, <2>3 DEF FInv, MeantIsCalls, WhileItIsFramed, FramesEnd
<1>3. CASE pc = "read" /\ meant = Unknown
  <2>1. ~ OfFrames
    BY <1>3 DEF OfFrames, IsFrames, Unknown, LastFrame, Call
  <2>2. QED
    BY <1>1, <1>3, <2>1 DEF FInv, MeantIsCalls, WhileItIsFramed, FramesEnd
<1>4. QED
  BY <1>2, <1>3 DEF Init

\* Before a buffer: its length comes, or the end.
LEMMA FrameLenComes ==
    ASSUME Typed, Deserialize, todo = << One("framed") >>,
           NEW r \in Seq(Told), NEW tail \in Seq(Byte), r # << >>,
           Wrote(r, Pending(todo) \o (wire \o tail)),
           NEW h, h = Head(r),
           h = LastFrame \/ /\ h = Call("frame", h.value) /\ h.value \in Seq(Byte)
                            /\ Len(h.value) \in Number
    PROVE  \/ tail # << >> /\ UnexpectedEof
           \/ /\ ReadFrameLen /\ h.value = << >> /\ Visit("last_frame", << >>, << >>)
           \/ /\ ReadFrameLen /\ h.value # << >> /\ ~ Allocates(Len(h.value)) /\ Stop("panic")
           \/ /\ ReadFrameLen /\ h.value # << >> /\ h.call = "frame"
              /\ Descend(<< FrameBuf(Len(h.value)), Top >>)
              /\ Wrote(r, Word(Len(h.value)) \o (wire' \o tail))
<1> DEFINE n == Len(h.value)
<1>1. Top = One("framed") /\ Is(Top, "framed") /\ Top.is = "one" /\ todo # << >>
  BY FramedIsType DEF Top, Is
<1>2. Pending(todo) = << >> /\ wire \in Seq(Byte)
  BY <1>1, Front DEF Typed
<1>3. PICK b \in Seq(Byte) : b = wire \o tail
  BY <1>2, ConcatProperties
<1>4. Wrote(r, b)
  BY <1>2, <1>3
<1>5. h \in Told /\ Tail(r) \in Seq(Told)
  BY Uncons
<1>6. PICK u \in Seq(Byte) : b = Written(h) \o u
  BY <1>4, WroteFrom
<1>7. /\ h.value \in Seq(Byte) /\ n \in Number /\ (n = 0 <=> h.value = << >>)
      /\ h.value # << >> => h.call = "frame"
      /\ \E x \in Seq(Byte) : x = h.value /\ Written(h) = Word(n) \o x
  <2>1. CASE h = LastFrame
    <3>1. h.value = << >> /\ h.call = "last_frame" /\ << >> \in Seq(Byte)
      BY <2>1 DEF LastFrame, Call
    <3>2. n = 0 /\ 0 \in Number
      BY <3>1, SmallFit DEF Number
    <3>3. Written(h) = Word(0)
      BY <3>1 DEF Written, Silent, WriteLastFrame
    <3>4. PICK w \in Seq(Byte) : w = Word(0)
      BY <3>2, WordIsBytes
    <3>5. w \o << >> = w
      OBVIOUS
    <3>6. QED
      BY <3>1, <3>2, <3>3, <3>4, <3>5
  <2>2. CASE /\ h = Call("frame", h.value) /\ h.value \in Seq(Byte) /\ Len(h.value) \in Number
    <3>1. h.call = "frame"
      BY <2>2 DEF Call
    <3>2. Written(h) = Word(n) \o h.value
      BY <3>1 DEF Written, Silent, WriteFrame
    <3>3. PICK x \in Seq(Byte) : x = h.value
      BY <2>2
    <3>4. Len(x) = 0 <=> x = << >>
      OBVIOUS
    <3>5. QED
      BY <2>2, <3>1, <3>2, <3>3, <3>4, Zenon
  <2>3. QED
    BY <2>1, <2>2
<1> HIDE DEF n
<1>8. PICK x \in Seq(Byte) : x = h.value /\ Written(h) = Word(n) \o x
  BY <1>7
<1>9. PICK w \in Seq(Byte) : w = Word(n) /\ Len(w) = WordLen
  BY <1>7, WordIsBytes DEF Number
<1>10. PICK v \in Seq(Byte) : v = x \o u
  BY ConcatProperties
<1>11. wire \o tail = w \o v
  <2>1. Regroups(w, x, u)
    BY Grouping
  <2>2. (w \o x) \o u = w \o (x \o u)
    BY <2>1 DEF Regroups
  <2>3. QED
    BY <1>3, <1>6, <1>8, <1>9, <1>10, <2>2
<1>12. Len(wire) \in Nat /\ WordLen \in Nat /\ Wants = WordLen
  BY <1>1, <1>2, SmallBytes DEF Wants, Is
<1>13. CASE Len(wire) < WordLen
  <2>1. UnexpectedEof
    BY <1>12, <1>13, TooShort
  <2>2. tail # << >>
    <3>1. SUFFICES ASSUME tail = << >> PROVE FALSE
      OBVIOUS
    <3>2. wire = w \o v
      BY <1>2, <1>11, <3>1
    <3>3. Len(wire) = WordLen + Len(v) /\ Len(v) \in Nat
      BY <1>9, <3>2, ConcatProperties
    <3>4. QED
      BY <1>12, <1>13, <3>3
  <2>3. QED
    BY <2>1, <2>2
<1>14. CASE WordLen <= Len(wire)
  <2>1. Begins(wire, tail, w, v)
    BY <1>2, <1>9, <1>11, <1>14, Split
  <2>2. PICK d \in Seq(Byte) : wire = w \o d /\ d \o tail = v
    BY <2>1 DEF Begins
  <2>3. NextWord = n /\ (ReadU64 => wire' = d)
    BY <1>7, <1>9, <2>2, WordRead
  <2>4. ReadFrameLen
    BY <1>1, <1>14, ByKind
  <2>5. ReadU64 /\ IF n = 0 THEN Visit("last_frame", << >>, << >>)
                   ELSE IF Allocates(n) THEN Descend(<< FrameBuf(n), Top >>)
                   ELSE Stop("panic")
    BY <2>3, <2>4 DEF ReadFrameLen
  <2>6. wire' \o tail = v
    BY <2>2, <2>3, <2>5
  <2>7. Wrote(r, Word(n) \o (wire' \o tail))
    BY <1>3, <1>4, <1>9, <1>11, <2>6
  <2>8. QED
    BY <1>7, <2>4, <2>5, <2>7 DEF n
<1>15. QED
  BY <1>12, <1>13, <1>14

\* Within a buffer: it comes.
LEMMA FrameComes ==
    ASSUME Typed, Deserialize, NEW r \in Seq(Told), NEW tail \in Seq(Byte), r # << >>,
           Wrote(r, Pending(todo) \o (wire \o tail)),
           NEW h, h = Head(r), h = Call("frame", h.value), h.value \in Seq(Byte),
           Len(h.value) \in Number,
           todo = << FrameBuf(Len(h.value)), One("framed") >>
    PROVE  \/ tail # << >> /\ UnexpectedEof
           \/ Visit("frame", h.value, << >>) /\ Wrote(Tail(r), wire' \o tail)
<1> DEFINE n == Len(h.value)
<1>1. Top = FrameBuf(n) /\ Top.is = "frame" /\ Top.len = n /\ todo # << >> /\ n \in Nat
  BY FramedIsType DEF Top, Number
<1>2. Pending(todo) = Word(n) /\ wire \in Seq(Byte)
  BY <1>1, Front DEF Typed
<1>3. PICK w \in Seq(Byte) : w = Word(n)
  BY <1>1, WordIsBytes
<1>4. PICK b \in Seq(Byte) : b = wire \o tail
  BY <1>2, ConcatProperties
<1>5. Wrote(r, w \o b) /\ w \o b \in Seq(Byte)
  BY <1>2, <1>3, <1>4, ConcatProperties
<1>6. h \in Told /\ Tail(r) \in Seq(Told)
  BY Uncons
<1>7. PICK u \in Seq(Byte) : w \o b = Written(h) \o u /\ Wrote(Tail(r), u)
  BY <1>5, WroteFrom
<1>8. PICK x \in Seq(Byte) : x = h.value
  OBVIOUS
<1>9. Written(h) = w \o x
  <2>1. h.call = "frame"
    BY DEF Call
  <2>2. Written(h) = Word(n) \o h.value
    BY <2>1 DEF Written, Silent, WriteFrame
  <2>3. QED
    BY <1>3, <1>8, <2>2
<1>10. b = x \o u
  <2>1. Regroups(w, x, u)
    BY Grouping
  <2>2. w \o b = w \o (x \o u) /\ x \o u \in Seq(Byte)
    BY <1>7, <1>9, <2>1, ConcatProperties DEF Regroups
  <2>3. QED
    BY <2>2, ConcatSimplifications
<1>11. wire \o tail = x \o u /\ Len(x) = n
  BY <1>4, <1>8, <1>10
<1>12. Len(wire) \in Nat /\ Wants = n
  BY <1>1, <1>2 DEF Wants
<1> HIDE DEF n
<1>13. CASE Len(wire) < n
  <2>1. UnexpectedEof
    BY <1>12, <1>13, TooShort
  <2>2. tail # << >>
    <3>1. SUFFICES ASSUME tail = << >> PROVE FALSE
      OBVIOUS
    <3>2. wire = x \o u
      BY <1>2, <1>11, <3>1
    <3>3. Len(wire) = n + Len(u) /\ Len(u) \in Nat
      BY <1>11, <3>2, ConcatProperties
    <3>4. QED
      BY <1>1, <1>12, <1>13, <3>3
  <2>3. QED
    BY <2>1, <2>2
<1>14. CASE n <= Len(wire)
  <2>1. Begins(wire, tail, x, u)
    BY <1>2, <1>11, <1>14, Split
  <2>2. PICK d \in Seq(Byte) : wire = x \o d /\ d \o tail = u
    BY <2>1 DEF Begins
  <2>3. ReadFrame
    BY <1>1, <1>14, ByKind
  <2>4. wire' = SubSeq(wire, n + 1, Len(wire)) /\ Visit("frame", SubSeq(wire, 1, n), << >>)
    BY <1>1, <2>3 DEF ReadFrame, ReadExact
  <2>5. SubSeq(wire, 1, n) = x /\ SubSeq(wire, n + 1, Len(wire)) = d
    BY <1>11, <2>2, CutConcat
  <2>6. wire' \o tail = u
    BY <2>2, <2>4, <2>5
  <2>7. QED
    BY <1>7, <1>8, <2>4, <2>5, <2>6
<1>15. QED
  BY <1>1, <1>12, <1>13, <1>14

\* A step of the reader.
LEMMA FramedReadingKeeps ==
    ASSUME FInv, JInv', Deserialize, turn = 1
    PROVE  FInv'
<1>1. Typed /\ pc = "read" /\ todo # << >>
  BY ByKind DEF FInv, JInv, IInv
<1>2. UNCHANGED << turn, meant, asked, complete >> /\ turn' = 1
  BY <1>1, Reading DEF Unmoved, Stopping
<1>3. MeantIsCalls' /\ (OfFrames' <=> OfFrames)
  BY <1>2 DEF FInv, MeantIsCalls, OfFrames
<1>4. ASSUME OfFrames
      PROVE  WhileItIsFramed' /\ FramesEnd'
  <2>1. PICK r \in Seq(Told), tail \in Seq(Byte) :
          /\ meant = got \o r /\ r # << >>
          /\ \A i \in 1 .. Len(got) : got[i].value # << >>
          /\ Wrote(r, Pending(todo) \o (wire \o tail))
          /\ complete => tail = << >>
          /\ \/ todo = << One("framed") >>
             \/ /\ todo = << FrameBuf(Len(Head(r).value)), One("framed") >>
                /\ Head(r).call = "frame" /\ Head(r).value # << >>
    BY <1>1, <1>4 DEF FInv, WhileItIsFramed
  <2>2. /\ meant \in Seq(Told)
        /\ \A i \in 1 .. Len(meant) :
             /\ meant[i].call = "frame" \/ (i = Len(meant) /\ meant[i] = LastFrame)
             /\ meant[i].call = "frame" =>
                  /\ meant[i] = Call("frame", meant[i].value) /\ meant[i].value \in Seq(Byte)
                  /\ Len(meant[i].value) \in Number
    BY <1>4, FramesAreTold DEF FInv, MeantIsCalls, OfFrames
  <2>3. got \in Seq(Told)
    BY <1>1 DEF Typed
  <2>4. PICK k \in 1 .. Len(meant) : k = Len(got) + 1 /\ meant[k] = Head(r)
                                     /\ (k = Len(meant) <=> Tail(r) = << >>)
    <3>1. PICK n \in Nat, l \in Nat : n = Len(got) /\ l = Len(r) /\ l # 0 /\ Len(meant) = n + l
      <4>1. Len(got) \in Nat /\ Len(r) \in Nat /\ Len(r) # 0 /\ Len(meant) = Len(got) + Len(r)
        BY <2>1, <2>3
      <4>2. QED
        BY <4>1
    <3>2. n + 1 \in 1 .. Len(meant) /\ meant[n + 1] = Head(r)
      BY <2>1, <2>3, <3>1
    <3>3. PICK t \in Seq(Told) : t = Tail(r) /\ Len(t) = l - 1
      <4>1. Tail(r) \in Seq(Told) /\ Len(Tail(r)) = Len(r) - 1
        BY <2>1
      <4>2. QED
        BY <3>1, <4>1
    <3>4. n + 1 = Len(meant) <=> Tail(r) = << >>
      <4>1. Len(t) = 0 <=> t = << >>
        OBVIOUS
      <4>2. \A i \in Nat, j \in Nat : i + 1 = i + j <=> j - 1 = 0
        OBVIOUS
      <4>3. QED
        BY <3>1, <3>3, <4>1, <4>2
    <3>5. QED
      BY <3>1, <3>2, <3>4
  <2>5. PICK h \in Told : h = Head(r) /\ h = meant[k]
    BY <2>1, <2>4, Uncons
  <2>6. /\ h.call = "frame" \/ (k = Len(meant) /\ h = LastFrame)
        /\ h.call = "frame" => /\ h = Call("frame", h.value) /\ h.value \in Seq(Byte)
                               /\ Len(h.value) \in Number
    BY <2>2, <2>5
  <2>7. Pending(todo)' = Pending(todo')
    BY DEF Pending
  <2>8. ASSUME tail # << >>, UnexpectedEof
        PROVE  WhileItIsFramed' /\ FramesEnd'
    <3>1. ~ complete' /\ pc' = "failed"
      BY <1>2, <2>1, <2>8 DEF UnexpectedEof, Stop
    <3>2. QED
      BY <1>2, <3>1 DEF WhileItIsFramed, FramesEnd
  <2>9. CASE todo = << One("framed") >>
    <3>1. Top = One("framed") /\ Below = << >>
      BY <2>9 DEF Top, Below
    <3>2. CASE ReadFrameLen /\ h.value = << >> /\ Visit("last_frame", << >>, << >>)
      <4>1. got' = Append(got, LastFrame) /\ todo' = << >> \o Below /\ pc' = "read"
        BY <1>1, <3>2 DEF Visit, LastFrame
      <4>2. todo' = << >>
        BY <3>1, <4>1
      <4>3. got' = UntilEmpty(meant)
        BY <2>1, <2>3, <2>5, <3>2, <4>1, UntilEmptyIs
      <4>4. WhileItIsFramed'
        BY <1>2, <4>2, <4>3 DEF WhileItIsFramed
      <4>5. QED
        BY <1>2, <4>1, <4>4 DEF FramesEnd
    <3>3. CASE ~ Allocates(Len(h.value)) /\ Stop("panic")
      <4>1. pc' = "panic" /\ \E i \in 1 .. Len(meant) : ~ Allocates(Len(meant[i].value))
        BY <2>5, <3>3 DEF Stop
      <4>2. QED
        BY <1>2, <4>1 DEF WhileItIsFramed, FramesEnd
    <3>4. CASE /\ h.value # << >> /\ h.call = "frame"
               /\ Descend(<< FrameBuf(Len(h.value)), Top >>)
               /\ Wrote(r, Word(Len(h.value)) \o (wire' \o tail))
      <4>1. got' = got /\ pc' = "read" /\ todo' = << FrameBuf(Len(h.value)), Top >> \o Below
        BY <1>1, <3>4 DEF Descend
      <4>2. todo' = << FrameBuf(Len(h.value)), One("framed") >>
        BY <3>1, <4>1
      <4>3. Pending(todo') = Word(Len(h.value))
        <5>1. todo' # << >> /\ Head(todo') = FrameBuf(Len(h.value))
          BY <4>2
        <5>2. QED
          BY <2>6, <3>4, <5>1, FramedIsType DEF Pending
      <4>4. WhileItIsFramed'
        <5>1. \E s \in Seq(Told), t \in Seq(Byte) :
                /\ meant' = got' \o s /\ s # << >>
                /\ \A i \in 1 .. Len(got') : got'[i].value # << >>
                /\ Wrote(s, Pending(todo)' \o (wire' \o t))
                /\ complete' => t = << >>
                /\ \/ todo' = << One("framed") >>
                   \/ /\ todo' = << FrameBuf(Len(Head(s).value)), One("framed") >>
                      /\ Head(s).call = "frame" /\ Head(s).value # << >>
          <6>1. WITNESS r \in Seq(Told), tail \in Seq(Byte)
          <6>2. QED
            BY <1>2, <2>1, <2>5, <2>7, <3>4, <4>1, <4>2, <4>3
        <5>2. QED
          BY <5>1 DEF WhileItIsFramed
      <4>5. QED
        BY <1>2, <4>1, <4>4 DEF FramesEnd
    <3>5. h = LastFrame \/ /\ h = Call("frame", h.value) /\ h.value \in Seq(Byte)
                           /\ Len(h.value) \in Number
      BY <2>6
    <3>6. QED
      BY <1>1, <2>1, <2>5, <2>8, <2>9, <3>2, <3>3, <3>4, <3>5, FrameLenComes
  <2>10. CASE /\ todo = << FrameBuf(Len(h.value)), One("framed") >>
              /\ h.call = "frame" /\ h.value # << >>
    <3>1. Below = << One("framed") >>
      BY <2>10 DEF Below
    <3>2. CASE Visit("frame", h.value, << >>) /\ Wrote(Tail(r), wire' \o tail)
      <4>1. got' = Append(got, h) /\ pc' = "read" /\ todo' = << >> \o Below
        BY <1>1, <2>6, <2>10, <3>2 DEF Visit
      <4>2. todo' = << One("framed") >>
        BY <3>1, <4>1
      <4>3. Pending(todo') = << >>
        BY <4>2, FramedIsType DEF Pending, One
      <4>4. Tail(r) \in Seq(Told) /\ Tail(r) # << >>
        <5>1. k # Len(meant)
          <6>1. meant[Len(meant)] = LastFrame
            BY <1>4 DEF OfFrames, IsFrames
          <6>2. LastFrame.call # "frame"
            BY DEF LastFrame, Call
          <6>3. QED
            BY <2>5, <2>10, <6>1, <6>2
        <5>2. QED
          BY <2>1, <2>4, <5>1, Uncons
      <4>5. meant = got' \o Tail(r)
        <5>1. r = << h >> \o Tail(r)
          BY <2>1, <2>5
        <5>2. PICK t \in Seq(Told) : t = Tail(r)
          BY <4>4
        <5>3. << h >> \in Seq(Told) /\ got \o << h >> = Append(got, h)
          BY <2>3
        <5>4. Regroups(got, << h >>, t)
          BY <2>3, <5>3, Grouping
        <5>5. got \o (<< h >> \o t) = Append(got, h) \o t
          BY <5>3, <5>4 DEF Regroups
        <5>6. QED
          BY <2>1, <4>1, <5>1, <5>2, <5>5
      <4>6. \A i \in 1 .. Len(got') : got'[i].value # << >>
        BY <2>1, <2>3, <2>10, <4>1
      <4>7. PICK b \in Seq(Byte) : b = wire' \o tail
        <5>1. wire' \in Seq(Byte)
          BY DEF JInv, IInv, Typed
        <5>2. QED
          BY <5>1, ConcatProperties
      <4>8. Wrote(Tail(r), Pending(todo)' \o (wire' \o tail))
        BY <2>7, <3>2, <4>3, <4>7
      <4>9. WhileItIsFramed'
        BY <1>2, <2>1, <4>2, <4>4, <4>5, <4>6, <4>8 DEF WhileItIsFramed
      <4>10. QED
        BY <1>2, <4>1, <4>9 DEF FramesEnd
    <3>3. QED
      BY <1>1, <2>1, <2>5, <2>6, <2>8, <2>10, <3>2, FrameComes
  <2>11. QED
    BY <2>1, <2>5, <2>9, <2>10
<1>5. ASSUME ~ OfFrames PROVE WhileItIsFramed' /\ FramesEnd'
  BY <1>3, <1>5 DEF WhileItIsFramed, FramesEnd
<1>6. QED
  BY <1>3, <1>4, <1>5 DEF FInv

\* The first turn.
LEMMA FramedTurnKeeps ==
    ASSUME FInv, JInv', [Next]_vars, turn = 1
    PROVE  FInv'
<1>1. JInv /\ MeantIsCalls
  BY DEF FInv
<1>2. ASSUME UNCHANGED << meant, asked >>
      PROVE  MeantIsCalls' /\ (OfFrames' <=> OfFrames)
  BY <1>1, <1>2 DEF MeantIsCalls, OfFrames
<1>3. CASE WriteCall
  <2>1. pc' = "write" /\ turn' = 1 /\ UNCHANGED << meant, asked >>
    BY <1>3 DEF WriteCall
  <2>2. QED
    BY <1>2, <2>1 DEF FInv, WhileItIsFramed, FramesEnd
<1>4. CASE WriteFails
  <2>1. UNCHANGED << meant, asked >>
    BY <1>4 DEF WriteFails, StartReading
  <2>2. ~ OfFrames
    <3>1. meant \notin Seq(Told)
      BY <1>1, <1>4, NeverGivesUp
    <3>2. QED
      BY <1>1, <3>1, FramesAreTold DEF MeantIsCalls, OfFrames
  <2>3. QED
    BY <1>2, <2>1, <2>2 DEF FInv, WhileItIsFramed, FramesEnd
<1>5. CASE Arrive
  <2>1. /\ pc' = "read" /\ todo' = Each(asked) /\ got' = << >> /\ turn' = 1
        /\ UNCHANGED << meant, asked >> /\ meant \in Seq(Told)
    BY <1>1, <1>5, ComesAs
  <2>2. PICK tail \in Seq(Byte) : Wrote(meant, wire' \o tail) /\ (complete' <=> tail = << >>)
    BY <1>1, <1>5, ComesAs
  <2>3. ASSUME OfFrames PROVE WhileItIsFramed'
    <3>1. todo' = << One("framed") >>
      BY <2>1, <2>3, FramedIsType DEF OfFrames
    <3>2. Pending(todo)' = << >>
      BY <3>1, FramedIsType DEF Pending, One
    <3>3. PICK b \in Seq(Byte) : b = wire' \o tail
      <4>1. wire' \in Seq(Byte)
        BY DEF JInv, IInv, Typed
      <4>2. QED
        BY <4>1, ConcatProperties
    <3>4. Wrote(meant, Pending(todo)' \o (wire' \o tail))
      BY <2>2, <3>2, <3>3
    <3>5. meant' = got' \o meant /\ meant # << >>
      BY <2>1, <2>3 DEF OfFrames, IsFrames
    <3>6. \A i \in 1 .. Len(got') : got'[i].value # << >>
      BY <2>1
    <3>7. QED
      BY <2>1, <2>2, <3>1, <3>4, <3>5, <3>6 DEF WhileItIsFramed
  <2>4. QED
    BY <1>2, <2>1, <2>3 DEF FInv, WhileItIsFramed, FramesEnd
<1>6. CASE Deserialize
  BY <1>6, FramedReadingKeeps
<1>7. CASE Forward
  <2>1. pc = "read" /\ todo = << >> /\ pc' = "write" /\ turn' = 2 /\ first' = got
        /\ UNCHANGED << meant, asked >>
    BY <1>7 DEF Forward
  <2>2. OfFrames => got = UntilEmpty(meant)
    BY <2>1 DEF FInv, WhileItIsFramed
  <2>3. QED
    BY <1>2, <2>1, <2>2 DEF FInv, WhileItIsFramed, FramesEnd
<1>8. CASE Finish
  BY <1>8 DEF Finish
<1>9. CASE Rest \/ UNCHANGED vars
  <2>1. UNCHANGED vars
    BY <1>9 DEF Rest
  <2>2. UNCHANGED << pc, turn, meant, asked, calls, complete, wire, came, todo, got, first >>
    BY <2>1 DEF vars
  <2>3. FramesEnd'
    BY <1>2, <2>2 DEF FInv, FramesEnd
  <2>4. Pending(todo)' = Pending(todo)
    BY <2>2 DEF Pending
  <2>5. WhileItIsFramed'
    BY <1>2, <2>2, <2>4 DEF FInv, WhileItIsFramed
  <2>6. QED
    BY <1>2, <2>2, <2>3, <2>5 DEF FInv
<1>10. QED
  BY <1>3, <1>4, <1>5, <1>6, <1>7, <1>8, <1>9 DEF Next

\* The second one changes nothing of what was sent and read.
LEMMA SecondTurnStays ==
    ASSUME JInv, [Next]_vars, turn = 2
    PROVE  UNCHANGED << turn, meant, asked, first >>
<1>1. Typed
  BY DEF JInv, IInv
<1>2. CASE WriteCall \/ WriteFails \/ Arrive
  BY <1>2 DEF WriteCall, WriteFails, Arrive, StartReading
<1>3. CASE Deserialize
  BY <1>1, <1>3, ByKind, Reading DEF Unmoved, Stopping
<1>4. CASE Forward \/ Finish
  BY <1>4 DEF Forward, Finish, Stop
<1>5. CASE Rest \/ UNCHANGED vars
  BY <1>5 DEF Rest, vars
<1>6. QED
  BY <1>2, <1>3, <1>4, <1>5 DEF Next

LEMMA FInvNext ==
    FInv /\ [Next]_vars => FInv'
<1> SUFFICES ASSUME FInv, [Next]_vars PROVE FInv'
  OBVIOUS
<1>1. JInv /\ JInv'
  BY JInvNext DEF FInv
<1>2. turn = 1 \/ turn = 2
  BY <1>1 DEF JInv, IInv, Typed
<1>3. CASE turn = 1
  BY <1>1, <1>3, FramedTurnKeeps
<1>4. CASE turn = 2
  <2>1. UNCHANGED << turn, meant, asked, first >>
    BY <1>1, <1>4, SecondTurnStays
  <2>2. MeantIsCalls' /\ (OfFrames' <=> OfFrames)
    BY <2>1 DEF FInv, MeantIsCalls, OfFrames
  <2>3. WhileItIsFramed' /\ FramesEnd'
    BY <1>4, <2>1, <2>2 DEF FInv, WhileItIsFramed, FramesEnd
  <2>4. QED
    BY <1>1, <2>2, <2>3 DEF FInv
<1>5. QED
  BY <1>2, <1>3, <1>4

\* Framed data is read back up to its first empty buffer, which is taken for the
\* end of it; it is refused only if it has not come whole.
THEOREM EmptyBufferEnds ==
    Spec => []EmptyBufferEndsFrames
<1>1. FInv => EmptyBufferEndsFrames
  <2>1. SUFFICES ASSUME FInv, OfFrames
                 PROVE  /\ turn = 2 => first = UntilEmpty(meant)
                        /\ pc = "failed" => ~ complete
                        /\ pc = "panic" => \E i \in 1 .. Len(meant) : ~ Allocates(Len(meant[i].value))
    BY DEF EmptyBufferEndsFrames, OfFrames, UntilEmpty
  <2>2. turn = 1 \/ turn = 2
    BY <2>1 DEF FInv, JInv, IInv, Typed
  <2>3. turn = 2 => pc \notin { "failed", "panic" }
    BY <2>1 DEF FInv, JInv, IInv, Reread
  <2>4. QED
    BY <2>1, <2>2, <2>3 DEF FInv, FramesEnd
<1>2. Spec => []FInv
  BY FInvInit, FInvNext, PTL DEF Spec
<1>3. QED
  BY <1>1, <1>2, PTL

-----------------------------------------------------------------------------
\* Where the stream may end: messages one after the other.

\* What is not read with the end of the stream in view.
Inner == { x \in Item : x.is \in { "one", "many" } => Types[x.type].shape # "or_eof" }

LEMMA InnerIs ==
    ASSUME NEW t \in DOMAIN Types, Types[t].shape # "or_eof"
    PROVE  One(t) \in Inner /\ \A n \in Nat : Many(t, n) \in Inner
  BY DEF Inner, Item, One, Many

LEMMA EachIsInner ==
    ASSUME NEW ts \in Seq(DOMAIN Types), \A i \in 1 .. Len(ts) : Types[ts[i]].shape # "or_eof"
    PROVE  Each(ts) \in Seq(Inner)
<1>1. \A i \in 1 .. Len(ts) : ts[i] \in DOMAIN Types
  OBVIOUS
<1>2. \A i \in 1 .. Len(ts) : One(ts[i]) \in Inner
  BY <1>1, InnerIs
<1>3. QED
  BY <1>2 DEF Each

\* Nor is anything that it is made of.
LEMMA InnerMore ==
    ASSUME NEW x \in Inner, NEW c, NEW more, Tells(x, c, more) \/ Opens(x, more)
    PROVE  more \in Seq(Inner)
<1> DEFINE s == Types[x.type]
           Always(u) == u \in DOMAIN Types /\ Types[u].shape # "or_eof"
<1>1. x \in Item /\ x.type \in DOMAIN Types /\ x.len \in Nat
  BY DEF Inner, Item
<1>2. /\ s.shape \in { "option", "seq", "newtype" } => Always(s.of)
      /\ s.shape = "tuple" =>
           s.fields \in Seq(DOMAIN Types)
             /\ \A i \in 1 .. Len(s.fields) : Types[s.fields[i]].shape # "or_eof"
      /\ s.shape = "tagged" => \A n \in DOMAIN s.variants :
           s.variants[n] \in Seq(DOMAIN Types)
             /\ \A i \in 1 .. Len(s.variants[n]) : Types[s.variants[n][i]].shape # "or_eof"
  BY <1>1, Made, EndsAssumption
<1>3. CASE more = << >>
  BY <1>3
<1>4. CASE (Is(x, "option") \/ Is(x, "newtype")) /\ more = << One(s.of) >>
  <2>1. One(s.of) \in Inner
    BY <1>2, <1>4, InnerIs DEF Is
  <2>2. QED
    BY <1>4, <2>1
<1>5. CASE Is(x, "seq") /\ \E n \in Number : more = << Many(s.of, n) >>
  <2>1. PICK n \in Number : more = << Many(s.of, n) >>
    BY <1>5
  <2>2. Many(s.of, n) \in Inner
    BY <1>2, <1>5, InnerIs DEF Is, Number
  <2>3. QED
    BY <2>1, <2>2
<1>6. CASE Is(x, "tagged") /\ \E n \in DOMAIN s.variants : more = Each(s.variants[n])
  BY <1>2, <1>6, EachIsInner DEF Is
<1>7. CASE Is(x, "tuple") /\ more = Each(s.fields)
  BY <1>2, <1>7, EachIsInner DEF Is
<1>8. CASE x.is = "many" /\ x.len # 0 /\ more = << One(x.type), Many(x.type, x.len - 1) >>
  <2>1. Types[x.type].shape # "or_eof" /\ x.len - 1 \in Nat
    BY <1>1, <1>8 DEF Inner
  <2>2. One(x.type) \in Inner /\ Many(x.type, x.len - 1) \in Inner
    BY <1>1, <2>1, InnerIs
  <2>3. QED
    BY <1>8, <2>2
<1>9. CASE \E n \in Number : more = << Buf(n) >> \/ (Is(x, "framed") /\ more = << FrameBuf(n), x >>)
  <2>1. PICK n \in Number : more = << Buf(n) >> \/ (Is(x, "framed") /\ more = << FrameBuf(n), x >>)
    BY <1>9
  <2>2. Buf(n) \in Inner /\ FrameBuf(n) \in Inner
    BY InputAssumption DEF Item, Buf, FrameBuf, Number, TypesAssumption, Inner
  <2>3. CASE more = << Buf(n) >>
    BY <2>2, <2>3
  <2>4. CASE more = << FrameBuf(n), x >>
    <3>1. PICK y \in Inner : y = FrameBuf(n)
      BY <2>2
    <3>2. more = << y, x >>
      BY <2>4, <3>1
    <3>3. QED
      BY <3>2
  <2>5. QED
    BY <2>1, <2>3, <2>4
<1>10. ~ Is(x, "or_eof")
  BY DEF Inner, Is
<1> HIDE DEF s
<1>11. QED
  BY <1>3, <1>4, <1>5, <1>6, <1>7, <1>8, <1>9, <1>10 DEF Tells, Opens, s

\* The first thing to be read and the others.
LEMMA InnerFirst ==
    ASSUME NEW td \in Seq(Inner), td # << >>
    PROVE  /\ Head(td) \in Inner /\ Tail(td) \in Seq(Inner) /\ ~ Is(Head(td), "or_eof")
           /\ \A more \in Seq(Inner) : more \o Tail(td) \in Seq(Inner)
<1>1. Head(td) \in Inner /\ Tail(td) \in Seq(Inner)
  BY Uncons
<1>2. ~ Is(Head(td), "or_eof")
  BY <1>1 DEF Inner, Is
<1>3. \A more \in Seq(Inner) : more \o Tail(td) \in Seq(Inner)
  BY <1>1, ConcatProperties
<1>4. QED
  BY <1>1, <1>2, <1>3

\* A step into it.
InnerStep(td, r, td2, r2) ==
    \/ \E c \in Spoken, more \in Seq(Plain) :
         Tells(Head(td), c, more) /\ r = << c >> \o r2 /\ td2 = more \o Tail(td)
    \/ \E more \in Stack : Opens(Head(td), more) /\ r2 = r /\ td2 = more \o Tail(td)

LEMMA InnerSteps ==
    ASSUME NEW td \in Stack, td \in Seq(Inner), NEW td2 \in Stack, NEW r \in Seq(Told),
           NEW r2 \in Seq(Told), Steps(td, r, td2, r2)
    PROVE  td # << >> /\ td2 \in Seq(Inner) /\ InnerStep(td, r, td2, r2)
<1>1. td # << >>
  BY DEF Steps
<1>2. Head(td) \in Inner /\ ~ Is(Head(td), "or_eof")
      /\ \A more \in Seq(Inner) : more \o Tail(td) \in Seq(Inner)
  BY <1>1, InnerFirst
<1>3. CASE \E c \in Told, more \in Seq(Plain) :
             Tells(Head(td), c, more) /\ r = << c >> \o r2 /\ td2 = more \o Tail(td)
  <2>1. PICK c \in Told, more \in Seq(Plain) :
          Tells(Head(td), c, more) /\ r = << c >> \o r2 /\ td2 = more \o Tail(td)
    BY <1>3
  <2>2. c \in Spoken
    BY <2>1 DEF Tells, Call, Spoken
  <2>3. more \in Seq(Inner)
    BY <1>2, <2>1, InnerMore
  <2>4. QED
    BY <1>1, <1>2, <2>1, <2>2, <2>3 DEF InnerStep
<1>4. CASE \E more \in Stack : Opens(Head(td), more) /\ r2 = r /\ td2 = more \o Tail(td)
  <2>1. PICK more \in Stack : Opens(Head(td), more) /\ r2 = r /\ td2 = more \o Tail(td)
    BY <1>4
  <2>2. more \in Seq(Inner)
    BY <1>2, <2>1, InnerMore
  <2>3. QED
    BY <1>1, <1>2, <2>1, <2>2 DEF InnerStep
<1>5. QED
  BY <1>2, <1>3, <1>4 DEF Steps

\* So the end of the stream is not among what it tells.
LEMMA InnerSpeaks ==
    ASSUME NEW td \in Stack, td \in Seq(Inner), NEW r \in Seq(Told), Parses(td, r)
    PROVE  r \in Seq(Spoken)
<1> DEFINE R == { p \in Stack \X Seq(Told) : p[1] \in Seq(Inner) => p[2] \in Seq(Spoken) }
<1>1. << << >>, << >> >> \in R
  <2>1. << >> \in Seq(Plain) /\ << >> \in Seq(Told) /\ << >> \in Seq(Spoken)
    OBVIOUS
  <2>2. QED
    BY <2>1, PlainIsStack
<1>2. ASSUME NEW te \in Stack, NEW te2 \in Stack, NEW s \in Seq(Told), NEW s2 \in Seq(Told),
             Steps(te, s, te2, s2), << te2, s2 >> \in R
      PROVE  << te, s >> \in R
  <2>1. SUFFICES ASSUME te \in Seq(Inner) PROVE s \in Seq(Spoken)
    OBVIOUS
  <2>2. te2 \in Seq(Inner)
    BY <1>2, <2>1, InnerSteps
  <2>3. s2 \in Seq(Spoken)
    BY <1>2, <2>2
  <2>4. CASE s2 = s
    BY <2>3, <2>4
  <2>5. CASE \E c \in Spoken, more \in Seq(Plain) :
               Tells(Head(te), c, more) /\ s = << c >> \o s2 /\ te2 = more \o Tail(te)
    <3>1. PICK c \in Spoken : s = << c >> \o s2
      BY <2>5
    <3>2. QED
      BY <2>3, <3>1, Cons
  <2>6. QED
    <3>1. InnerStep(te, s, te2, s2)
      BY <1>2, <2>1, InnerSteps
    <3>2. s \in Seq(Spoken)
      BY <2>4, <2>5, <3>1 DEF InnerStep
    <3>3. QED
      BY <2>1, <3>2
<1>3. R \in SUBSET (Stack \X Seq(Told))
  OBVIOUS
<1> HIDE DEF R
<1>4. ClosedParses(R)
  BY <1>1, <1>2 DEF ClosedParses
<1>5. << td, r >> \in R
  BY <1>3, <1>4 DEF Parses
<1>6. QED
  BY <1>5 DEF R

\* With something else to be read after it.
LEMMA OnRest ==
    ASSUME NEW td \in Stack, td # << >>, NEW rest \in Seq(Plain)
    PROVE  /\ td \o rest \in Stack /\ td \o rest # << >>
           /\ Head(td \o rest) = Head(td) /\ Tail(td \o rest) = Tail(td) \o rest
           /\ Tail(td) \in Seq(Plain) /\ Tail(td) \o rest \in Seq(Plain)
           /\ \A more \in Stack : (more \o Tail(td)) \o rest = more \o (Tail(td) \o rest)
<1>1. td \in Seq(Item) /\ Tail(td) \in Seq(Plain)
  BY DEF Stack
<1>2. rest \in Seq(Item) /\ Tail(td) \in Seq(Item)
  BY <1>1, SeqMonotonic DEF Plain
<1>3. td \o rest \in Stack
  BY Pushed
<1>4. td \o rest # << >> /\ Head(td \o rest) = Head(td) /\ Tail(td \o rest) = Tail(td) \o rest
  BY <1>1, <1>2
<1>5. Tail(td) \o rest \in Seq(Plain)
  BY <1>1, ConcatProperties
<1>6. ASSUME NEW more \in Stack
      PROVE  (more \o Tail(td)) \o rest = more \o (Tail(td) \o rest)
  <2>1. more \in Seq(Item)
    BY DEF Stack
  <2>2. Regroups(more, Tail(td), rest)
    BY <1>2, <2>1, Grouping
  <2>3. QED
    BY <2>2 DEF Regroups
<1>7. QED
  BY <1>1, <1>3, <1>4, <1>5, <1>6

\* One after the other.
LEMMA ParsesTogether ==
    ASSUME NEW td \in Stack, td \in Seq(Inner), NEW r \in Seq(Told), Parses(td, r),
           NEW rest \in Seq(Plain), NEW s \in Seq(Told), Parses(rest, s)
    PROVE  Parses(td \o rest, r \o s)
<1> DEFINE R == { p \in Stack \X Seq(Told) : p[1] \in Seq(Inner) => Parses(p[1] \o rest, p[2] \o s) }
<1>1. << << >>, << >> >> \in R
  <2>1. << >> \in Seq(Plain) /\ << >> \in Seq(Told) /\ << >> \o rest = rest /\ << >> \o s = s
    OBVIOUS
  <2>2. QED
    BY <2>1, PlainIsStack
<1>2. ASSUME NEW te \in Stack, NEW te2 \in Stack, NEW q \in Seq(Told), NEW q2 \in Seq(Told),
             Steps(te, q, te2, q2), << te2, q2 >> \in R
      PROVE  << te, q >> \in R
  <2>1. SUFFICES ASSUME te \in Seq(Inner) PROVE Parses(te \o rest, q \o s)
    OBVIOUS
  <2>2. te # << >> /\ te2 \in Seq(Inner) /\ InnerStep(te, q, te2, q2)
    BY <1>2, <2>1, InnerSteps
  <2>3. Parses(te2 \o rest, q2 \o s)
    BY <1>2, <2>2
  <2>4. /\ te \o rest \in Stack /\ te \o rest # << >>
        /\ Head(te \o rest) = Head(te) /\ Tail(te \o rest) = Tail(te) \o rest
        /\ \A more \in Stack : (more \o Tail(te)) \o rest = more \o (Tail(te) \o rest)
    BY <2>2, OnRest
  <2>5. te2 \o rest \in Stack /\ q \o s \in Seq(Told) /\ q2 \o s \in Seq(Told)
    BY Pushed, ConcatProperties
  <2>6. CASE \E c \in Spoken, more \in Seq(Plain) :
               Tells(Head(te), c, more) /\ q = << c >> \o q2 /\ te2 = more \o Tail(te)
    <3>1. PICK c \in Told, more \in Seq(Plain) :
            Tells(Head(te), c, more) /\ q = << c >> \o q2 /\ te2 = more \o Tail(te)
      BY <2>6 DEF Spoken
    <3>2. q \o s = << c >> \o (q2 \o s)
      <4>1. << c >> \in Seq(Told)
        OBVIOUS
      <4>2. Regroups(<< c >>, q2, s)
        BY <4>1, Grouping
      <4>3. QED
        BY <3>1, <4>2 DEF Regroups
    <3>3. te2 \o rest = more \o Tail(te \o rest)
      BY <2>4, <3>1, PlainIsStack
    <3>4. Steps(te \o rest, q \o s, te2 \o rest, q2 \o s)
      BY <2>4, <3>1, <3>2, <3>3 DEF Steps
    <3>5. QED
      BY <2>3, <2>4, <2>5, <3>4, ParsesFirst
  <2>7. CASE \E more \in Stack : Opens(Head(te), more) /\ q2 = q /\ te2 = more \o Tail(te)
    <3>1. PICK more \in Stack : Opens(Head(te), more) /\ q2 = q /\ te2 = more \o Tail(te)
      BY <2>7
    <3>2. te2 \o rest = more \o Tail(te \o rest)
      BY <2>4, <3>1
    <3>3. Steps(te \o rest, q \o s, te2 \o rest, q2 \o s)
      BY <2>4, <3>1, <3>2 DEF Steps
    <3>4. QED
      BY <2>3, <2>4, <2>5, <3>3, ParsesFirst
  <2>8. QED
    BY <2>2, <2>6, <2>7 DEF InnerStep
<1>3. R \in SUBSET (Stack \X Seq(Told))
  OBVIOUS
<1> HIDE DEF R
<1>4. ClosedParses(R)
  BY <1>1, <1>2 DEF ClosedParses
<1>5. << td, r >> \in R
  BY <1>3, <1>4 DEF Parses
<1>6. QED
  BY <1>5 DEF R

\* What is told decides what is read next.
LEMMA TellsOnce ==
    ASSUME NEW x \in Item, NEW c, NEW more, NEW more2, Tells(x, c, more), Tells(x, c, more2)
    PROVE  more = more2
<1>1. CASE Is(x, "option")
  <2>1. Call("none", << >>).call = "none" /\ Call("some", << >>).call = "some"
    BY DEF Call
  <2>2. \/ c = Call("none", << >>) /\ more = << >>
        \/ c = Call("some", << >>) /\ more = << One(Types[x.type].of) >>
    BY <1>1 DEF Tells, Is
  <2>3. \/ c = Call("none", << >>) /\ more2 = << >>
        \/ c = Call("some", << >>) /\ more2 = << One(Types[x.type].of) >>
    BY <1>1 DEF Tells, Is
  <2>4. QED
    BY <2>1, <2>2, <2>3
<1>2. CASE Is(x, "seq")
  <2>1. PICK n \in Number : more = << Many(Types[x.type].of, n) >> /\ c = Call("seq", << n >>)
    BY <1>2 DEF Tells, Is
  <2>2. PICK m \in Number : more2 = << Many(Types[x.type].of, m) >> /\ c = Call("seq", << m >>)
    BY <1>2 DEF Tells, Is
  <2>3. c.value[1] = n /\ c.value[1] = m
    BY <2>1, <2>2 DEF Call
  <2>4. QED
    BY <2>1, <2>2, <2>3
<1>3. CASE Is(x, "tagged")
  <2>1. PICK n \in Number : more = Each(Types[x.type].variants[n]) /\ c = Call("u64", << n >>)
    BY <1>3 DEF Tells, Is
  <2>2. PICK m \in Number : more2 = Each(Types[x.type].variants[m]) /\ c = Call("u64", << m >>)
    BY <1>3 DEF Tells, Is
  <2>3. c.value[1] = n /\ c.value[1] = m
    BY <2>1, <2>2 DEF Call
  <2>4. QED
    BY <2>1, <2>2, <2>3
<1>4. CASE ~ Is(x, "option") /\ ~ Is(x, "seq") /\ ~ Is(x, "tagged")
  BY <1>4 DEF Tells
<1>5. QED
  BY <1>1, <1>2, <1>3, <1>4

Ending(q) == Append(q, Call("eof", << >>))

LEMMA EndingIs ==
    ASSUME NEW q \in Seq(Told)
    PROVE  /\ Ending(q) \in Seq(Told) /\ Ending(q) # << >>
           /\ q = << >> => Head(Ending(q)).call = "eof"
           /\ q # << >> => Head(Ending(q)) = Head(q) /\ Tail(Ending(q)) = Ending(Tail(q))
           /\ \A s \in Seq(Told) : s \o Ending(q) = Ending(s \o q)
           /\ \A s \in Seq(Told) : Ending(q) = Ending(s) => q = s
<1>1. PICK e \in Told : e = Call("eof", << >>) /\ e.call = "eof"
  BY EofIsTold DEF Call
<1>2. Ending(q) = Append(q, e)
  BY <1>1 DEF Ending
<1>3. Append(q, e) \in Seq(Told) /\ Append(q, e) # << >>
  BY AppendProperties
<1>4. ASSUME q = << >> PROVE Head(Append(q, e)) = e
  BY <1>4
<1>5. ASSUME q # << >> PROVE Head(Append(q, e)) = Head(q) /\ Tail(Append(q, e)) = Append(Tail(q), e)
  <2>1. PICK h \in Told, t \in Seq(Told) : h = Head(q) /\ t = Tail(q) /\ q = << h >> \o t
    BY <1>5, Uncons
  <2>2. PICK te \in Seq(Told) : te = Append(t, e)
    BY AppendProperties
  <2>3. Append(q, e) = << h >> \o te
    <3>1. Append(<< h >> \o t, e) = << h >> \o Append(t, e)
      OBVIOUS
    <3>2. QED
      BY <2>1, <2>2, <3>1
  <2>4. Head(<< h >> \o te) = h /\ Tail(<< h >> \o te) = te
    BY Cons
  <2>5. QED
    BY <2>1, <2>2, <2>3, <2>4
<1>6. ASSUME NEW s \in Seq(Told) PROVE s \o Append(q, e) = Append(s \o q, e)
  OBVIOUS
<1>7. ASSUME NEW s \in Seq(Told), Append(q, e) = Append(s, e) PROVE q = s
  BY <1>7, AppendInjective
<1>8. QED
  BY <1>1, <1>2, <1>3, <1>4, <1>5, <1>6, <1>7 DEF Ending

\* So does a buffer, once it is told: its length is its own.
LEMMA OpensOnce ==
    ASSUME NEW x \in Item, NEW more \in Stack, NEW more2 \in Stack, Opens(x, more), Opens(x, more2),
           NEW te \in Seq(Plain), NEW te2 \in Seq(Plain), NEW r \in Seq(Told), NEW s \in Seq(Told),
           Parses(more \o te, r), Parses(more2 \o te2, s),
           r # << >> /\ s # << >> => Head(s) = Head(r) \/ Head(s).call = "eof"
    PROVE  more = more2
<1>1. ASSUME NEW y \in Stack, y # << >>, NEW below \in Seq(Plain), NEW q \in Seq(Told),
             Parses(y \o below, q)
      PROVE  /\ Head(y).is = "buf" =>
                  q # << >> /\ Head(q).call = "bytes" /\ Len(Head(q).value) = Head(y).len
             /\ Head(y).is = "frame" =>
                  q # << >> /\ Head(q).call = "frame" /\ Len(Head(q).value) = Head(y).len
  <2>1. y \o below \in Stack /\ y \o below # << >> /\ Head(y \o below) = Head(y)
    BY <1>1, OnRest
  <2>2. QED
    BY <1>1, <2>1, Expects
<1>2. CASE Is(x, "bytes")
  <2>1. PICK n \in Number : more = << Buf(n) >>
    BY <1>2 DEF Opens, Is
  <2>2. PICK m \in Number : more2 = << Buf(m) >>
    BY <1>2 DEF Opens, Is
  <2>3. more # << >> /\ Head(more) = Buf(n) /\ more2 # << >> /\ Head(more2) = Buf(m)
    BY <2>1, <2>2
  <2>4. r # << >> /\ Head(r).call = "bytes" /\ Len(Head(r).value) = n
    BY <1>1, <2>3 DEF Buf
  <2>5. s # << >> /\ Head(s).call = "bytes" /\ Len(Head(s).value) = m
    BY <1>1, <2>3 DEF Buf
  <2>6. n = m
    BY <2>4, <2>5
  <2>7. QED
    BY <2>1, <2>2, <2>6
<1>3. CASE Is(x, "framed")
  <2>1. PICK n \in Number : more = << FrameBuf(n), x >>
    BY <1>3 DEF Opens, Is
  <2>2. PICK m \in Number : more2 = << FrameBuf(m), x >>
    BY <1>3 DEF Opens, Is
  <2>3. more # << >> /\ Head(more) = FrameBuf(n) /\ more2 # << >> /\ Head(more2) = FrameBuf(m)
    BY <2>1, <2>2
  <2>4. r # << >> /\ Head(r).call = "frame" /\ Len(Head(r).value) = n
    BY <1>1, <2>3 DEF FrameBuf
  <2>5. s # << >> /\ Head(s).call = "frame" /\ Len(Head(s).value) = m
    BY <1>1, <2>3 DEF FrameBuf
  <2>6. n = m
    BY <2>4, <2>5
  <2>7. QED
    BY <2>1, <2>2, <2>6
<1>4. CASE ~ Is(x, "bytes") /\ ~ Is(x, "framed")
  BY <1>4 DEF Opens, Is
<1>5. QED
  BY <1>2, <1>3, <1>4

\* Framed data tells its end or that a buffer comes.
LEMMA TellsOrOpens ==
    ASSUME NEW x \in Item, NEW c, NEW more, NEW more2 \in Stack, Tells(x, c, more), Opens(x, more2),
           NEW te \in Seq(Plain), NEW s \in Seq(Told), Parses(more2 \o te, s)
    PROVE  c.call = "last_frame" /\ s # << >> /\ Head(s).call = "frame"
<1>1. Is(x, "framed")
  BY DEF Tells, Opens, Is
<1>2. c.call = "last_frame"
  BY <1>1 DEF Tells, Is, Call
<1>3. PICK n \in Number : more2 = << FrameBuf(n), x >>
  BY <1>1 DEF Opens, Is
<1>4. more2 # << >> /\ Head(more2) = FrameBuf(n) /\ FrameBuf(n).is = "frame"
  BY <1>3 DEF FrameBuf
<1>5. more2 \o te \in Stack /\ more2 \o te # << >> /\ Head(more2 \o te) = Head(more2)
  BY <1>4, OnRest
<1>6. s # << >> /\ Head(s).call = "frame"
  BY <1>4, <1>5, Expects
<1>7. QED
  BY <1>2, <1>6

\* Two readers that are told the same are at the same place.
Same(td2, rest, r, r2, q, y, z) ==
    \E q2 \in Seq(Told) :
        /\ Parses(td2 \o rest, Ending(q2)) /\ q2 \o z = r2 \o y
        /\ \/ r2 = r /\ q2 = q
           \/ \E c \in Told : r = << c >> \o r2 /\ q = << c >> \o q2

LEMMA SameStep ==
    ASSUME NEW td \in Stack, td \in Seq(Inner), NEW td2 \in Stack, NEW r \in Seq(Told),
           NEW r2 \in Seq(Told), Steps(td, r, td2, r2), Parses(td2, r2), NEW rest \in Seq(Plain),
           NEW q \in Seq(Told), NEW y \in Seq(Told), NEW z \in Seq(Told),
           Parses(td \o rest, Ending(q)), q \o z = r \o y
    PROVE  Same(td2, rest, r, r2, q, y, z)
<1>1. td # << >> /\ td2 \in Seq(Inner) /\ InnerStep(td, r, td2, r2)
  BY InnerSteps
<1> DEFINE x == Head(td)
           below == Tail(td)
<1>2. /\ td \o rest \in Stack /\ td \o rest # << >>
      /\ Head(td \o rest) = x /\ Tail(td \o rest) = below \o rest
      /\ below \in Seq(Plain) /\ below \o rest \in Seq(Plain)
      /\ \A more \in Stack : (more \o below) \o rest = more \o (below \o rest)
  BY <1>1, OnRest
<1>3. x \in Item /\ ~ Is(x, "or_eof")
  BY <1>1, InnerFirst DEF Inner
<1> HIDE DEF x, below
<1>4. Ending(q) \in Seq(Told) /\ Ending(q) # << >>
      /\ (q = << >> => Head(Ending(q)).call = "eof")
      /\ (q # << >> => Head(Ending(q)) = Head(q) /\ Tail(Ending(q)) = Ending(Tail(q)))
  BY EndingIs
<1>5. PICK te \in Stack, s \in Seq(Told) : Steps(td \o rest, Ending(q), te, s) /\ Parses(te, s)
  BY <1>2, <1>4, ParsesFrom
<1>6. \/ \E c \in Told, more \in Seq(Plain) :
           Tells(x, c, more) /\ Ending(q) = << c >> \o s /\ te = more \o (below \o rest)
      \/ \E more \in Stack :
           Opens(x, more) /\ s = Ending(q) /\ te = more \o (below \o rest)
  BY <1>2, <1>3, <1>5 DEF Steps
<1>7. \/ \E c \in Spoken, more \in Seq(Plain) :
           Tells(x, c, more) /\ r = << c >> \o r2 /\ td2 = more \o below
      \/ \E more \in Stack : Opens(x, more) /\ r2 = r /\ td2 = more \o below
  BY <1>1 DEF InnerStep, x, below
\* What is told first.
<1>8. r # << >> => Head(Ending(q)) = Head(r) \/ Head(Ending(q)).call = "eof"
  <2>1. CASE q = << >>
    BY <1>4, <2>1
  <2>2. CASE q # << >> /\ r # << >>
    <3>1. Head(q \o z) = Head(q) /\ Head(r \o y) = Head(r)
      BY <2>2
    <3>2. QED
      BY <1>4, <2>2, <3>1
  <2>3. QED
    BY <2>1, <2>2
<1>9. \A c, more : Tells(x, c, more) => c.call # "eof"
  BY DEF Tells, Call
<1>10. CASE \E c \in Spoken, more \in Seq(Plain) :
              Tells(x, c, more) /\ r = << c >> \o r2 /\ td2 = more \o below
  <2>1. PICK c \in Told, more \in Seq(Plain) :
          Tells(x, c, more) /\ r = << c >> \o r2 /\ td2 = more \o below
    BY <1>10 DEF Spoken
  <2>2. r # << >> /\ Head(r) = c
    BY <2>1, Cons
  <2>3. CASE \E d \in Told, more2 \in Seq(Plain) :
               Tells(x, d, more2) /\ Ending(q) = << d >> \o s /\ te = more2 \o (below \o rest)
    <3>1. PICK d \in Told, more2 \in Seq(Plain) :
            Tells(x, d, more2) /\ Ending(q) = << d >> \o s /\ te = more2 \o (below \o rest)
      BY <2>3
    <3>2. Head(Ending(q)) = d /\ Tail(Ending(q)) = s
      <4>1. Head(<< d >> \o s) = d /\ Tail(<< d >> \o s) = s
        BY Cons
      <4>2. QED
        BY <3>1, <4>1
    <3>3. d = c
      BY <1>8, <1>9, <2>2, <3>1, <3>2
    <3>4. more2 = more
      BY <1>3, <2>1, <3>1, <3>3, TellsOnce
    <3>5. q # << >>
      BY <1>4, <1>9, <3>1, <3>2
    <3>6. PICK q2 \in Seq(Told) : q2 = Tail(q) /\ q = << c >> \o q2 /\ s = Ending(q2)
      <4>1. Head(q) = c /\ Tail(q) \in Seq(Told) /\ q = << Head(q) >> \o Tail(q)
        BY <1>4, <3>2, <3>3, <3>5, Uncons
      <4>2. QED
        BY <1>4, <3>2, <3>5, <4>1
    <3>7. td2 \o rest = te
      BY <1>2, <2>1, <3>1, <3>4, PlainIsStack
    <3>8. q2 \o z = r2 \o y
      <4>1. << c >> \in Seq(Told)
        OBVIOUS
      <4>2. PICK a \in Seq(Told), b \in Seq(Told) : a = q2 \o z /\ b = r2 \o y
        BY ConcatProperties
      <4>3. Regroups(<< c >>, q2, z) /\ Regroups(<< c >>, r2, y)
        BY <4>1, Grouping
      <4>4. << c >> \o a = << c >> \o b
        BY <2>1, <3>6, <4>2, <4>3 DEF Regroups
      <4>5. a = b
        <5>1. Tail(<< c >> \o a) = a /\ Tail(<< c >> \o b) = b
          BY Cons
        <5>2. QED
          BY <4>4, <5>1
      <4>6. QED
        BY <4>2, <4>5
    <3>9. Parses(td2 \o rest, Ending(q2))
      BY <1>5, <3>6, <3>7
    <3>10. QED
      BY <2>1, <3>6, <3>8, <3>9 DEF Same
  <2>4. CASE \E more2 \in Stack :
               Opens(x, more2) /\ s = Ending(q) /\ te = more2 \o (below \o rest)
    <3>1. PICK more2 \in Stack :
            Opens(x, more2) /\ s = Ending(q) /\ te = more2 \o (below \o rest)
      BY <2>4
    <3>2. PICK rest2 \in Seq(Plain) : rest2 = below \o rest
      BY <1>2
    <3>3. Parses(more2 \o rest2, s)
      BY <1>5, <3>1, <3>2
    <3>4. c.call = "last_frame" /\ Head(s).call = "frame"
      BY <1>3, <2>1, <3>1, <3>3, TellsOrOpens
    <3>5. QED
      BY <1>8, <2>2, <3>1, <3>4
  <2>5. QED
    BY <1>6, <2>3, <2>4
<1>11. CASE \E more \in Stack : Opens(x, more) /\ r2 = r /\ td2 = more \o below
  <2>1. PICK more \in Stack : Opens(x, more) /\ r2 = r /\ td2 = more \o below
    BY <1>11
  <2>2. CASE \E d \in Told, more2 \in Seq(Plain) :
               Tells(x, d, more2) /\ Ending(q) = << d >> \o s /\ te = more2 \o (below \o rest)
    <3>1. PICK d \in Told, more2 \in Seq(Plain) :
            Tells(x, d, more2) /\ Ending(q) = << d >> \o s
      BY <2>2
    <3>2. Head(Ending(q)) = d
      BY <3>1, Cons
    <3>3. d.call = "last_frame" /\ r # << >> /\ Head(r).call = "frame"
      BY <1>2, <1>3, <2>1, <3>1, TellsOrOpens
    <3>4. QED
      BY <1>8, <3>2, <3>3
  <2>3. CASE \E more2 \in Stack :
               Opens(x, more2) /\ s = Ending(q) /\ te = more2 \o (below \o rest)
    <3>1. PICK more2 \in Stack :
            Opens(x, more2) /\ s = Ending(q) /\ te = more2 \o (below \o rest)
      BY <2>3
    <3>2. PICK rest2 \in Seq(Plain) : rest2 = below \o rest
      BY <1>2
    <3>3. Parses(more \o below, r) /\ Parses(more2 \o rest2, s)
      BY <1>5, <2>1, <3>1, <3>2
    <3>4. r # << >> /\ s # << >> => Head(s) = Head(r) \/ Head(s).call = "eof"
      BY <1>8, <3>1
    <3>5. more2 = more
      BY <1>2, <1>3, <2>1, <3>1, <3>3, <3>4, OpensOnce
    <3>6. td2 \o rest = te
      BY <1>2, <2>1, <3>1, <3>5
    <3>7. Parses(td2 \o rest, Ending(q))
      BY <1>5, <3>1, <3>6
    <3>8. QED
      BY <2>1, <3>7 DEF Same
  <2>4. QED
    BY <1>6, <2>2, <2>3
<1>12. QED
  BY <1>7, <1>10, <1>11

\* What is read as one thing is so if more of the same kind comes after it.
Comes(rest, r, q) ==
    \E q2 \in Seq(Told) : q = r \o q2 /\ Parses(rest, Ending(q2))

LEMMA MessageComes ==
    ASSUME NEW td \in Stack, td \in Seq(Inner), NEW r \in Seq(Told), Parses(td, r),
           NEW rest \in Seq(Plain), NEW q \in Seq(Told), NEW y \in Seq(Told), NEW z \in Seq(Told),
           Parses(td \o rest, Ending(q)), q \o z = r \o y
    PROVE  Comes(rest, r, q)
<1> DEFINE All(te, s) ==
             \A p \in Seq(Told), v \in Seq(Told), w \in Seq(Told) :
                 Parses(te \o rest, Ending(p)) /\ p \o w = s \o v => Comes(rest, s, p)
           R == { p \in Stack \X Seq(Told) :
                    Parses(p[1], p[2]) /\ (p[1] \in Seq(Inner) => All(p[1], p[2])) }
<1>1. << << >>, << >> >> \in R
  <2>1. << >> \in Seq(Plain) /\ << >> \in Seq(Told) /\ << >> \o rest = rest
    OBVIOUS
  <2>2. ASSUME NEW p \in Seq(Told), Parses(rest, Ending(p)) PROVE Comes(rest, << >>, p)
    <3>1. p = << >> \o p
      OBVIOUS
    <3>2. QED
      BY <2>2, <3>1 DEF Comes
  <2>3. All(<< >>, << >>)
    BY <2>1, <2>2
  <2> HIDE DEF All
  <2>4. QED
    BY <2>1, <2>3, PlainIsStack, ParsesNothing
<1>2. ASSUME NEW te \in Stack, NEW te2 \in Stack, NEW s \in Seq(Told), NEW s2 \in Seq(Told),
             Steps(te, s, te2, s2), << te2, s2 >> \in R
      PROVE  << te, s >> \in R
  <2>1. Parses(te2, s2) /\ (te2 \in Seq(Inner) => All(te2, s2))
    BY <1>2
  <2>2. Parses(te, s)
    BY <1>2, <2>1, ParsesFirst
  <2>3. ASSUME te \in Seq(Inner) PROVE All(te, s)
    <3>1. te2 \in Seq(Inner)
      BY <1>2, <2>3, InnerSteps
    <3>2. All(te2, s2)
      BY <2>1, <3>1
    <3>3. SUFFICES ASSUME NEW p \in Seq(Told), NEW v \in Seq(Told), NEW w \in Seq(Told),
                          Parses(te \o rest, Ending(p)), p \o w = s \o v
                   PROVE  Comes(rest, s, p)
      OBVIOUS
    <3>4. PICK p2 \in Seq(Told) :
            /\ Parses(te2 \o rest, Ending(p2)) /\ p2 \o w = s2 \o v
            /\ \/ s2 = s /\ p2 = p
               \/ \E c \in Told : s = << c >> \o s2 /\ p = << c >> \o p2
      <4>1. Same(te2, rest, s, s2, p, v, w)
        BY <1>2, <2>1, <2>3, <3>3, SameStep
      <4>2. QED
        BY <4>1 DEF Same
    <3>5. Comes(rest, s2, p2)
      BY <3>2, <3>4
    <3>6. PICK q2 \in Seq(Told) : p2 = s2 \o q2 /\ Parses(rest, Ending(q2))
      BY <3>5 DEF Comes
    <3>7. CASE s2 = s /\ p2 = p
      BY <3>5, <3>7
    <3>8. CASE \E c \in Told : s = << c >> \o s2 /\ p = << c >> \o p2
      <4>1. PICK c \in Told : s = << c >> \o s2 /\ p = << c >> \o p2
        BY <3>8
      <4>2. << c >> \in Seq(Told)
        OBVIOUS
      <4>3. Regroups(<< c >>, s2, q2)
        BY <4>2, Grouping
      <4>4. p = s \o q2
        BY <3>6, <4>1, <4>3 DEF Regroups
      <4>5. QED
        BY <3>6, <4>4 DEF Comes
    <3>9. QED
      BY <3>4, <3>7, <3>8
  <2> HIDE DEF All
  <2>4. QED
    BY <2>2, <2>3
<1>3. R \in SUBSET (Stack \X Seq(Told))
  OBVIOUS
<1> HIDE DEF R
<1>4. ClosedParses(R)
  BY <1>1, <1>2 DEF ClosedParses
<1>5. << td, r >> \in R
  BY <1>3, <1>4 DEF Parses
<1>6. All(td, r)
  BY <1>5 DEF R
<1>7. QED
  BY <1>6

-----------------------------------------------------------------------------
\* A log of messages.

\* The first messages of it, and their length, are what the equations say.
LEMMA UptoIs ==
    ASSUME NEW A, NEW l \in Seq(Seq(A))
    PROVE  /\ Upto(l)[0] = << >>
           /\ \A i \in 1 .. Len(l) : Upto(l)[i] = Upto(l)[i - 1] \o l[i]
           /\ \A i \in 0 .. Len(l) : Upto(l)[i] \in Seq(A)
<1> DEFINE V == Seq(A)
           n == Len(l)
           Then(i, v) == v \o l[i]
<1>1. n \in Nat /\ << >> \in V
  OBVIOUS
<1>2. \A i \in 1 .. n, v \in V : Then(i, v) \in V
  <2>1. ASSUME NEW i \in 1 .. n, NEW v \in V PROVE Then(i, v) \in V
    <3>1. l[i] \in Seq(A)
      OBVIOUS
    <3>2. QED
      BY <3>1, ConcatProperties
  <2>2. QED
    BY <2>1
<1> DEFINE F == [ i \in 1 .. n |-> [ v \in V |-> Then(i, v) ] ]
<1>3. F \in [ 1 .. n -> [ V -> V ] ]
  BY <1>2
<1>4. \A i \in 1 .. n, v \in V : F[i][v] = Then(i, v)
  OBVIOUS
<1> DEFINE Eq(f) == f = [ i \in 0 .. n |-> IF i = 0 THEN << >> ELSE Then(i, f[i - 1]) ]
           f0 == Upto(l)
<1>5. f0 = CHOOSE f : Eq(f)
  BY DEF Upto
<1> HIDE DEF F, V, n, Then, f0
<1>6. PICK g \in [ 0 .. n -> V ] : g[0] = << >> /\ \A i \in 1 .. n : g[i] = F[i][g[i - 1]]
  <2>1. Recursive(n, V, << >>, F)
    BY <1>1, <1>3, Recursion
  <2>2. QED
    BY <2>1 DEF Recursive
<1>7. \A i \in 1 .. n : g[i] = Then(i, g[i - 1])
  <2>1. ASSUME NEW i \in 1 .. n PROVE g[i] = Then(i, g[i - 1])
    <3>1. g[i - 1] \in V
      BY <1>1
    <3>2. QED
      BY <1>4, <1>6, <3>1, Zenon
  <2>2. QED
    BY <2>1
<1>8. Eq(g)
  <2>1. \A i \in 0 .. n : g[i] = IF i = 0 THEN << >> ELSE Then(i, g[i - 1])
    <3>1. ASSUME NEW i \in 0 .. n PROVE g[i] = IF i = 0 THEN << >> ELSE Then(i, g[i - 1])
      <4>1. i = 0 \/ i \in 1 .. n
        BY <1>1
      <4>2. QED
        BY <1>6, <1>7, <4>1
    <3>2. QED
      BY <3>1
  <2>2. QED
    BY <1>6, <2>1
<1>9. Eq(f0)
  BY <1>5, <1>8
<1>10. f0[0] = << >> /\ \A i \in 1 .. n : f0[i] = Then(i, f0[i - 1])
  <2>1. \A i \in 0 .. n : f0[i] = IF i = 0 THEN << >> ELSE Then(i, f0[i - 1])
    BY <1>9, Zenon
  <2>2. 0 \in 0 .. n /\ \A i \in 1 .. n : i \in 0 .. n /\ i # 0
    BY <1>1
  <2>3. QED
    BY <2>1, <2>2, Zenon
<1> DEFINE S == { i \in 0 .. n : f0[i] \in V }
<1>11. \A i \in 0 .. n : i \in S
  <2>1. 0 \in S
    BY <1>1, <1>10
  <2>2. ASSUME NEW i \in 0 .. n - 1, i \in S PROVE i + 1 \in S
    <3>1. f0[i] \in V /\ i + 1 \in 1 .. n /\ i + 1 \in 0 .. n /\ (i + 1) - 1 = i
      BY <1>1, <2>2
    <3>2. f0[i + 1] = Then(i + 1, f0[i])
      BY <1>10, <3>1, Zenon
    <3>3. QED
      BY <1>2, <3>1, <3>2
  <2> HIDE DEF S
  <2>3. QED
    BY <1>1, <2>1, <2>2, UpTo, Zenon
<1>12. \A i \in 0 .. n : f0[i] \in V
  BY <1>11
<1>13. QED
  BY <1>10, <1>12 DEF f0, V, n, Then

Length(cs) == Takes(cs)[Len(cs)]

LEMMA TakesIs ==
    ASSUME NEW cs \in Seq(Told)
    PROVE  \E u \in Seq(Byte) : Wrote(cs, u) /\ Len(u) = Length(cs)
<1> DEFINE n == Len(cs)
           Then(i, v) == v + Len(Written(cs[i]))
<1>1. n \in Nat
  OBVIOUS
<1>2. \A i \in 1 .. n : cs[i] \in Told /\ Written(cs[i]) \in Seq(Byte) /\ Len(Written(cs[i])) \in Nat
  <2>1. ASSUME NEW i \in 1 .. n
        PROVE  cs[i] \in Told /\ Written(cs[i]) \in Seq(Byte) /\ Len(Written(cs[i])) \in Nat
    <3>1. cs[i] \in Told
      OBVIOUS
    <3>2. Written(cs[i]) \in Seq(Byte)
      BY <3>1, WrittenIsBytes DEF Told
    <3>3. QED
      BY <3>1, <3>2
  <2>2. QED
    BY <2>1
<1> DEFINE F == [ i \in 1 .. n |-> [ v \in Nat |-> Then(i, v) ] ]
<1>3. F \in [ 1 .. n -> [ Nat -> Nat ] ]
  BY <1>2
<1>4. \A i \in 1 .. n, v \in Nat : F[i][v] = Then(i, v)
  OBVIOUS
<1> DEFINE Eq(f) == f = [ i \in 0 .. n |-> IF i = 0 THEN 0 ELSE Then(i, f[i - 1]) ]
           f0 == Takes(cs)
<1>5. f0 = CHOOSE f : Eq(f)
  BY DEF Takes
<1> HIDE DEF F, n, Then, f0
<1>6. PICK g \in [ 0 .. n -> Nat ] : g[0] = 0 /\ \A i \in 1 .. n : g[i] = F[i][g[i - 1]]
  <2>1. Recursive(n, Nat, 0, F)
    BY <1>1, <1>3, Recursion
  <2>2. QED
    BY <2>1 DEF Recursive
<1>7. \A i \in 1 .. n : g[i] = Then(i, g[i - 1])
  <2>1. ASSUME NEW i \in 1 .. n PROVE g[i] = Then(i, g[i - 1])
    <3>1. g[i - 1] \in Nat
      BY <1>1
    <3>2. QED
      BY <1>4, <1>6, <3>1, Zenon
  <2>2. QED
    BY <2>1
<1>8. Eq(g)
  <2>1. \A i \in 0 .. n : g[i] = IF i = 0 THEN 0 ELSE Then(i, g[i - 1])
    <3>1. ASSUME NEW i \in 0 .. n PROVE g[i] = IF i = 0 THEN 0 ELSE Then(i, g[i - 1])
      <4>1. i = 0 \/ i \in 1 .. n
        BY <1>1
      <4>2. QED
        BY <1>6, <1>7, <4>1
    <3>2. QED
      BY <3>1
  <2>2. QED
    BY <1>6, <2>1
<1>9. Eq(f0)
  BY <1>5, <1>8
<1>10. f0[0] = 0 /\ \A i \in 1 .. n : f0[i] = Then(i, f0[i - 1])
  <2>1. \A i \in 0 .. n : f0[i] = IF i = 0 THEN 0 ELSE Then(i, f0[i - 1])
    BY <1>9, Zenon
  <2>2. 0 \in 0 .. n /\ \A i \in 1 .. n : i \in 0 .. n /\ i # 0
    BY <1>1
  <2>3. QED
    BY <2>1, <2>2, Zenon
<1> DEFINE Takes1(i) == \E u \in Seq(Byte) : Wrote(SubSeq(cs, 1, i), u) /\ Len(u) = f0[i]
           S == { i \in 0 .. n : Takes1(i) }
<1>11. \A i \in 0 .. n : i \in S
  <2>1. 0 \in S
    <3>1. SubSeq(cs, 1, 0) = << >> /\ << >> \in Seq(Byte) /\ Len(<< >>) = 0
      OBVIOUS
    <3>2. Wrote(SubSeq(cs, 1, 0), << >>)
      BY <3>1, WroteNothing
    <3>3. Takes1(0)
      BY <1>10, <3>1, <3>2
    <3>4. QED
      BY <1>1, <3>3
  <2>2. ASSUME NEW i \in 0 .. n - 1, i \in S PROVE i + 1 \in S
    <3>1. i + 1 \in 1 .. n /\ i + 1 \in 0 .. n /\ (i + 1) - 1 = i /\ i \in 0 .. n
      BY <1>1
    <3>2. PICK u \in Seq(Byte) : Wrote(SubSeq(cs, 1, i), u) /\ Len(u) = f0[i]
      BY <2>2
    <3>3. PICK p \in Seq(Told), c \in Told, w \in Seq(Byte) :
            p = SubSeq(cs, 1, i) /\ c = cs[i + 1] /\ w = Written(c)
      <4>1. SubSeq(cs, 1, i) \in Seq(Told)
        BY <3>1, Cut DEF n
      <4>2. QED
        BY <1>2, <3>1, <4>1
    <3>4. SubSeq(cs, 1, i + 1) = Append(p, c)
      BY <3>1, <3>3 DEF n
    <3>5. Wrote(Append(p, c), u \o w)
      BY <3>2, <3>3, WroteLast
    <3>6. Len(u \o w) = Len(u) + Len(w) /\ u \o w \in Seq(Byte)
      BY ConcatProperties
    <3>7. f0[i + 1] = f0[i] + Len(w)
      BY <1>10, <3>1, <3>3, Zenon DEF Then
    <3>8. Takes1(i + 1)
      BY <3>2, <3>4, <3>5, <3>6, <3>7
    <3>9. QED
      BY <3>1, <3>8
  <2> HIDE DEF S
  <2>3. QED
    BY <1>1, <2>1, <2>2, UpTo, Zenon
<1>12. Takes1(n)
  BY <1>1, <1>11
<1>13. SubSeq(cs, 1, n) = cs
  BY SubSeqFull DEF n
<1>14. QED
  BY <1>12, <1>13 DEF f0, n, Length

LEMMA Elements ==
    ASSUME NEW A, NEW B, NEW s \in Seq(A), \A i \in 1 .. Len(s) : s[i] \in B
    PROVE  s \in Seq(B)
  OBVIOUS

\* A message is a value of its type, which is read without the end in view.
LEMMA MessageIs ==
    ASSUME NEW l \in Logs
    PROVE  /\ l \in Seq(Seq(Spoken)) /\ l \in Seq(Seq(Told))
           /\ << One("msg") >> \in Stack /\ << One("msg") >> \in Seq(Inner)
           /\ << One("msg") >> \in Seq(Plain) /\ Is(One("msg"), "tagged")
           /\ \A i \in 1 .. Len(l) : Parses(<< One("msg") >>, l[i])
<1>1. /\ "msg_or_eof" \in DOMAIN Types
      /\ Types["msg_or_eof"].shape = "or_eof" /\ Types["msg_or_eof"].of = "msg"
  BY EndsAssumption DEF MsgOrEof
<1>2. "msg" \in DOMAIN Types /\ Types["msg"].shape = "tagged"
  BY <1>1, InputAssumption DEF TypesAssumption
<1>3. One("msg") \in Plain /\ One("msg") \in Inner /\ Is(One("msg"), "tagged")
  BY <1>2 DEF One, Plain, Inner, Item, Is
<1>4. << One("msg") >> \in Seq(Plain) /\ << One("msg") >> \in Seq(Inner)
  BY <1>3
<1>5. << One("msg") >> \in Stack
  BY <1>4, PlainIsStack
<1>6. << "msg" >> \in Seq(DOMAIN Types) /\ Each(<< "msg" >>) = << One("msg") >>
  BY <1>2 DEF Each
<1>7. MaxSteps \in Nat /\ l \in Seq(Seq(AnyCall))
      /\ \A i \in 1 .. Len(l) : Conforms(MaxSteps, l[i], << "msg" >>)
  BY LogAssumption
<1>8. ASSUME NEW i \in 1 .. Len(l)
      PROVE  l[i] \in Seq(Spoken) /\ l[i] \in Seq(Told) /\ Parses(<< One("msg") >>, l[i])
  <2>1. PICK cs \in Seq(AnyCall) : cs = l[i]
    BY <1>7
  <2>2. Speaks(<< One("msg") >>, cs)
    BY <1>6, <1>7, <2>1, ConformsSpeaks
  <2>3. cs \in Seq(Spoken)
    BY <2>2 DEF Speaks
  <2>4. cs \in Seq(Told)
    <3>1. Spoken \subseteq Told
      BY DEF Spoken
    <3>2. QED
      BY <2>3, <3>1, SeqMonotonic
  <2>5. PICK m \in Seq(Told) : Parses(<< One("msg") >>, m) /\ (m = cs \/ m = Ending(cs))
    BY <2>2 DEF Speaks, Ending
  <2>6. m \in Seq(Spoken)
    BY <1>4, <1>5, <2>5, InnerSpeaks
  <2>7. m # Ending(cs)
    <3>1. PICK e \in Told : e = Call("eof", << >>) /\ e.call = "eof"
      BY EofIsTold DEF Call
    <3>2. PICK n \in Nat : n = Len(cs)
      BY <2>4
    <3>3. Len(Append(cs, e)) = n + 1 /\ Append(cs, e)[n + 1] = e
      BY <2>4, <3>2
    <3>4. e \notin Spoken
      BY <3>1 DEF Spoken
    <3>5. ASSUME m = Append(cs, e) PROVE FALSE
      <4>1. Len(m) = n + 1 /\ m[n + 1] = e
        BY <3>3, <3>5
      <4>2. m[n + 1] \in Spoken
        BY <2>6, <4>1
      <4>3. QED
        BY <3>4, <4>1, <4>2
    <3>6. QED
      BY <3>1, <3>5 DEF Ending
  <2>8. QED
    BY <2>1, <2>3, <2>4, <2>5, <2>7
<1>9. l \in Seq(Seq(Spoken)) /\ l \in Seq(Seq(Told))
  <2>1. l \in Seq(Seq(Spoken))
    BY <1>7, <1>8, Elements
  <2>2. l \in Seq(Seq(Told))
    BY <1>7, <1>8, Elements
  <2>3. QED
    BY <2>1, <2>2
<1>10. QED
  BY <1>3, <1>4, <1>5, <1>8, <1>9

\* So many messages, or the end of the stream before one.
Ors(n) == [ i \in 1 .. n |-> One("msg_or_eof") ]

LEMMA OrsAre ==
    ASSUME NEW n \in Nat
    PROVE  /\ Ors(n) \in Seq(Plain) /\ Ors(n) \in Stack
           /\ n # 0 => /\ Ors(n) # << >> /\ Head(Ors(n)) = One("msg_or_eof")
                       /\ Tail(Ors(n)) = Ors(n - 1)
<1>1. "msg_or_eof" \in DOMAIN Types
  BY EndsAssumption
<1>2. PICK x \in Plain : x = One("msg_or_eof")
  BY <1>1 DEF One, Plain, Item
<1>3. Ors(n) = [ i \in 1 .. n |-> x ]
  BY <1>2 DEF Ors
<1>4. [ i \in 1 .. n |-> x ] \in Seq(Plain) /\ Len([ i \in 1 .. n |-> x ]) = n
  OBVIOUS
<1>5. Ors(n) \in Stack
  BY <1>3, <1>4, PlainIsStack
<1>6. ASSUME n # 0
      PROVE  Ors(n) # << >> /\ Head(Ors(n)) = x /\ Tail(Ors(n)) = Ors(n - 1)
  <2>1. Ors(n) # << >> /\ Head(Ors(n)) = x
    BY <1>3, <1>4, <1>6
  <2>2. Tail(Ors(n)) = [ i \in 1 .. n - 1 |-> x ]
    BY <1>3, <1>4, <1>6
  <2>3. QED
    BY <1>2, <2>1, <2>2 DEF Ors
<1>7. QED
  BY <1>2, <1>3, <1>4, <1>5, <1>6

\* Before a message there is one, or the end.
LEMMA OrEof ==
    ASSUME NEW l \in Logs, NEW n \in Nat, n # 0, NEW r \in Seq(Told)
    PROVE  /\ Parses(Ors(n), << Call("eof", << >>) >>)
           /\ Parses(<< One("msg") >> \o Ors(n - 1), r) => Parses(Ors(n), r)
           /\ Parses(Ors(n), r) =>
                \/ r = << Call("eof", << >>) >>
                \/ Parses(<< One("msg") >> \o Ors(n - 1), r)
<1>1. /\ Ors(n) \in Stack /\ Ors(n) # << >> /\ Head(Ors(n)) = One("msg_or_eof")
      /\ Tail(Ors(n)) = Ors(n - 1) /\ Ors(n - 1) \in Seq(Plain)
  <2>1. n - 1 \in Nat
    OBVIOUS
  <2>2. QED
    BY <2>1, OrsAre
<1>2. /\ Is(One("msg_or_eof"), "or_eof") /\ Types["msg_or_eof"].of = "msg"
      /\ One("msg_or_eof").type = "msg_or_eof"
  BY EndsAssumption DEF MsgOrEof, Is, One
<1>3. << One("msg") >> \in Stack /\ << One("msg") >> \in Seq(Plain)
  BY MessageIs
<1>4. << One("msg") >> \o Ors(n - 1) \in Stack
  BY <1>1, <1>3, Pushed
<1>5. Call("eof", << >>) \in Told /\ << Call("eof", << >>) >> \in Seq(Told)
      /\ << >> \in Seq(Told) /\ << >> \in Seq(Plain) /\ << >> \in Stack
  <2>1. << >> \in Seq(Plain) /\ << >> \in Seq(Told)
    OBVIOUS
  <2>2. PICK e \in Told : e = Call("eof", << >>)
    BY EofIsTold
  <2>3. << e >> \in Seq(Told)
    OBVIOUS
  <2>4. QED
    BY <2>1, <2>2, <2>3, PlainIsStack
<1>6. Parses(Ors(n), << Call("eof", << >>) >>)
  <2>1. Steps(Ors(n), << Call("eof", << >>) >>, << >>, << >>)
    BY <1>1, <1>2 DEF Steps
  <2>2. QED
    BY <1>1, <1>5, <2>1, ParsesNothing, ParsesFirst
<1>7. Opens(One("msg_or_eof"), << One("msg") >>)
  BY <1>2 DEF Opens
<1>8. ASSUME Parses(<< One("msg") >> \o Ors(n - 1), r) PROVE Parses(Ors(n), r)
  <2>1. Steps(Ors(n), r, << One("msg") >> \o Ors(n - 1), r)
    BY <1>1, <1>3, <1>7 DEF Steps
  <2>2. QED
    BY <1>1, <1>4, <1>8, <2>1, ParsesFirst
<1>9. ASSUME Parses(Ors(n), r)
      PROVE  \/ r = << Call("eof", << >>) >>
             \/ Parses(<< One("msg") >> \o Ors(n - 1), r)
  <2>1. PICK td2 \in Stack, r2 \in Seq(Told) : Steps(Ors(n), r, td2, r2) /\ Parses(td2, r2)
    BY <1>1, <1>9, ParsesFrom
  <2>2. \A c, more : ~ Tells(One("msg_or_eof"), c, more)
    BY <1>2 DEF Tells, Is
  <2>3. \A more : Opens(One("msg_or_eof"), more) => more = << One("msg") >>
    BY <1>2 DEF Opens, Is
  <2>4. r = << Call("eof", << >>) >> \/ (r2 = r /\ td2 = << One("msg") >> \o Ors(n - 1))
    BY <1>1, <2>1, <2>2, <2>3 DEF Steps
  <2>5. QED
    BY <2>1, <2>4
<1>10. QED
  BY <1>6, <1>8, <1>9

\* A log can be read from any message of it to any other, and then the end.
FromTo(l, asks, j, n) ==
    \E s \in Seq(Told) : Upto(l)[n] = Upto(l)[j] \o s /\ Parses(Ors(asks - j), Ending(s))

LEMMA LogParses ==
    ASSUME NEW l \in Logs, NEW asks \in Nat, asks > Len(l), NEW n \in 0 .. Len(l), NEW j \in 0 .. n
    PROVE  FromTo(l, asks, j, n)
<1>1. l \in Seq(Seq(Told)) /\ Len(l) \in Nat /\ n \in Nat
  BY MessageIs
<1>2. /\ \A i \in 1 .. Len(l) : Upto(l)[i] = Upto(l)[i - 1] \o l[i]
      /\ \A i \in 0 .. Len(l) : Upto(l)[i] \in Seq(Told)
  BY <1>1, UptoIs
<1> DEFINE S == { k \in 0 .. n : FromTo(l, asks, n - k, n) }
<1>3. 0 \in S
  <2>1. PICK m \in Nat : m = asks - n /\ m # 0
    BY <1>1
  <2>2. << >> \in Seq(Told) /\ Ending(<< >>) = << Call("eof", << >>) >>
    BY DEF Ending
  <2>3. Parses(Ors(m), << Call("eof", << >>) >>)
    BY <2>1, <2>2, OrEof
  <2>4. Upto(l)[n] = Upto(l)[n] \o << >>
    BY <1>2
  <2>5. FromTo(l, asks, n, n)
    BY <2>1, <2>2, <2>3, <2>4 DEF FromTo
  <2>6. n - 0 = n /\ 0 \in 0 .. n
    BY <1>1
  <2>7. QED
    BY <2>5, <2>6
<1>4. ASSUME NEW k \in 0 .. n - 1, k \in S PROVE k + 1 \in S
  <2>1. PICK i \in 1 .. Len(l) : i = n - k /\ i - 1 = n - (k + 1) /\ i \in Nat /\ i - 1 \in 0 .. Len(l)
    BY <1>1
  <2>2. PICK s \in Seq(Told) : Upto(l)[n] = Upto(l)[i] \o s /\ Parses(Ors(asks - i), Ending(s))
    BY <1>4, <2>1 DEF FromTo
  <2>3. PICK m \in Nat : m = asks - (i - 1) /\ m # 0 /\ m - 1 = asks - i
    BY <1>1, <2>1
  <2>4. PICK p \in Seq(Told), d \in Seq(Told) : p = Upto(l)[i - 1] /\ d = l[i]
    BY <1>1, <1>2, <2>1
  <2>5. << One("msg") >> \in Stack /\ << One("msg") >> \in Seq(Inner)
        /\ Parses(<< One("msg") >>, d) /\ Ors(m - 1) \in Seq(Plain)
    <3>1. m - 1 \in Nat
      BY <2>3
    <3>2. Ors(m - 1) \in Seq(Plain)
      BY <3>1, OrsAre
    <3>3. QED
      BY <2>1, <2>4, <3>2, MessageIs
  <2>6. Ending(s) \in Seq(Told) /\ d \o Ending(s) = Ending(d \o s) /\ d \o s \in Seq(Told)
        /\ Ending(d \o s) \in Seq(Told)
    BY EndingIs, ConcatProperties
  <2>7. Parses(<< One("msg") >> \o Ors(m - 1), d \o Ending(s))
    BY <2>2, <2>3, <2>5, <2>6, ParsesTogether
  <2>8. Parses(Ors(m), Ending(d \o s))
    BY <2>3, <2>6, <2>7, OrEof
  <2>9. Upto(l)[n] = p \o (d \o s)
    <3>1. Upto(l)[i] = p \o d
      BY <1>2, <2>4
    <3>2. Regroups(p, d, s)
      BY Grouping
    <3>3. QED
      BY <2>2, <3>1, <3>2 DEF Regroups
  <2>10. FromTo(l, asks, i - 1, n)
    BY <2>3, <2>4, <2>6, <2>8, <2>9 DEF FromTo
  <2>11. k + 1 \in 0 .. n
    BY <1>1
  <2>12. QED
    BY <2>1, <2>10, <2>11
<1> HIDE DEF S
<1>5. \A k \in 0 .. n : k \in S
  BY <1>1, <1>3, <1>4, UpTo, Zenon
<1>6. n - j \in 0 .. n /\ n - (n - j) = j
  BY <1>1
<1>7. QED
  BY <1>5, <1>6 DEF S

\* Where the end of the stream can be reported, when what came is the beginning
\* of a log: between messages.
Bounded(l, asks, j) ==
    \A q \in Seq(Told), r \in Seq(Told) :
        Parses(Ors(asks - j), Ending(q)) /\ (Upto(l)[j] \o q) \o r = Ending(Upto(l)[Len(l)]) =>
            \E n \in 0 .. Len(l) : Upto(l)[j] \o q = Upto(l)[n]

EndsBehind(p, q, r, y) == (p \o q) \o r = Ending(p \o y)
EndsWith(q, r, y) == q \o r = Ending(y)

LEMMA Peels ==
    ASSUME NEW p \in Seq(Told), NEW y \in Seq(Told), NEW q \in Seq(Told), NEW r \in Seq(Told),
           EndsBehind(p, q, r, y)
    PROVE  EndsWith(q, r, y)
<1>1. Ending(y) \in Seq(Told) /\ p \o Ending(y) = Ending(p \o y)
  BY EndingIs
<1>2. PICK a \in Seq(Told) : a = q \o r
  BY ConcatProperties
<1>3. Regroups(p, q, r)
  BY Grouping
<1>4. p \o a = p \o Ending(y)
  BY <1>1, <1>2, <1>3 DEF Regroups, EndsBehind
<1>5. QED
  BY <1>1, <1>2, <1>4, ConcatSimplifications DEF EndsWith

LEMMA Boundaries ==
    ASSUME NEW l \in Logs, NEW asks \in Nat, asks > Len(l)
    PROVE  Bounded(l, asks, 0)
<1>1. l \in Seq(Seq(Told)) /\ Len(l) \in Nat
  BY MessageIs
<1>0. PICK N \in Nat : N = Len(l) /\ N < asks
  BY <1>1
<1>2. /\ \A i \in 1 .. N : Upto(l)[i] = Upto(l)[i - 1] \o l[i] /\ l[i] \in Seq(Told)
      /\ \A i \in 0 .. N : Upto(l)[i] \in Seq(Told)
  <2>1. /\ \A i \in 1 .. Len(l) : Upto(l)[i] = Upto(l)[i - 1] \o l[i]
        /\ \A i \in 0 .. Len(l) : Upto(l)[i] \in Seq(Told)
    BY <1>1, UptoIs
  <2>2. \A i \in 1 .. Len(l) : l[i] \in Seq(Told)
    BY <1>1
  <2>3. QED
    BY <1>0, <2>1, <2>2, Zenon
<1>3. PICK e \in Told : e = Call("eof", << >>) /\ e.call = "eof"
  BY EofIsTold DEF Call
<1>4. << >> \in Seq(Told) /\ << e >> \in Seq(Told) /\ Ending(<< >>) = << e >>
  BY <1>3 DEF Ending
<1>5. \A i \in 0 .. N : asks - i \in Nat /\ asks - i # 0 /\ (asks - i) - 1 \in Nat
  BY <1>0
<1>11. \A i \in 1 .. N : i - 1 \in 0 .. N /\ (asks - (i - 1)) - 1 = asks - i
  BY <1>0
<1> DEFINE S == { k \in 0 .. N : Bounded(l, asks, N - k) }
<1>6. 0 \in S
  <2>1. SUFFICES Bounded(l, asks, N)
    <3>1. N - 0 = N /\ 0 \in 0 .. N
      BY <1>1
    <3>2. QED
      BY <3>1
  <2>2. SUFFICES ASSUME NEW q \in Seq(Told), NEW r \in Seq(Told), Parses(Ors(asks - N), Ending(q)),
                        (Upto(l)[N] \o q) \o r = Ending(Upto(l)[N])
                 PROVE  \E n \in 0 .. N : Upto(l)[N] \o q = Upto(l)[n]
    BY <1>0 DEF Bounded
  <2>3. PICK p \in Seq(Told) : p = Upto(l)[N]
    BY <1>2
  <2>4. q \o r = << e >>
    <3>1. p = p \o << >>
      OBVIOUS
    <3>2. EndsBehind(p, q, r, << >>)
      BY <2>2, <2>3, <3>1 DEF EndsBehind
    <3>3. EndsWith(q, r, << >>)
      BY <1>4, <3>2, Peels
    <3>4. QED
      BY <1>4, <3>3 DEF EndsWith
  <2>5. PICK m \in Nat : m = asks - N /\ m # 0 /\ m - 1 \in Nat
    <3>1. N \in 0 .. N
      OBVIOUS
    <3>2. QED
      BY <1>5, <3>1
  <2>6. Ending(q) \in Seq(Told) /\ Ending(q) # << >>
        /\ (q # << >> => Head(Ending(q)) = Head(q))
        /\ (q = << >> => Head(Ending(q)).call = "eof")
    BY EndingIs
  <2>7. ~ Parses(<< One("msg") >> \o Ors(m - 1), Ending(q))
    <3>1. SUFFICES ASSUME Parses(<< One("msg") >> \o Ors(m - 1), Ending(q)) PROVE FALSE
      OBVIOUS
    <3>2. << One("msg") >> \in Stack /\ Is(One("msg"), "tagged")
      BY MessageIs
    <3>3. Ors(m - 1) \in Seq(Plain)
      BY <2>5, OrsAre
    <3>4. PICK td \in Stack : td = << One("msg") >> \o Ors(m - 1) /\ td # << >>
                              /\ Head(td) = One("msg")
      <4>1. PICK a \in Stack : a = << One("msg") >> /\ a # << >> /\ Head(a) = One("msg")
        BY <3>2
      <4>2. a \o Ors(m - 1) \in Stack /\ a \o Ors(m - 1) # << >> /\ Head(a \o Ors(m - 1)) = Head(a)
        BY <3>3, <4>1, OnRest
      <4>3. QED
        BY <4>1, <4>2
    <3>5. Head(Ending(q)).call = "u64"
      BY <2>6, <3>1, <3>2, <3>4, Expects
    <3>6. q # << >> /\ Head(q).call = "u64"
      BY <2>6, <3>5
    <3>7. Head(q \o r) = Head(q) /\ Head(<< e >>) = e
      BY <3>6
    <3>8. QED
      BY <1>3, <2>4, <3>6, <3>7
  <2>8. Ending(q) = << e >>
    BY <1>3, <2>2, <2>5, <2>6, <2>7, OrEof
  <2>9. q = << >>
    BY <1>4, <2>8, EndingIs
  <2>10. p \o << >> = p /\ N \in 0 .. N
    BY <1>1
  <2>11. QED
    BY <2>3, <2>9, <2>10
<1>7. ASSUME NEW k \in 0 .. N - 1, k \in S PROVE k + 1 \in S
  <2>1. PICK i \in 1 .. N : /\ i = N - k /\ i - 1 = N - (k + 1)
                            /\ i \in 0 .. N /\ i - 1 \in 0 .. N /\ i \in Nat
    BY <1>1
  <2>2. Bounded(l, asks, i)
    BY <1>7, <2>1
  <2>3. SUFFICES Bounded(l, asks, i - 1)
    <3>1. k + 1 \in 0 .. N
      BY <1>1
    <3>2. QED
      BY <2>1, <3>1
  <2>4. SUFFICES ASSUME NEW q \in Seq(Told), NEW r \in Seq(Told),
                        Parses(Ors(asks - (i - 1)), Ending(q)),
                        (Upto(l)[i - 1] \o q) \o r = Ending(Upto(l)[N])
                 PROVE  \E n \in 0 .. N : Upto(l)[i - 1] \o q = Upto(l)[n]
    BY <1>0 DEF Bounded
  <2>5. PICK p \in Seq(Told), d \in Seq(Told) : p = Upto(l)[i - 1] /\ d = l[i]
    BY <1>1, <1>2, <2>1
  <2>6. Upto(l)[i] = p \o d /\ p \o d \in Seq(Told)
    BY <1>2, <2>1, <2>5, ConcatProperties
  <2>7. PICK m \in Nat : m = asks - (i - 1) /\ m # 0 /\ m - 1 = asks - i /\ m - 1 \in Nat
    <3>1. i - 1 \in 0 .. N /\ (asks - (i - 1)) - 1 = asks - i
      BY <1>11
    <3>2. QED
      BY <1>5, <3>1
  <2>8. Ending(q) \in Seq(Told)
    BY EndingIs
  <2>9. CASE Ending(q) = << e >>
    <3>1. q = << >>
      BY <1>4, <2>9, EndingIs
    <3>2. p \o << >> = p
      OBVIOUS
    <3>3. QED
      BY <2>1, <2>5, <3>1, <3>2
  <2>10. CASE Parses(<< One("msg") >> \o Ors(m - 1), Ending(q))
    <3>1. /\ << One("msg") >> \in Stack /\ << One("msg") >> \in Seq(Inner)
          /\ Parses(<< One("msg") >>, d)
      BY <1>0, <2>1, <2>5, MessageIs
    <3>2. PICK y \in Seq(Told) : Upto(l)[N] = (p \o d) \o y
      <4>1. FromTo(l, asks, i, N)
        <5>1. N \in 0 .. N
          OBVIOUS
        <5>2. QED
          BY <1>0, <2>1, <5>1, LogParses
      <4>2. QED
        BY <2>6, <4>1 DEF FromTo
    <3>3. PICK z \in Seq(Told) : z = d \o y
      BY ConcatProperties
    <3>4. Upto(l)[N] = p \o z
      <4>1. Regroups(p, d, y)
        BY Grouping
      <4>2. QED
        BY <3>2, <3>3, <4>1 DEF Regroups
    <3>5. q \o r = Ending(z)
      <4>1. EndsBehind(p, q, r, z)
        BY <2>4, <2>5, <3>4 DEF EndsBehind
      <4>2. EndsWith(q, r, z)
        BY <4>1, Peels
      <4>3. QED
        BY <4>2 DEF EndsWith
    <3>6. q \o r = d \o Ending(y) /\ Ending(y) \in Seq(Told)
      BY <3>3, <3>5, EndingIs
    <3>7. Ors(m - 1) \in Seq(Plain)
      BY <2>7, OrsAre
    <3>8. Comes(Ors(m - 1), d, q)
      BY <2>10, <3>1, <3>6, <3>7, MessageComes
    <3>9. PICK q2 \in Seq(Told) : q = d \o q2 /\ Parses(Ors(m - 1), Ending(q2))
      BY <3>8 DEF Comes
    <3>10. p \o q = (p \o d) \o q2
      <4>1. Regroups(p, d, q2)
        BY Grouping
      <4>2. QED
        BY <3>9, <4>1 DEF Regroups
    <3>11. (Upto(l)[i] \o q2) \o r = Ending(Upto(l)[N])
      BY <2>4, <2>5, <2>6, <3>10
    <3>12. \E n \in 0 .. N : Upto(l)[i] \o q2 = Upto(l)[n]
      BY <1>0, <2>2, <2>7, <3>9, <3>11 DEF Bounded
    <3>13. QED
      BY <2>5, <2>6, <3>10, <3>12
  <2>11. QED
    BY <1>3, <2>4, <2>7, <2>8, <2>9, <2>10, OrEof
<1> HIDE DEF S
<1>8. \A k \in 0 .. N : k \in S
  BY <1>6, <1>7, UpTo, Zenon
<1>9. N \in 0 .. N /\ N - N = 0
  BY <1>1
<1>10. QED
  BY <1>8, <1>9 DEF S

-----------------------------------------------------------------------------
\* What is read of a log.

\* It is a value if the end of the stream is reported after it.
MayEnd == meant \in Seq(Told) /\ Parses(Each(asked), Ending(meant))

HasCome ==
    turn = 1 /\ pc # "write" /\ meant \in Seq(Told) =>
        \E tail \in Seq(Byte) : Wrote(meant, came \o tail)

\* If what came is a whole value it is read.
WholeIsRead ==
    turn = 1 =>
        \A m \in Seq(Told) : Parses(Each(asked), m) /\ Wrote(m, came) =>
            (pc = "read" => Goes(m, << >>)) /\ pc \notin { "failed", "panic" }

BeginsTheLog(s) ==
    \E q \in Seq(Told), r \in Seq(Told) : Ending(meant) = q \o r /\ s = Ending(q)

WhileItIsFollowed ==
    turn = 1 /\ pc = "read" /\ MayEnd =>
        \/ \E tail \in Seq(Byte) : Goes(Ending(meant), tail)
        \/ todo = << >> /\ BeginsTheLog(got)

Followed ==
    turn = 2 =>
        /\ first \in Seq(Told)
        /\ \E v \in Seq(Byte) : Wrote(first, v) /\ Len(v) = Len(came)
        /\ MayEnd => Parses(Each(asked), first) /\ BeginsTheLog(first)

KInv == JInv /\ HasCome /\ WholeIsRead /\ WhileItIsFollowed /\ Followed

\* A value is begun.
LEMMA GoesFirst ==
    ASSUME NEW td \in Stack, Pending(td) = << >>, NEW m \in Seq(Told), Parses(td, m),
           NEW w \in Seq(Byte), NEW tail \in Seq(Byte), Wrote(m, w \o tail)
    PROVE  m = << >> \o m /\ Wrote(m, Pending(td) \o (w \o tail))
<1>1. PICK b \in Seq(Byte) : b = w \o tail
  BY ConcatProperties
<1>2. << >> \o b = b /\ m = << >> \o m
  OBVIOUS
<1>3. QED
  BY <1>1, <1>2

LEMMA WroteEnding ==
    ASSUME NEW q \in Seq(Told), NEW b \in Seq(Byte), Wrote(q, b)
    PROVE  Wrote(Ending(q), b)
<1>1. PICK e \in Told : e = Call("eof", << >>) /\ Written(e) = << >>
  BY EofIsTold, LenWritten DEF Call
<1>2. Wrote(Append(q, e), b \o Written(e))
  BY WroteLast
<1>3. b \o << >> = b
  OBVIOUS
<1>4. QED
  BY <1>1, <1>2, <1>3 DEF Ending

LEMMA KInvInit ==
    Init => KInv
<1> SUFFICES ASSUME Init PROVE KInv
  OBVIOUS
<1>1. JInv /\ turn = 1 /\ got = << >>
  BY JInvInit DEF Init
<1>2. CASE pc = "write"
  BY <1>1, <1>2 DEF KInv, HasCome, WholeIsRead, WhileItIsFollowed, Followed
<1>3. CASE pc = "read" /\ meant = Unknown /\ todo = Each(asked) /\ wire = came
  <2>1. meant \notin Seq(Told)
    <3>1. SUFFICES ASSUME meant \in Seq(Told) PROVE FALSE
      OBVIOUS
    <3>2. meant[1] \in Told /\ meant[1].call = "unknown"
      BY <1>3, <3>1 DEF Unknown, Call
    <3>3. "unknown" \notin CallName
      BY DEF CallName, Silent, WontWrite
    <3>4. QED
      BY <3>2, <3>3 DEF Told, AnyCall
  <2>2. asked \in Seq(DOMAIN Types) /\ wire \in Seq(Byte)
    BY <1>1 DEF JInv, IInv, Typed
  <2>3. Each(asked) \in Stack /\ Pending(Each(asked)) = << >>
    BY <2>2, EachIsStack
  <2>4. ASSUME NEW m \in Seq(Told), Parses(Each(asked), m), Wrote(m, came)
        PROVE  Goes(m, << >>)
    <3>1. << >> \in Seq(Byte) /\ wire \o << >> = wire
      BY <2>2
    <3>2. m = << >> \o m /\ Wrote(m, Pending(Each(asked)) \o (wire \o << >>))
      BY <1>3, <2>2, <2>3, <2>4, <3>1, GoesFirst
    <3>3. QED
      BY <1>1, <1>3, <2>4, <3>2 DEF Goes
  <2>5. WholeIsRead
    BY <1>3, <2>4 DEF WholeIsRead
  <2>6. QED
    BY <1>1, <2>1, <2>5 DEF KInv, HasCome, WhileItIsFollowed, Followed, MayEnd
<1>4. QED
  BY <1>2, <1>3 DEF Init

LEMMA LogStays ==
    ASSUME UNCHANGED << meant, asked >>
    PROVE  (MayEnd' <=> MayEnd) /\ \A s : BeginsTheLog(s)' <=> BeginsTheLog(s')
  BY DEF MayEnd, BeginsTheLog

\* What the reader is to follow, when a turn begins.
LEMMA StartsToFollow ==
    ASSUME Typed', todo' = Each(asked), got' = << >>, asked' = asked,
           NEW m \in Seq(Told), NEW t \in Seq(Byte), Parses(Each(asked), m), Wrote(m, wire' \o t)
    PROVE  Goes(m, t)'
<1>1. asked \in Seq(DOMAIN Types) /\ wire' \in Seq(Byte)
  BY DEF Typed
<1>2. Each(asked) \in Stack /\ Pending(Each(asked)) = << >> /\ Pending(todo)' = Pending(Each(asked))
  BY <1>1, EachIsStack DEF Pending
<1>3. m = << >> \o m /\ Wrote(m, Pending(Each(asked)) \o (wire' \o t))
  BY <1>1, <1>2, GoesFirst
<1>4. m = got' \o m /\ Parses(todo', m) /\ Wrote(m, Pending(todo)' \o (wire' \o t))
  BY <1>2, <1>3
<1>5. QED
  BY <1>4 DEF Goes

LEMMA StartsWhole ==
    ASSUME Typed', todo' = Each(asked), got' = << >>, asked' = asked, came' = wire', pc' = "read"
    PROVE  WholeIsRead'
<1>1. wire' \in Seq(Byte)
  BY DEF Typed
<1>2. ASSUME NEW m \in Seq(Told), Parses(Each(asked), m), Wrote(m, came')
      PROVE  Goes(m, << >>)'
  <2>1. << >> \in Seq(Byte) /\ wire' \o << >> = wire'
    BY <1>1
  <2>2. Wrote(m, wire' \o << >>)
    BY <1>2, <2>1
  <2>3. QED
    BY <1>2, <2>1, <2>2, StartsToFollow
<1>3. \A m \in Seq(Told) : Parses(Each(asked), m) /\ Wrote(m, came') => Goes(m, << >>)'
  BY <1>2
<1>4. QED
  BY <1>3 DEF WholeIsRead

\* The value comes.
LEMMA LogComes ==
    ASSUME KInv, JInv', Arrive, turn = 1
    PROVE  KInv'
<1>1. /\ pc' = "read" /\ todo' = Each(asked) /\ got' = << >> /\ turn' = 1
      /\ UNCHANGED << meant, asked, first >> /\ came' = wire'
      /\ meant \in Seq(Told)
  BY ComesAs DEF KInv
<1>2. PICK tail \in Seq(Byte) : Wrote(meant, wire' \o tail)
  BY ComesAs DEF KInv
<1>3. Typed' /\ wire' \in Seq(Byte)
  BY DEF JInv, IInv, Typed
<1>4. HasCome'
  BY <1>1, <1>2 DEF HasCome
<1>5. WholeIsRead'
  BY <1>1, <1>3, StartsWhole
<1>6. WhileItIsFollowed'
  <2>1. SUFFICES ASSUME MayEnd PROVE \E t \in Seq(Byte) : Goes(Ending(meant), t)'
    BY <1>1, LogStays DEF WhileItIsFollowed
  <2>2. PICK m \in Seq(Told) : m = Ending(meant)
    BY <1>1, EndingIs
  <2>3. Wrote(m, wire' \o tail)
    <3>1. PICK b \in Seq(Byte) : b = wire' \o tail
      BY <1>3, ConcatProperties
    <3>2. Wrote(Ending(meant), b)
      BY <1>1, <1>2, <3>1, WroteEnding
    <3>3. QED
      BY <2>2, <3>1, <3>2
  <2>4. Parses(Each(asked), m)
    BY <2>1, <2>2 DEF MayEnd
  <2>5. Goes(m, tail)'
    BY <1>1, <1>3, <2>3, <2>4, StartsToFollow
  <2>6. Goes(Ending(meant), tail)'
    BY <1>1, <2>2, <2>5 DEF Goes
  <2>7. QED
    BY <2>6
<1>7. QED
  BY <1>1, <1>4, <1>5, <1>6 DEF KInv, Followed

\* A step of the reader.
LEMMA LogReadingKeeps ==
    ASSUME KInv, JInv', Deserialize, turn = 1
    PROVE  KInv'
<1>1. Typed /\ Typed' /\ pc = "read" /\ todo # << >>
  BY ByKind DEF KInv, JInv, IInv
<1>2. UNCHANGED << turn, meant, asked, came >> /\ pc' # "write"
  BY <1>1, Reading DEF Unmoved, Stopping
<1>3. HasCome'
  BY <1>1, <1>2 DEF KInv, HasCome
<1>4. ASSUME NEW m \in Seq(Told), Parses(Each(asked), m), Wrote(m, came)
      PROVE  Goes(m, << >>)' /\ pc' = "read"
  <2>1. Goes(m, << >>) /\ << >> \in Seq(Byte)
    BY <1>1, <1>4 DEF KInv, WholeIsRead
  <2>2. Unmoved /\ Goes(m, << >>)'
    BY <1>1, <2>1, GoesOn
  <2>3. QED
    BY <1>1, <2>2 DEF Unmoved
<1>5. WholeIsRead'
  <2>1. \A m \in Seq(Told) : Parses(Each(asked), m) /\ Wrote(m, came) =>
          Goes(m, << >>)' /\ pc' = "read"
    BY <1>4
  <2>2. QED
    BY <1>2, <2>1 DEF WholeIsRead
<1>6. WhileItIsFollowed'
  <2>1. SUFFICES ASSUME MayEnd, pc' = "read"
                 PROVE  \/ \E tail \in Seq(Byte) : Goes(Ending(meant), tail)'
                        \/ todo' = << >> /\ BeginsTheLog(got')
    BY <1>2, LogStays DEF WhileItIsFollowed, BeginsTheLog
  <2>2. PICK tail \in Seq(Byte) : Goes(Ending(meant), tail)
    BY <1>1, <2>1 DEF KInv, WhileItIsFollowed
  <2>3. PICK m \in Seq(Told) : m = Ending(meant)
    BY <2>1, EndingIs DEF MayEnd
  <2>4. CASE Goes(m, tail)'
    <3>1. Goes(Ending(meant), tail)'
      BY <1>2, <2>3, <2>4 DEF Goes
    <3>2. QED
      BY <3>1
  <2>5. CASE UnexpectedEof
    BY <2>1, <2>5 DEF UnexpectedEof, Stop
  <2>6. CASE AtEnd
    <3>1. todo' = << >> /\ got' = Ending(got)
      BY <2>6 DEF AtEnd, Ending
    <3>2. PICK r \in Seq(Told) : Ending(meant) = got \o r
      BY <2>2 DEF Goes
    <3>3. QED
      BY <1>1, <3>1, <3>2 DEF BeginsTheLog, Typed
  <2>7. QED
    BY <1>1, <2>2, <2>3, <2>4, <2>5, <2>6, GoesOn
<1>7. QED
  BY <1>2, <1>3, <1>5, <1>6 DEF KInv, Followed

\* The first turn ends.
LEMMA LogReturns ==
    ASSUME KInv, JInv', Forward
    PROVE  KInv'
<1>1. /\ pc = "read" /\ todo = << >> /\ turn = 1
      /\ pc' = "write" /\ turn' = 2 /\ first' = got
      /\ UNCHANGED << meant, asked >>
  BY DEF Forward
<1>2. first' \in Seq(Told) /\ Parses(Each(asked), first') /\ wire' \in Seq(Byte)
  BY <1>1 DEF JInv, IInv, WhileItIsWritten, Typed
<1>3. PICK u \in Seq(Byte) : Wrote(first', wire' \o u) /\ Len(came') = Len(wire') + Len(u)
  BY <1>1 DEF JInv, IInv, WhileItIsWritten
<1>4. PICK v \in Seq(Byte) : Wrote(first', v) /\ Len(v) = Len(came')
  <2>1. PICK v \in Seq(Byte) : v = wire' \o u /\ Len(v) = Len(wire') + Len(u)
    BY <1>2, ConcatProperties
  <2>2. QED
    BY <1>3, <2>1
<1>5. ASSUME MayEnd PROVE BeginsTheLog(got)
  <2>1. CASE \E tail \in Seq(Byte) : Goes(Ending(meant), tail)
    <3>1. PICK r \in Seq(Told) : Ending(meant) = got \o r /\ Parses(todo, r)
      BY <2>1 DEF Goes
    <3>2. r = << >>
      BY <1>1, <3>1, NothingLeft
    <3>3. got \in Seq(Told)
      BY DEF KInv, JInv, IInv, Typed
    <3>4. got = Ending(meant)
      BY <3>1, <3>2, <3>3
    <3>5. PICK e \in Told : e = Call("eof", << >>)
      BY EofIsTold
    <3>6. << e >> \in Seq(Told) /\ Ending(meant) = meant \o << e >> /\ meant \in Seq(Told)
      BY <1>5, <3>5 DEF Ending, MayEnd
    <3>7. QED
      BY <3>4, <3>6 DEF BeginsTheLog
  <2>2. QED
    BY <1>1, <1>5, <2>1 DEF KInv, WhileItIsFollowed
<1>6. Followed'
  <2>1. MayEnd' => BeginsTheLog(first)'
    BY <1>1, <1>5, LogStays DEF BeginsTheLog
  <2>2. QED
    BY <1>1, <1>2, <1>4, <2>1 DEF Followed
<1>7. QED
  BY <1>1, <1>6 DEF KInv, HasCome, WholeIsRead, WhileItIsFollowed

\* The second turn has as much to read as the first one has read.
LEMMA SecondTurnComes ==
    ASSUME JInv, [Next]_vars, turn = 2
    PROVE  Len(came') = Len(came)
<1>1. Typed
  BY DEF JInv, IInv
<1>2. CASE WriteCall
  BY <1>2 DEF WriteCall
<1>3. CASE WriteFails
  <2>1. pc = "write" /\ calls # << >> /\ Head(calls).call \in WontWrite
    BY <1>3 DEF WriteFails
  <2>2. calls \in Seq(Told)
    BY <2>1 DEF JInv, IInv, WhileItIsWritten
  <2>3. Head(calls) \in Told
    BY <2>1, <2>2, Uncons
  <2>4. QED
    BY <2>1, <2>3 DEF Told
<1>4. CASE Arrive
  <2>1. pc = "write" /\ calls = << >> /\ came' = SubSeq(wire, 1, Len(wire))
    BY <1>4 DEF Arrive, StartReading
  <2>2. calls \in Seq(Told) /\ wire \in Seq(Byte)
    BY <1>1, <2>1 DEF JInv, IInv, WhileItIsWritten, Typed
  <2>3. PICK u \in Seq(Byte) : Wrote(calls, u) /\ Len(came) = Len(wire) + Len(u)
    BY <2>1 DEF JInv, IInv, WhileItIsWritten
  <2>4. u = << >>
    BY <2>1, <2>2, <2>3, WroteFrom
  <2>5. Len(came) = Len(wire)
    BY <2>2, <2>3, <2>4
  <2>6. QED
    BY <2>1, <2>2, <2>5, SubSeqFull
<1>5. CASE Deserialize
  BY <1>1, <1>5, ByKind, Reading DEF Unmoved, Stopping
<1>6. CASE Forward \/ Finish
  BY <1>6 DEF Forward, Finish, Stop
<1>7. CASE Rest \/ UNCHANGED vars
  BY <1>7 DEF Rest, vars
<1>8. QED
  BY <1>2, <1>3, <1>4, <1>5, <1>6, <1>7 DEF Next

LEMMA KInvNext ==
    KInv /\ [Next]_vars => KInv'
<1> SUFFICES ASSUME KInv, [Next]_vars PROVE KInv'
  OBVIOUS
<1>1. JInv /\ JInv' /\ Typed'
  BY JInvNext DEF KInv, JInv, IInv
<1>2. turn = 1 \/ turn = 2
  BY <1>1 DEF JInv, IInv, Typed
<1>3. CASE turn = 2
  <2>1. UNCHANGED << turn, meant, asked, first >> /\ Len(came') = Len(came)
    BY <1>1, <1>3, SecondTurnStays, SecondTurnComes
  <2>2. Followed'
    <3>1. (MayEnd' <=> MayEnd) /\ (BeginsTheLog(first)' <=> BeginsTheLog(first))
      BY <2>1, LogStays DEF BeginsTheLog
    <3>2. QED
      BY <1>3, <2>1, <3>1 DEF KInv, Followed
  <2>3. QED
    BY <1>1, <1>3, <2>1, <2>2 DEF KInv, HasCome, WholeIsRead, WhileItIsFollowed
<1>4. CASE turn = 1
  <2>1. CASE WriteCall
    <3>1. pc = "write" /\ pc' = "write" /\ turn' = 1
      BY <1>4, <2>1 DEF WriteCall
    <3>2. QED
      BY <1>1, <3>1 DEF KInv, HasCome, WholeIsRead, WhileItIsFollowed, Followed
  <2>2. CASE WriteFails
    <3>1. /\ todo' = Each(asked) /\ got' = << >> /\ came' = wire' /\ pc' = "read"
          /\ turn' = 1 /\ UNCHANGED << meant, asked >>
      BY <1>4, <2>2 DEF WriteFails, StartReading
    <3>2. meant \notin Seq(Told)
      BY <1>1, <1>4, <2>2, NeverGivesUp
    <3>3. WholeIsRead'
      BY <1>1, <3>1, StartsWhole
    <3>4. QED
      BY <1>1, <3>1, <3>2, <3>3 DEF KInv, HasCome, WhileItIsFollowed, Followed, MayEnd
  <2>3. CASE Arrive
    BY <1>1, <1>4, <2>3, LogComes
  <2>4. CASE Deserialize
    BY <1>1, <1>4, <2>4, LogReadingKeeps
  <2>5. CASE Forward
    BY <1>1, <2>5, LogReturns
  <2>6. CASE Finish
    BY <1>4, <2>6 DEF Finish
  <2>7. CASE Rest \/ UNCHANGED vars
    <3>1. UNCHANGED vars
      BY <2>7 DEF Rest
    <3>2. UNCHANGED << pc, turn, meant, asked, calls, complete, wire, came, todo, got, first >>
      BY <3>1 DEF vars
    <3>3. Pending(todo)' = Pending(todo) /\ (MayEnd' <=> MayEnd)
      BY <3>2, LogStays DEF Pending
    <3>4. HasCome' /\ WholeIsRead'
      BY <3>2, <3>3 DEF KInv, HasCome, WholeIsRead, Goes
    <3>5. WhileItIsFollowed' /\ Followed'
      BY <3>2, <3>3 DEF KInv, WhileItIsFollowed, Followed, Goes, BeginsTheLog
    <3>6. QED
      BY <1>1, <3>4, <3>5 DEF KInv
  <2>8. QED
    BY <2>1, <2>2, <2>3, <2>4, <2>5, <2>6, <2>7 DEF Next
<1>5. QED
  BY <1>2, <1>3, <1>4

\* A log, and the types that it is read as.
LEMMA LogIs ==
    ASSUME Typed, NEW l \in Logs, IsLog(l)
    PROVE  /\ Len(l) \in Nat /\ Len(asked) \in Nat /\ Len(asked) > Len(l)
           /\ Each(asked) = Ors(Len(asked))
           /\ \A n \in 0 .. Len(l) : Upto(l)[n] \in Seq(Spoken) /\ Upto(l)[n] \in Seq(Told)
           /\ Upto(l)[0] = << >> /\ meant = Upto(l)[Len(l)]
<1>1. asked \in Seq(DOMAIN Types) /\ l \in Seq(Seq(Spoken)) /\ l \in Seq(Seq(Told))
  BY MessageIs DEF Typed
<1>2. Each(asked) = Ors(Len(asked))
  BY <1>1 DEF IsLog, Each, Ors
<1>3. Len(l) \in Nat /\ Len(asked) \in Nat /\ Len(asked) > Len(l) /\ meant = Upto(l)[Len(l)]
  BY <1>1 DEF IsLog
<1>4. Upto(l)[0] = << >> /\ \A n \in 0 .. Len(l) : Upto(l)[n] \in Seq(Spoken)
  BY <1>1, UptoIs
<1>5. \A n \in 0 .. Len(l) : Upto(l)[n] \in Seq(Told)
  BY <1>1, UptoIs
<1>6. QED
  BY <1>2, <1>3, <1>4, <1>5

\* It is one after each of its messages, if the end of the stream is reported.
LEMMA LogMayEnd ==
    ASSUME Typed, NEW l \in Logs, IsLog(l), NEW n \in 0 .. Len(l)
    PROVE  Parses(Each(asked), Ending(Upto(l)[n]))
<1>1. 0 \in 0 .. n /\ Upto(l)[n] \in Seq(Told)
  BY LogIs
<1>2. PICK s \in Seq(Told) : Upto(l)[n] = Upto(l)[0] \o s /\ Parses(Ors(Len(asked) - 0), Ending(s))
  BY <1>1, LogIs, LogParses DEF FromTo
<1>3. Upto(l)[n] = s /\ Len(asked) - 0 = Len(asked)
  BY <1>2, LogIs
<1>4. QED
  BY <1>2, <1>3, LogIs

\* If as many bytes have come as some messages of it take, these have come.
LEMMA MessagesCome ==
    ASSUME Typed, NEW l \in Logs, IsLog(l), NEW n \in 0 .. Len(l),
           NEW tail \in Seq(Byte), Wrote(meant, came \o tail), Length(Upto(l)[n]) = Len(came)
    PROVE  Wrote(Upto(l)[n], came)
<1>1. /\ Upto(l)[n] \in Seq(Told) /\ Len(l) \in 0 .. Len(l) /\ came \in Seq(Byte)
      /\ n \in 0 .. Len(l) /\ meant = Upto(l)[Len(l)] /\ meant \in Seq(Told)
  BY LogIs DEF Typed
<1>2. PICK u \in Seq(Byte) : Wrote(Upto(l)[n], u) /\ Len(u) = Len(came)
  BY <1>1, TakesIs
<1>3. PICK s \in Seq(Told) : meant = Upto(l)[n] \o s
  BY <1>1, LogIs, LogParses DEF FromTo
<1>4. PICK v \in Seq(Byte) : Wrote(s, v)
  BY TakesIs
<1>5. PICK w \in Seq(Byte) : w = u \o v
  BY ConcatProperties
<1>6. PICK x \in Seq(Byte) : x = came \o tail
  BY <1>1, ConcatProperties
<1>7. Wrote(meant, w)
  BY <1>1, <1>2, <1>3, <1>4, <1>5, WroteTogether
<1>8. w = x
  BY <1>1, <1>6, <1>7, WroteIsUnique
<1>9. Begins(came, tail, u, v)
  <2>1. came \o tail = u \o v
    BY <1>5, <1>6, <1>8
  <2>2. Len(u) <= Len(came)
    BY <1>1, <1>2
  <2>3. QED
    BY <1>1, <2>1, <2>2, Split
<1>10. PICK b \in Seq(Byte) : came = u \o b
  BY <1>9 DEF Begins
<1>11. Len(b) = 0
  BY <1>2, <1>10
<1>12. came = u
  BY <1>10, <1>11
<1>13. QED
  BY <1>2, <1>12

\* What is read of a daemon that says more and more: all that it has said, if it
\* closed the stream between two messages, and never a part of one.
THEOREM EndsBetweenMessages ==
    Spec => []ClosedBetweenMessages
<1>1. ASSUME KInv, NEW l \in Logs, IsLog(l), NEW n \in 0 .. Len(l), Length(Upto(l)[n]) = Len(came)
      PROVE  pc \notin { "failed", "panic" }
  <2>1. SUFFICES ASSUME pc \in { "failed", "panic" } PROVE FALSE
    OBVIOUS
  <2>2. Typed /\ turn = 1
    BY <1>1, <2>1 DEF KInv, JInv, IInv, Reread, Typed
  <2>3. meant \in Seq(Told) /\ Upto(l)[n] \in Seq(Told) /\ came \in Seq(Byte)
    <3>1. Len(l) \in 0 .. Len(l)
      BY <1>1, <2>2, LogIs
    <3>2. QED
      BY <1>1, <2>2, <3>1, LogIs DEF Typed
  <2>4. PICK tail \in Seq(Byte) : Wrote(meant, came \o tail)
    BY <1>1, <2>1, <2>2, <2>3 DEF KInv, HasCome
  <2>5. Wrote(Upto(l)[n], came)
    BY <1>1, <2>2, <2>4, MessagesCome
  <2>6. PICK m \in Seq(Told) : m = Ending(Upto(l)[n])
    BY <2>3, EndingIs
  <2>7. Wrote(m, came)
    BY <2>3, <2>5, <2>6, WroteEnding
  <2>8. Parses(Each(asked), m)
    BY <1>1, <2>2, <2>6, LogMayEnd
  <2>9. QED
    BY <1>1, <2>1, <2>2, <2>7, <2>8 DEF KInv, WholeIsRead
<1>2. ASSUME KInv, NEW l \in Logs, IsLog(l), turn = 2
      PROVE  \E n \in 0 .. Len(l) : Length(Upto(l)[n]) = Len(came) /\ Said(first) = Upto(l)[n]
  <2>1. Typed /\ meant \in Seq(Told) /\ meant = Upto(l)[Len(l)] /\ Len(l) \in 0 .. Len(l)
    BY <1>2, LogIs DEF KInv, JInv, IInv
  <2>2. MayEnd
    BY <1>2, <2>1, LogMayEnd DEF MayEnd
  <2>3. /\ first \in Seq(Told) /\ Parses(Each(asked), first) /\ BeginsTheLog(first)
    BY <1>2, <2>2 DEF KInv, Followed
  <2>4. PICK v \in Seq(Byte) : Wrote(first, v) /\ Len(v) = Len(came)
    BY <1>2 DEF KInv, Followed
  <2>5. PICK q \in Seq(Told), r \in Seq(Told) : Ending(meant) = q \o r /\ first = Ending(q)
    BY <2>3 DEF BeginsTheLog
  <2>6. PICK n \in 0 .. Len(l) : q = Upto(l)[n]
    <3>1. Bounded(l, Len(asked), 0)
      BY <1>2, <2>1, LogIs, Boundaries
    <3>2. Upto(l)[0] \o q = q
      BY <1>2, <2>1, LogIs
    <3>3. Parses(Ors(Len(asked) - 0), Ending(q))
      <4>1. Len(asked) - 0 = Len(asked)
        BY <1>2, <2>1, LogIs
      <4>2. QED
        BY <1>2, <2>1, <2>3, <2>5, <4>1, LogIs
    <3>4. QED
      BY <2>1, <2>5, <3>1, <3>2, <3>3 DEF Bounded
  <2>7. q \in Seq(Spoken)
    BY <1>2, <2>1, <2>6, LogIs
  <2>8. Said(first) = q
    BY <2>5, <2>7, SaidIs DEF Ending
  <2>9. PICK u \in Seq(Byte) : Wrote(q, u) /\ Len(u) = Length(q)
    BY TakesIs
  <2>10. Wrote(first, u)
    BY <2>5, <2>9, WroteEnding
  <2>11. u = v
    BY <2>3, <2>4, <2>10, WroteIsUnique
  <2>12. QED
    BY <2>4, <2>6, <2>8, <2>9, <2>11
<1>3. KInv => ClosedBetweenMessages
  <2>1. SUFFICES ASSUME KInv, NEW l \in Logs, IsLog(l)
                 PROVE  LET k == { n \in 0 .. Len(l) : Length(Upto(l)[n]) = Len(came) }
                        IN  /\ pc \in { "failed", "panic" } => k = { }
                            /\ turn = 2 => \E n \in k : Said(first) = Upto(l)[n]
    BY DEF ClosedBetweenMessages, Length
  <2>2. QED
    BY <1>1, <1>2, <2>1
<1>4. Spec => []KInv
  BY KInvInit, KInvNext, PTL DEF Spec
<1>5. QED
  BY <1>3, <1>4, PTL
=============================================================================
