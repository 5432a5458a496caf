-------------------------- MODULE NarStreamProofs --------------------------
(***************************************************************************)
(* Theorems about NarStream.tla and NarArchive.tla for every value of their*)
(* constants.                                                              *)
(***************************************************************************)
EXTENDS NarArchive, SequenceTheorems, WellFoundedInduction, TLAPS

Strings == [text : STRING, len : Nat, here : Nat]

\* Where the parse may stand, but for the middle of the contents of a file.
Between ==
    DOMAIN Expected \cup DOMAIN Accepted
        \cup { "link", "named", "contents", "done", "error", "overflow" }

\* CopiesWhatItReads is not inductive: that the copy of a piece is complete when
\* the padding is read takes that nothing remains, and that counting started at 0.
IInv ==
    /\ TypeOK
    /\ CopiesWhatItReads
    /\ source \in Seq(Strings)
    /\ output \in Seq(Strings)
    /\ at = "piece" => mode = "stream" /\ source # << >>
    /\ at # "piece" => remaining = 0 /\ copied = 0

-----------------------------------------------------------------------------
\* Moving a string from the head of one sequence to the end of another leaves
\* the two, put together, as they are.
LEMMA MoveHead ==
    ASSUME NEW s \in Seq(Strings), NEW t \in Seq(Strings), t # << >>
    PROVE  /\ Head(t) \in Strings
           /\ Tail(t) \in Seq(Strings)
           /\ s \o << Head(t) >> \in Seq(Strings)
           /\ (s \o << Head(t) >>) \o Tail(t) = s \o t
<1>1. Head(t) \in Strings /\ Tail(t) \in Seq(Strings)
  BY HeadTailProperties
<1>2. << Head(t) >> \in Seq(Strings)
  BY <1>1
<1>3. << Head(t) >> \o Tail(t) = t
  BY <1>1, SMT
<1>4. s \o << Head(t) >> \in Seq(Strings)
  BY <1>2, ConcatProperties
<1>5. (s \o << Head(t) >>) \o Tail(t) = s \o (<< Head(t) >> \o Tail(t))
  BY <1>1, <1>2, ConcatAssociative
<1>6. QED
  BY <1>1, <1>3, <1>4, <1>5

\* Where one tag will do, the parse goes on to a place between two strings.
LEMMA ExpectedGoesOn ==
    ASSUME NEW s \in DOMAIN Expected
    PROVE  Expected[s][2] \in Between /\ Expected[s][2] # "piece"
<1>1. s \in { "archive", "open", "type", "exec", "target", "entry", "name", "node", "endEntry" }
  BY DEF Expected
<1>2. { "open", "type", "kind", "file", "link", "name", "named", "dir" } \subseteq Between
  BY DEF Expected, Accepted, Between
<1>3. Expected[s][2] \in { "open", "type", "kind", "file", "link", "name", "named", "dir" }
  <2>1. /\ Expected["archive"][2] = "open"
        /\ Expected["open"][2] = "type"
        /\ Expected["type"][2] = "kind"
        /\ Expected["exec"][2] = "file"
        /\ Expected["target"][2] = "link"
        /\ Expected["entry"][2] = "name"
        /\ Expected["name"][2] = "named"
        /\ Expected["node"][2] = "open"
        /\ Expected["endEntry"][2] = "dir"
    BY DEF Expected
  <2>2. QED
    BY <1>1, <2>1, Zenon
<1>4. QED
  BY <1>2, <1>3

LEMMA NotPiece ==
    "piece" \notin Between /\ "endEntry" \in Between /\ "done" \in Between
  BY DEF Expected, Accepted, Between

LEMMA InitIInv == Init => IInv
<1> SUFFICES ASSUME Init PROVE IInv
  OBVIOUS
<1>1. source \in Seq(Strings) /\ input = source
  BY SourceAssumption DEF Init, Strings
<1>2. output = << >> /\ << >> \in Seq(Strings)
  BY EmptySeq DEF Init
<1>3. << >> \o source = source
  BY <1>1, ConcatEmptySeq
<1>4. TypeOK
  <2>1. "archive" \in DOMAIN Expected
    BY DEF Expected
  <2>2. 0 \in 0 .. MaxDepth
    BY DepthAssumption
  <2>3. QED
    BY <2>1, <2>2 DEF Init, TypeOK
<1>5. QED
  BY <1>1, <1>2, <1>3, <1>4 DEF Init, IInv, CopiesWhatItReads

\* A string read whole, from one place between two strings to another.
LEMMA TakeIInv ==
    ASSUME IInv, Take, at # "piece", at' \in Between, depth' \in 0 .. MaxDepth
    PROVE  IInv'
<1>1. /\ source # << >>
      /\ UNCHANGED << mode, input, remaining, copied >>
      /\ source' = Tail(source)
      /\ output' = IF mode = "stream" THEN output \o << Head(source) >> ELSE output
  BY DEF Take, Tee
<1>2. source' \in Seq(Strings) /\ output' \in Seq(Strings)
  BY <1>1, MoveHead DEF IInv
<1>3. mode = "stream" => output' \o source' = output \o source
  BY <1>1, MoveHead DEF IInv
<1>4. at' # "piece"
  BY NotPiece
<1>5. TypeOK'
  BY <1>1 DEF IInv, TypeOK, Between
<1>6. CopiesWhatItReads'
  BY <1>1, <1>3, <1>4 DEF IInv, CopiesWhatItReads
<1>7. QED
  BY <1>1, <1>2, <1>4, <1>5, <1>6 DEF IInv

LEMMA EntryEndGoesOn ==
    ASSUME TypeOK, EntryEnd
    PROVE  at' \in Between /\ depth' \in 0 .. MaxDepth
<1>1. CASE depth = 0
  BY <1>1, NotPiece, DepthAssumption DEF TypeOK, EntryEnd
<1>2. CASE depth # 0
  BY <1>2, NotPiece, DepthAssumption DEF TypeOK, EntryEnd
<1>3. QED
  BY <1>1, <1>2

\* The actions that read a string whole.
Taking ==
    \/ ExpectTag \/ StackOverflow \/ EntryKind \/ FileTag \/ ContentsWhole \/ FileEnd
    \/ LinkTarget \/ LinkEnd \/ DirTag \/ EntryName \/ Refuse

LEMMA TakingIInv == ASSUME IInv, Taking PROVE IInv'
<1>1. TypeOK /\ depth \in 0 .. MaxDepth
  BY DEF IInv, TypeOK
<1>2. { "kind", "file", "fileEnd", "linkEnd", "dir", "exec", "contents",
        "target", "entry", "node", "error", "overflow" } \subseteq Between
  BY DEF Between, Expected, Accepted
<1>3. Take
  BY Zenon DEF Taking, ExpectTag, StackOverflow, EntryKind, FileTag, ContentsWhole, FileEnd,
     LinkTarget, LinkEnd, DirTag, EntryName, Refuse
<1>4. at # "piece" /\ at' \in Between /\ depth' \in 0 .. MaxDepth
  <2>1. CASE ExpectTag
    <3>1. depth' \in 0 .. MaxDepth
      BY <2>1, <1>1, DepthAssumption DEF ExpectTag
    <3>2. QED
      BY <2>1, <3>1, ExpectedGoesOn, NotPiece DEF ExpectTag, Between
  <2>2. CASE EntryKind \/ StackOverflow
    BY <2>2, <1>1, <1>2 DEF EntryKind, StackOverflow
  <2>3. CASE FileTag
    BY <2>3, <1>1, <1>2, EntryEndGoesOn DEF FileTag
  <2>4. CASE FileEnd \/ LinkEnd
    BY <2>4, <1>1, EntryEndGoesOn DEF FileEnd, LinkEnd
  <2>5. CASE ContentsWhole \/ LinkTarget \/ EntryName
    BY <2>5, <1>1, <1>2 DEF ContentsWhole, LinkTarget, EntryName
  <2>6. CASE DirTag
    BY <2>6, <1>1, <1>2, EntryEndGoesOn DEF DirTag
  <2>7. CASE Refuse
    <3>1. at # "piece"
      BY <2>7 DEF Refuse, Refused, Expected, Accepted
    <3>2. QED
      BY <2>7, <3>1, <1>1, <1>2 DEF Refuse
  <2>8. QED
    BY <2>1, <2>2, <2>3, <2>4, <2>5, <2>6, <2>7 DEF Taking
<1>5. QED
  BY <1>3, <1>4, TakeIInv

LEMMA ContentsLengthIInv == ASSUME IInv, ContentsLength PROVE IInv'
<1>1. Head(source) \in Strings
  BY MoveHead DEF IInv, ContentsLength
<1>2. remaining' = Head(source).len /\ remaining' \in Nat
  BY <1>1 DEF ContentsLength, Strings
<1>3. copied' = 0 /\ copied' + remaining' = Head(source').len
  BY <1>2 DEF IInv, ContentsLength
<1>4. TypeOK'
  BY <1>2 DEF IInv, TypeOK, ContentsLength
<1>5. CopiesWhatItReads'
  BY <1>3 DEF IInv, CopiesWhatItReads, ContentsLength
<1>6. QED
  BY <1>4, <1>5 DEF IInv, ContentsLength

\* A piece is no longer than what remains, so remaining stays a natural number.
LEMMA ReadPieceIInv ==
    ASSUME IInv, NEW n \in 1 .. BufLen, ReadPiece(n)
    PROVE  IInv'
<1>1. Head(source) \in Strings
  BY MoveHead DEF IInv, ReadPiece
<1>2. remaining \in Nat /\ copied \in Nat /\ BufLen \in Nat /\ Available \in Int
  BY <1>1, SizeAssumption DEF IInv, TypeOK, Available, Strings
<1>3. n \in Nat /\ n <= remaining
  BY <1>2 DEF ReadPiece, Least, MaxLen
<1>4. remaining' = remaining - n /\ copied' = copied + n
  BY DEF ReadPiece, TeeCopies
<1>5. remaining' \in Nat /\ copied' \in Nat /\ copied' + remaining' = copied + remaining
  BY <1>2, <1>3, <1>4
<1>6. UNCHANGED << mode, input, source, output, at, depth >>
  BY DEF ReadPiece
<1>7. TypeOK'
  BY <1>5, <1>6 DEF IInv, TypeOK
<1>8. CopiesWhatItReads'
  BY <1>5, <1>6 DEF IInv, CopiesWhatItReads
<1>9. QED
  BY <1>6, <1>7, <1>8 DEF IInv, ReadPiece

\* When nothing remains, all of the string has been copied.
LEMMA ReadPaddingIInv == ASSUME IInv, ReadPadding PROVE IInv'
<1>1. Head(source) \in Strings /\ mode = "stream" /\ source # << >>
  BY MoveHead DEF IInv, ReadPadding
<1>2. remaining = 0 /\ copied = Head(source).len
  BY <1>1 DEF IInv, TypeOK, CopiesWhatItReads, ReadPadding, Strings
<1>3. Head(source).here = copied + Padding(Head(source).len)
  BY <1>2 DEF ReadPadding, Whole
<1>4. CutAt(Head(source), copied + Padding(Head(source).len)) = Head(source)
  BY <1>1, <1>3 DEF CutAt, Strings
<1>5. output' = output \o << Head(source) >> /\ source' = Tail(source)
  <2>1. output' = Append(output, Head(source)) /\ source' = Tail(source)
    BY <1>4 DEF ReadPadding
  <2>2. output \in Seq(Strings)
    BY DEF IInv
  <2>3. QED
    BY <1>1, <2>1, <2>2
<1>6. /\ source' \in Seq(Strings) /\ output' \in Seq(Strings)
      /\ output' \o source' = output \o source
  BY <1>1, <1>5, MoveHead DEF IInv
<1>7. at' = "fileEnd" /\ remaining' = 0 /\ copied' = 0 /\ UNCHANGED << mode, input, depth >>
  BY DEF ReadPadding
<1>8. TypeOK'
  <2>1. "fileEnd" \in DOMAIN Accepted
    BY DEF Accepted
  <2>2. QED
    BY <1>7, <2>1 DEF IInv, TypeOK
<1>9. CopiesWhatItReads'
  BY <1>1, <1>6, <1>7 DEF IInv, CopiesWhatItReads
<1>10. QED
  BY <1>6, <1>7, <1>8, <1>9 DEF IInv

LEMMA UnexpectedEofIInv == ASSUME IInv, UnexpectedEof PROVE IInv'
<1>1. /\ at' = "error" /\ source' = << >> /\ remaining' = 0 /\ copied' = 0
      /\ output' = IF mode = "stream" THEN output \o source ELSE output
      /\ UNCHANGED << mode, input, depth >>
  BY DEF UnexpectedEof, Tee
<1>2. output \o source \in Seq(Strings)
  BY ConcatProperties DEF IInv
<1>3. source' \in Seq(Strings) /\ output' \in Seq(Strings)
  BY <1>1, <1>2 DEF IInv
<1>4. (output \o source) \o << >> = output \o source
  BY <1>2, ConcatEmptySeq
<1>5. TypeOK'
  BY <1>1 DEF IInv, TypeOK
<1>6. CopiesWhatItReads'
  BY <1>1, <1>4 DEF IInv, CopiesWhatItReads
<1>7. QED
  BY <1>1, <1>3, <1>5, <1>6 DEF IInv

LEMMA NextIInv == IInv /\ [Next]_vars => IInv'
<1> SUFFICES ASSUME IInv, [Next]_vars PROVE IInv'
  OBVIOUS
<1>1. CASE Taking
  BY <1>1, TakingIInv
<1>2. CASE ContentsLength
  BY <1>2, ContentsLengthIInv
<1>3. CASE \E n \in 1 .. BufLen : ReadPiece(n)
  BY <1>3, ReadPieceIInv
<1>4. CASE ReadPadding
  BY <1>4, ReadPaddingIInv
<1>5. CASE UnexpectedEof
  BY <1>5, UnexpectedEofIInv
<1>6. CASE ReadNothing \/ Rest \/ UNCHANGED vars
  BY <1>6 DEF ReadNothing, Rest, vars, IInv, TypeOK, CopiesWhatItReads
<1>7. QED
  BY <1>1, <1>2, <1>3, <1>4, <1>5, <1>6, Zenon DEF Next, ReadEntry, Taking

\* The inductive invariant holds of every state the reader can be in.
THEOREM IInvInductive == Spec => []IInv
  BY InitIInv, NextIInv, PTL DEF Spec

\* The counters and the depth of the recursion stay natural numbers: write_string
\* never subtracts more than remains, and no directory is left that was not
\* entered, or entered without room on the stack.
THEOREM TypeCorrect == Spec => []TypeOK
<1>1. IInv => TypeOK
  BY DEF IInv
<1>2. QED
  BY <1>1, IInvInductive, PTL

\* What `stream` has written and what it has not read are together what came,
\* however the reads split it.
THEOREM CopyIsFaithful == Spec => []CopiesWhatItReads
<1>1. IInv => CopiesWhatItReads
  BY DEF IInv
<1>2. QED
  BY <1>1, IInvInductive, PTL
-----------------------------------------------------------------------------
\* What is said of the archives of Nars (NarArchive.tla): where the reader stands
\* in an archive, and what of it is still to come.

\* A set of natural numbers has a least member.
LEMMA LeastMember ==
    ASSUME NEW T \in SUBSET Nat, T # {}
    PROVE  \E x \in T : \A y \in T : x <= y
<1> DEFINE R == OpToRel(<, Nat)
<1>1. PICK x \in T : \A y \in T : ~ (<< y, x >> \in R)
  <2>1. IsWellFoundedOn(R, Nat)
    BY NatLessThanWellFounded
  <2> HIDE DEF R
  <2>2. QED
    BY <2>1, WFMin
<1>2. \A y \in T : ~ (y < x)
  BY <1>1 DEF OpToRel
<1>3. QED
  BY <1>2

\* Induction up to a number, about the members of a set.
LEMMA UpTo ==
    ASSUME NEW n \in Nat, NEW S, 0 \in S,
           \A k \in 0 .. n - 1 : k \in S => k + 1 \in S
    PROVE  \A k \in 0 .. n : k \in S
<1> DEFINE T == { k \in 0 .. n : k \notin S }
<1>1. SUFFICES ASSUME T # {} PROVE FALSE
  OBVIOUS
<1>2. PICK x \in T : \A y \in T : x <= y
  <2>1. T \in SUBSET Nat
    OBVIOUS
  <2> HIDE DEF T
  <2>2. QED
    BY <1>1, <2>1, LeastMember
<1>3. x \in 0 .. n /\ x \notin S /\ x # 0
  BY <1>2
<1>4. x - 1 \in 0 .. n - 1 /\ x - 1 \notin T
  BY <1>2, <1>3
<1>5. QED
  BY <1>3, <1>4

\* One before the others.
LEMMA Cons ==
    ASSUME NEW S, NEW x \in S, NEW s \in Seq(S)
    PROVE  /\ << x >> \o s \in Seq(S)
           /\ << x >> \o s # << >>
           /\ Head(<< x >> \o s) = x
           /\ Tail(<< x >> \o s) = s
           /\ Len(<< x >> \o s) = Len(s) + 1
  OBVIOUS

-----------------------------------------------------------------------------
\* The strings of an archive.

Words ==
    { "nix-archive-1", "(", ")", "type", "regular", "executable", "", "contents", "symlink",
      "target", "directory", "entry", "name", "node" }

\* The strings that the library writes, which are whole.
Pieces == { Str(text, len) : text \in STRING \cup Words, len \in Nat }

LEMMA PaddingIsNat ==
    ASSUME NEW len \in Nat
    PROVE  Padding(len) \in Nat
<1>1. len % Align \in 0 .. Align - 1
  BY SizeAssumption
<1>2. QED
  BY <1>1, SizeAssumption DEF Padding

LEMMA StrIsPiece ==
    ASSUME NEW text \in STRING \cup Words, NEW len \in Nat
    PROVE  /\ Str(text, len) \in Pieces
           /\ Whole(Str(text, len))
           /\ Str(text, len).text = text
           /\ Str(text, len).len = len
  BY DEF Pieces, Str, Whole

LEMMA TagIsPiece ==
    ASSUME NEW w \in Words
    PROVE  Tag(w) \in Pieces /\ Tag(w).text = w
<1>1. (IF w = "" THEN 0 ELSE 1) \in Nat
  OBVIOUS
<1>2. QED
  BY <1>1, StrIsPiece DEF Tag

\* A piece that is cut is not whole.
LEMMA PieceCut ==
    ASSUME NEW s \in Pieces, NEW k \in 0 .. s.here - 1
    PROVE  Whole(s) /\ ~ Whole(CutAt(s, k))
<1>1. PICK text \in STRING \cup Words, len \in Nat : s = Str(text, len)
  BY DEF Pieces
<1>2. s = [text |-> text, len |-> len, here |-> len + Padding(len)]
  BY <1>1 DEF Str
<1>3. s.here = len + Padding(len) /\ s.here \in Nat
  BY <1>2, PaddingIsNat
<1>4. CutAt(s, k).here = k /\ CutAt(s, k).len = len
  BY <1>2 DEF CutAt
<1>5. k # len + Padding(len)
  BY <1>3, PaddingIsNat
<1>6. QED
  BY <1>2, <1>3, <1>4, <1>5 DEF Whole

-----------------------------------------------------------------------------
\* What has come brings z, and t after it; or it brings z cut short.
Comes(s, z, t, short) == IF short THEN Cut(s, z) ELSE s = z \o t

\* Of a cut sequence what has come whole is what was written, and the others of it
\* are those that were written, cut.
LEMMA CutOff ==
    ASSUME NEW x \in Pieces, NEW z \in Seq(Pieces), NEW s \in Seq(Strings),
           s # << >>, Whole(Head(s)), Cut(s, << x >> \o z)
    PROVE  Head(s) = x /\ Cut(Tail(s), z)
<1>1. PICK y \in Seq(Pieces) : y = << x >> \o z
  BY Cons
<1>2. PICK r \in Seq(Strings), h \in Strings : r = Tail(s) /\ h = Head(s)
  BY HeadTailProperties
<1>3. PICK m \in Nat, c \in Nat : m = Len(r) /\ c = Len(z)
  OBVIOUS
<1>4. Len(y) = c + 1 /\ y[1] = x /\ \A i \in 1 .. c : y[i + 1] = z[i]
  BY <1>1, <1>3
<1>5. Len(s) = m + 1 /\ s[1] = h /\ \A i \in 1 .. m : s[i + 1] = r[i]
  BY <1>2, <1>3
<1>6. PICK l \in 0 .. Len(y) - 1 :
        /\ Len(s) \in { l, l + 1 }
        /\ \A i \in 1 .. l : s[i] = y[i]
        /\ Len(s) > l => \E k \in 0 .. y[l + 1].here - 1 : s[l + 1] = CutAt(y[l + 1], k)
  BY <1>1 DEF Cut
<1>7. l \in 0 .. c /\ (m = l - 1 \/ m = l)
  BY <1>4, <1>5, <1>6
<1>8. l # 0
  <2>1. SUFFICES ASSUME l = 0 PROVE FALSE
    OBVIOUS
  <2>2. \E k \in 0 .. x.here - 1 : h = CutAt(x, k)
    BY <1>4, <1>5, <1>6, <2>1
  <2>3. QED
    BY <1>2, <2>2, PieceCut
<1>9. PICK j \in Nat : l = j + 1 /\ j \in 0 .. c - 1 /\ (m = j \/ m = j + 1)
  BY <1>7, <1>8
<1>10. h = x
  BY <1>4, <1>5, <1>6, <1>9
<1>11. Cut(r, z)
  <2>1. ASSUME NEW i \in 1 .. j PROVE r[i] = z[i]
    <3>1. i \in 1 .. m /\ i + 1 \in 1 .. l /\ i \in 1 .. c
      BY <1>9
    <3>2. QED
      BY <1>4, <1>5, <1>6, <3>1
  <2>2. ASSUME m > j
        PROVE  \E k \in 0 .. z[j + 1].here - 1 : r[j + 1] = CutAt(z[j + 1], k)
    <3>1. j + 1 \in 1 .. m /\ j + 1 \in 1 .. c /\ m + 1 > l
      BY <1>9, <2>2
    <3>2. y[l + 1] = z[j + 1] /\ s[l + 1] = r[j + 1]
      BY <1>4, <1>5, <1>9, <3>1
    <3>3. QED
      BY <1>5, <1>6, <3>1, <3>2
  <2>3. QED
    BY <1>3, <1>9, <2>1, <2>2 DEF Cut
<1>12. QED
  BY <1>2, <1>10, <1>11

\* What is read whole is what was written.
LEMMA ReadsPiece ==
    ASSUME NEW x \in Pieces, NEW z \in Seq(Pieces), NEW s \in Seq(Strings), NEW t \in Seq(Strings),
           NEW short \in BOOLEAN, Comes(s, << x >> \o z, t, short)
    PROVE  /\ s # << >> /\ Whole(Head(s)) => Head(s) = x /\ Comes(Tail(s), z, t, short)
           /\ ~ short => s # << >> /\ Whole(Head(s))
<1>1. CASE short
  BY <1>1, CutOff DEF Comes
<1>2. CASE ~ short
  <2>1. s = (<< x >> \o z) \o t
    BY <1>2 DEF Comes
  <2>2. Whole(x)
    BY StrIsPiece DEF Pieces
  <2>3. s # << >> /\ Head(s) = x /\ Tail(s) = z \o t
    BY <2>1
  <2>4. QED
    BY <1>2, <2>2, <2>3 DEF Comes
<1>3. QED
  BY <1>1, <1>2

\* Nothing is no part of nothing.
LEMMA NothingIsCut == ASSUME NEW s PROVE ~ Cut(s, << >>)
<1>1. 0 .. Len(<< >>) - 1 = { }
  OBVIOUS
<1>2. QED
  BY <1>1 DEF Cut


\* Short sequences, in front of others.
LEMMA Regrouped ==
    ASSUME NEW S, NEW s \in Seq(S), NEW t \in Seq(S), NEW u \in Seq(S)
    PROVE  (s \o t) \o u = s \o (t \o u) /\ s \o t \in Seq(S) /\ t \o u \in Seq(S)
  BY ConcatAssociative

Unfolds(s, z, t) == s \o z = t

LEMMA Two ==
    ASSUME NEW S, NEW a \in S, NEW b \in S, NEW z \in Seq(S)
    PROVE  /\ << a, b >> \in Seq(S)
           /\ Unfolds(<< a, b >>, z, << a >> \o (<< b >> \o z))
<1> DEFINE s == << a >> \o << b >>
<1>1. PICK t \in Seq(S) : t = << b >>
  <2>1. << b >> \in Seq(S)
    OBVIOUS
  <2>2. QED
    BY <2>1
<1>2. Len(t) = 1 /\ t[1] = b
  BY <1>1
<1>3. s \in Seq(S) /\ Len(s) = 2 /\ s[1] = a /\ s[2] = t[1]
  BY <1>1, <1>2
<1>4. s \o z = << a >> \o (<< b >> \o z)
  BY <1>1, Regrouped
<1> HIDE DEF s
<1>5. s = << a, b >>
  BY <1>2, <1>3
<1>6. QED
  BY <1>3, <1>4, <1>5 DEF Unfolds

LEMMA Three ==
    ASSUME NEW S, NEW a \in S, NEW b \in S, NEW c \in S, NEW z \in Seq(S)
    PROVE  /\ << a, b, c >> \in Seq(S)
           /\ Unfolds(<< a, b, c >>, z, << a >> \o (<< b >> \o (<< c >> \o z)))
<1> DEFINE s == << a >> \o << b, c >>
<1>1. PICK t \in Seq(S) : t = << b, c >>
  <2>1. << b, c >> \in Seq(S)
    BY Two
  <2>2. QED
    BY <2>1
<1>2. Len(t) = 2 /\ t[1] = b /\ t[2] = c
  BY <1>1
<1>3. s \in Seq(S) /\ Len(s) = 3 /\ s[1] = a /\ s[2] = t[1] /\ s[3] = t[2]
  BY <1>1, <1>2
<1>4. s \o z = << a >> \o (<< b, c >> \o z)
  BY <1>1, Regrouped
<1> HIDE DEF s
<1>5. s = << a, b, c >>
  BY <1>2, <1>3
<1>6. Unfolds(<< b, c >>, z, << b >> \o (<< c >> \o z))
  BY Two
<1>7. QED
  BY <1>3, <1>4, <1>5, <1>6 DEF Unfolds

LEMMA Four ==
    ASSUME NEW S, NEW a \in S, NEW b \in S, NEW c \in S, NEW d \in S, NEW z \in Seq(S)
    PROVE  /\ << a, b, c, d >> \in Seq(S)
           /\ Unfolds(<< a, b, c, d >>, z, << a >> \o (<< b >> \o (<< c >> \o (<< d >> \o z))))
<1> DEFINE s == << a >> \o << b, c, d >>
<1>1. PICK t \in Seq(S) : t = << b, c, d >>
  <2>1. << b, c, d >> \in Seq(S)
    BY Three
  <2>2. QED
    BY <2>1
<1>2. Len(t) = 3 /\ t[1] = b /\ t[2] = c /\ t[3] = d
  BY <1>1
<1>3. s \in Seq(S) /\ Len(s) = 4 /\ s[1] = a /\ s[2] = t[1] /\ s[3] = t[2] /\ s[4] = t[3]
  BY <1>1, <1>2
<1>4. s \o z = << a >> \o (<< b, c, d >> \o z)
  BY <1>1, Regrouped
<1> HIDE DEF s
<1>5. s = << a, b, c, d >>
  BY <1>2, <1>3
<1>6. Unfolds(<< b, c, d >>, z, << b >> \o (<< c >> \o (<< d >> \o z)))
  BY Three
<1>7. QED
  BY <1>3, <1>4, <1>5, <1>6 DEF Unfolds

LEMMA Five ==
    ASSUME NEW S, NEW a \in S, NEW b \in S, NEW c \in S, NEW d \in S, NEW e \in S, NEW z \in Seq(S)
    PROVE  /\ << a, b, c, d, e >> \in Seq(S)
           /\ Unfolds(<< a, b, c, d, e >>, z, << a >> \o (<< b >> \o (<< c >> \o (<< d >> \o (<< e >> \o z)))))
<1> DEFINE s == << a >> \o << b, c, d, e >>
<1>1. PICK t \in Seq(S) : t = << b, c, d, e >>
  <2>1. << b, c, d, e >> \in Seq(S)
    BY Four
  <2>2. QED
    BY <2>1
<1>2. Len(t) = 4 /\ t[1] = b /\ t[2] = c /\ t[3] = d /\ t[4] = e
  BY <1>1
<1>3. s \in Seq(S) /\ Len(s) = 5 /\ s[1] = a /\ s[2] = t[1] /\ s[3] = t[2] /\ s[4] = t[3] /\ s[5] = t[4]
  BY <1>1, <1>2
<1>4. s \o z = << a >> \o (<< b, c, d, e >> \o z)
  BY <1>1, Regrouped
<1> HIDE DEF s
<1>5. s = << a, b, c, d, e >>
  BY <1>2, <1>3
<1>6. Unfolds(<< b, c, d, e >>, z, << b >> \o (<< c >> \o (<< d >> \o (<< e >> \o z))))
  BY Four
<1>7. QED
  BY <1>3, <1>4, <1>5, <1>6 DEF Unfolds
-----------------------------------------------------------------------------
\* The archives.

LEMMA ClosingIs ==
    /\ Closing(0) = << >>
    /\ \A k \in Nat : Closing(k) \in Seq(Pieces)
    /\ \A k \in Nat : Closing(k + 1) = << Tag(")") >> \o Closing(k)
<1> DEFINE x == Tag(")")
<1>1. x \in Pieces
  BY TagIsPiece DEF Words
<1> HIDE DEF x
<1>2. \A k \in Nat : Closing(k) = [ j \in 1 .. k |-> x ]
  BY DEF Closing, x
<1>3. Closing(0) = << >>
  BY <1>2
<1>4. \A k \in Nat : Closing(k) \in Seq(Pieces) /\ Len(Closing(k)) = k
  BY <1>1, <1>2
<1>5. ASSUME NEW k \in Nat PROVE Closing(k + 1) = << x >> \o Closing(k)
  <2>1. PICK s \in Seq(Pieces) : s = Closing(k) /\ Len(s) = k /\ s = [ j \in 1 .. k |-> x ]
    BY <1>2, <1>4
  <2>2. PICK r \in Seq(Pieces) :
          r = Closing(k + 1) /\ Len(r) = k + 1 /\ r = [ j \in 1 .. k + 1 |-> x ]
    BY <1>2, <1>4
  <2>3. << x >> \o s \in Seq(Pieces) /\ Len(<< x >> \o s) = k + 1
    BY <1>1, <2>1
  <2>4. ASSUME NEW i \in 1 .. k + 1 PROVE (<< x >> \o s)[i] = x
    <3>1. CASE i = 1
      BY <1>1, <2>1, <3>1
    <3>2. CASE i # 1
      <4>1. (<< x >> \o s)[i] = s[i - 1] /\ i - 1 \in 1 .. k
        BY <1>1, <2>1, <3>2
      <4>2. QED
        BY <2>1, <4>1
    <3>3. QED
      BY <3>1, <3>2
  <2>5. QED
    BY <2>1, <2>2, <2>3, <2>4
<1>6. QED
  BY <1>3, <1>4, <1>5 DEF x

\* What an entry is opened with, in front of whatever follows it.
LEMMA InsideIs ==
    ASSUME NEW node \in Node, NEW z \in Seq(Pieces)
    PROVE  /\ Inside(node) \in Seq(Pieces)
           /\ Opening(node) \in Seq(Pieces)
           /\ Opening(node) \o z = << Tag("(") >> \o (<< Tag("type") >> \o (Inside(node) \o z))
           /\ node.kind \in { "file", "symlink", "directory" }
           /\ node.kind = "directory" <=> node = DirNode
           /\ node.kind = "file" =>
                /\ node.executable \in BOOLEAN /\ node.text \in STRING /\ node.len \in Nat
                /\ node = FileNode(node.executable, node.text, node.len)
                /\ Inside(node) \o z = << Tag("regular") >> \o
                     IF node.executable
                       THEN << Tag("executable") >> \o (<< Tag("") >> \o
                            (<< Tag("contents") >> \o (<< Str(node.text, node.len) >> \o z)))
                       ELSE << Tag("contents") >> \o (<< Str(node.text, node.len) >> \o z)
           /\ node.kind = "symlink" =>
                /\ node.target \in STRING
                /\ node = SymlinkNode(node.target)
                /\ Inside(node) \o z = << Tag("symlink") >> \o
                     (<< Tag("target") >> \o (<< Str(node.target, 1) >> \o z))
           /\ node.kind = "directory" => Inside(node) \o z = << Tag("directory") >> \o z
<1>1. PICK a \in Pieces, b \in Pieces, r \in Pieces, e \in Pieces, w \in Pieces,
           c \in Pieces, l \in Pieces, g \in Pieces, d \in Pieces :
        /\ a = Tag("(") /\ b = Tag("type") /\ r = Tag("regular") /\ e = Tag("executable")
        /\ w = Tag("") /\ c = Tag("contents") /\ l = Tag("symlink") /\ g = Tag("target")
        /\ d = Tag("directory")
  BY TagIsPiece DEF Words
<1>2. /\ node.kind \in { "file", "symlink", "directory" }
      /\ node.kind = "directory" <=> node = DirNode
      /\ node.kind = "file" =>
           /\ node.executable \in BOOLEAN /\ node.text \in STRING /\ node.len \in Nat
           /\ node = FileNode(node.executable, node.text, node.len)
      /\ node.kind = "symlink" => node.target \in STRING /\ node = SymlinkNode(node.target)
  BY DEF Node, DirNode, FileNode, SymlinkNode
<1>3. /\ Inside(node) \in Seq(Pieces) => Opening(node) \in Seq(Pieces)
      /\ Inside(node) \in Seq(Pieces) =>
           Opening(node) \o z = << a >> \o (<< b >> \o (Inside(node) \o z))
  <2>1. SUFFICES ASSUME Inside(node) \in Seq(Pieces)
                 PROVE  /\ Opening(node) \in Seq(Pieces)
                        /\ Opening(node) \o z = << a >> \o (<< b >> \o (Inside(node) \o z))
    OBVIOUS
  <2>2. PICK i \in Seq(Pieces), y \in Seq(Pieces) : i = Inside(node) /\ y = i \o z
    BY <2>1, Regrouped
  <2>3. Opening(node) = << a, b >> \o i
    BY <1>1, <2>2 DEF Opening
  <2>4. << a, b >> \in Seq(Pieces) /\ Unfolds(<< a, b >>, y, << a >> \o (<< b >> \o y))
    BY Two
  <2>5. (<< a, b >> \o i) \o z = << a, b >> \o y /\ << a, b >> \o i \in Seq(Pieces)
    BY <2>2, <2>4, Regrouped
  <2>6. QED
    BY <2>2, <2>3, <2>4, <2>5 DEF Unfolds
<1>4. CASE node.kind = "file"
  <2>1. PICK t \in Pieces : t = Str(node.text, node.len)
    BY <1>2, <1>4, StrIsPiece
  <2>2. PICK y \in Seq(Pieces) : y = << c, t >> /\ Unfolds(y, z, << c >> \o (<< t >> \o z))
    <3>1. << c, t >> \in Seq(Pieces) /\ Unfolds(<< c, t >>, z, << c >> \o (<< t >> \o z))
      BY Two
    <3>2. QED
      BY <3>1
  <2>3. PICK v \in Seq(Pieces) : v = y \o z
    BY Regrouped
  <2>4. Inside(node) = << r >> \o (IF node.executable THEN << e, w >> ELSE << >>) \o y
    BY <1>1, <1>4, <2>1, <2>2 DEF Inside, Contents
  <2>5. CASE node.executable
    <3>1. << e, w >> \in Seq(Pieces) /\ Unfolds(<< e, w >>, v, << e >> \o (<< w >> \o v))
      BY Two
    <3>2. PICK x \in Seq(Pieces) : x = << e, w >> /\ Unfolds(x, v, << e >> \o (<< w >> \o v))
      BY <3>1
    <3>3. Inside(node) = (<< r >> \o x) \o y
      BY <2>4, <2>5, <3>2
    <3>4. << r >> \o x \in Seq(Pieces) /\ << r >> \in Seq(Pieces)
      BY Cons
    <3>5. (<< r >> \o x) \o y \in Seq(Pieces) /\ ((<< r >> \o x) \o y) \o z = (<< r >> \o x) \o v
      BY <2>3, <3>4, Regrouped
    <3>6. (<< r >> \o x) \o v = << r >> \o (x \o v)
      BY <3>4, Regrouped
    <3>7. Inside(node) \o z = << r >> \o (<< e >> \o (<< w >> \o v))
      BY <3>2, <3>3, <3>5, <3>6 DEF Unfolds
    <3>8. v = << c >> \o (<< t >> \o z)
      BY <2>2, <2>3 DEF Unfolds
    <3>9. QED
      BY <1>1, <1>2, <1>3, <1>4, <2>1, <2>5, <3>3, <3>5, <3>7, <3>8
  <2>6. CASE ~ node.executable
    <3>1. Inside(node) = (<< r >> \o << >>) \o y
      BY <2>4, <2>6
    <3>2. Inside(node) = << r >> \o y /\ << r >> \in Seq(Pieces)
      BY <3>1
    <3>3. << r >> \o y \in Seq(Pieces) /\ (<< r >> \o y) \o z = << r >> \o v
      BY <2>3, <3>2, Regrouped
    <3>4. v = << c >> \o (<< t >> \o z)
      BY <2>2, <2>3 DEF Unfolds
    <3>5. QED
      BY <1>1, <1>2, <1>3, <1>4, <2>1, <2>6, <3>2, <3>3, <3>4
  <2>7. QED
    BY <2>5, <2>6
<1>5. CASE node.kind = "symlink"
  <2>1. PICK t \in Pieces : t = Str(node.target, 1)
    BY <1>2, <1>5, StrIsPiece
  <2>2. Inside(node) = << l, g, t >>
    BY <1>1, <1>5, <2>1 DEF Inside
  <2>3. /\ << l, g, t >> \in Seq(Pieces)
        /\ Unfolds(<< l, g, t >>, z, << l >> \o (<< g >> \o (<< t >> \o z)))
    BY Three
  <2>4. Inside(node) \o z = << l >> \o (<< g >> \o (<< t >> \o z)) /\ Inside(node) \in Seq(Pieces)
    BY <2>2, <2>3 DEF Unfolds
  <2>5. QED
    BY <1>1, <1>2, <1>3, <1>5, <2>1, <2>4
<1>6. CASE node.kind = "directory"
  <2>1. Inside(node) = << d >>
    BY <1>1, <1>6 DEF Inside
  <2>2. << d >> \in Seq(Pieces)
    OBVIOUS
  <2>3. QED
    BY <1>1, <1>2, <1>3, <1>6, <2>1, <2>2
<1>7. QED
  BY <1>2, <1>4, <1>5, <1>6

\* What a named entry of a directory begins with, in front of what follows its tag.
LEMMA NamingIs ==
    ASSUME NEW name \in STRING, NEW z \in Seq(Pieces)
    PROVE  /\ Naming(name) \in Seq(Pieces)
           /\ Str(name, 1) \in Pieces
           /\ Naming(name) \o z = << Tag("entry") >> \o (<< Tag("(") >> \o
                (<< Tag("name") >> \o (<< Str(name, 1) >> \o (<< Tag("node") >> \o z))))
<1>1. PICK e \in Pieces, a \in Pieces, m \in Pieces, s \in Pieces, d \in Pieces :
        /\ e = Tag("entry") /\ a = Tag("(") /\ m = Tag("name") /\ s = Str(name, 1)
        /\ d = Tag("node")
  BY TagIsPiece, StrIsPiece DEF Words
<1>2. Naming(name) = << e, a, m, s, d >>
  BY <1>1 DEF Naming
<1>3. /\ << e, a, m, s, d >> \in Seq(Pieces)
      /\ Unfolds(<< e, a, m, s, d >>, z,
                 << e >> \o (<< a >> \o (<< m >> \o (<< s >> \o (<< d >> \o z)))))
  BY Five
<1>4. QED
  BY <1>1, <1>2, <1>3 DEF Unfolds

\* A Nar ends no more than it has begun.
LEMMA NarIs ==
    ASSUME NEW n, IsNar(n), NEW i \in 1 .. Len(n)
    PROVE  /\ Len(n) \in Nat
           /\ n[i].depth \in Nat /\ n[i].name \in STRING /\ n[i].node \in Node
           /\ i < Len(n) =>
                /\ i + 1 \in 1 .. Len(n)
                /\ n[i + 1].depth \in 1 .. n[i].depth + 1
                /\ n[i + 1].depth = n[i].depth + 1 => n[i].node = DirNode
           /\ Due(n, i, n[i].depth) \in Nat
<1> DEFINE E == [depth : Nat, name : STRING, node : Node]
<1>1. n \in Seq(E)
  BY DEF IsNar
<1> HIDE DEF E
<1>2. Len(n) \in Nat /\ \A j \in 1 .. Len(n) : n[j] \in E
  BY <1>1
<1>3. PICK l \in Nat, x \in E : l = Len(n) /\ x = n[i]
  BY <1>2
<1>4. x.depth \in Nat /\ x.name \in STRING /\ x.node \in Node /\ i \in Nat /\ i <= l
  BY <1>3 DEF E
<1>5. CASE i = l
  BY <1>3, <1>4, <1>5 DEF Due
<1>6. CASE i # l
  <2>1. i + 1 \in 2 .. l /\ i + 1 \in 1 .. l /\ (i + 1) - 1 = i /\ i < l
    BY <1>4, <1>6
  <2>2. PICK y \in E : y = n[i + 1]
    BY <1>2, <1>3, <2>1
  <2>3. y.depth > 0 /\ y.depth <= x.depth + 1 /\ (y.depth = x.depth + 1 => x.node = DirNode)
    BY <1>3, <2>1, <2>2 DEF IsNar
  <2>4. y.depth \in 1 .. x.depth + 1
    BY <1>4, <2>2, <2>3 DEF E
  <2>5. Due(n, i, x.depth) = 2 * (x.depth + 1 - y.depth)
    BY <1>3, <1>6, <2>2 DEF Due
  <2>6. QED
    BY <1>3, <1>4, <2>1, <2>2, <2>3, <2>4, <2>5
<1>7. QED
  BY <1>5, <1>6

\* What follows when all that ends after the i-th entry has been closed.
Onward(n, i) ==
    IF i = Len(n) THEN << >>
    ELSE Naming(n[i + 1].name) \o Opening(n[i + 1].node) \o After(n)[i + 1]

\* After is what its equation says.
LEMMA AfterIs ==
    ASSUME NEW n, IsNar(n)
    PROVE  \A i \in 1 .. Len(n) :
             /\ After(n)[i] \in Seq(Pieces)
             /\ Onward(n, i) \in Seq(Pieces)
             /\ After(n)[i] = Closing(Due(n, i, n[i].depth)) \o Onward(n, i)
<1> DEFINE V == Seq(Pieces)
           L == Len(n)
           Then(i, v) == Closing(Due(n, i, n[i].depth))
                           \o IF i = L THEN << >>
                              ELSE Naming(n[i + 1].name) \o Opening(n[i + 1].node) \o v
           More(i, v) == IF i = L THEN << >>
                         ELSE Naming(n[i + 1].name) \o Opening(n[i + 1].node) \o v
<1>1. L \in Nat \ {0}
  BY EmptySeq DEF IsNar
<1>2. \A i \in 1 .. L, v \in V : More(i, v) \in V
  <2>1. SUFFICES ASSUME NEW i \in 1 .. L, NEW v \in V, i # L
                 PROVE  Naming(n[i + 1].name) \o Opening(n[i + 1].node) \o v \in V
    OBVIOUS
  <2>2. i + 1 \in 1 .. L
    BY <1>1, <2>1
  <2>3. n[i + 1].name \in STRING /\ n[i + 1].node \in Node
    BY <2>2, NarIs
  <2>4. Naming(n[i + 1].name) \in V /\ Opening(n[i + 1].node) \in V
    BY <2>3, NamingIs, InsideIs
  <2>5. QED
    BY <2>4, ConcatProperties
<1>3. \A i \in 1 .. L, v \in V : Then(i, v) \in V
  <2>1. SUFFICES ASSUME NEW i \in 1 .. L, NEW v \in V PROVE Then(i, v) \in V
    OBVIOUS
  <2>2. Then(i, v) = Closing(Due(n, i, n[i].depth)) \o More(i, v)
    OBVIOUS
  <2>3. Due(n, i, n[i].depth) \in Nat
    BY NarIs
  <2>4. Closing(Due(n, i, n[i].depth)) \in V
    BY <2>3, ClosingIs
  <2> HIDE DEF Then, More
  <2>5. QED
    BY <1>2, <2>2, <2>4, ConcatProperties
<1>4. \A v, w : Then(L, v) = Then(L, w)
  OBVIOUS
<1> DEFINE Eq(f) == f = [ i \in 1 .. L |-> Then(i, f[i + 1]) ]
           f0 == After(n)
<1>5. f0 = CHOOSE f : Eq(f)
  BY DEF After
<1> HIDE DEF Then, V, L, f0
<1> DEFINE S == { k \in 0 .. L - 1 :
                    \E g \in [ L - k .. L -> V ] : \A i \in L - k .. L : g[i] = Then(i, g[i + 1]) }
<1>6. \A k \in 0 .. L - 1 : k \in S
  <2>1. 0 \in S
    <3>1. << >> \in V
      BY DEF V
    <3> DEFINE g == [ i \in L .. L |-> Then(L, << >>) ]
    <3>2. L \in 1 .. L /\ Then(L, << >>) \in V
      BY <1>1, <1>3, <3>1
    <3>3. g \in [ L .. L -> V ]
      BY <3>2
    <3>4. \A i \in L .. L : i = L /\ g[i] = Then(L, << >>)
      BY <1>1
    <3> HIDE DEF g
    <3>5. \A i \in L .. L : g[i] = Then(i, g[i + 1])
      BY <1>4, <3>4
    <3>6. L - 0 = L /\ 0 \in 0 .. L - 1
      BY <1>1
    <3>7. QED
      BY <3>3, <3>5, <3>6
  <2>2. ASSUME NEW k \in 0 .. L - 1 - 1, k \in S PROVE k + 1 \in S
    <3>1. PICK m \in 1 .. L : m = L - (k + 1) /\ m + 1 = L - k /\ m + 1 \in 1 .. L
      BY <1>1
    <3>2. PICK g \in [ m + 1 .. L -> V ] : \A i \in m + 1 .. L : g[i] = Then(i, g[i + 1])
      BY <2>2, <3>1
    <3> DEFINE h == [ i \in m .. L |-> IF i = m THEN Then(m, g[m + 1]) ELSE g[i] ]
    <3>3. m \in Int /\ L \in Int /\ m + 1 \in m + 1 .. L /\ m < L
      BY <1>1, <3>1
    <3>4. Then(m, g[m + 1]) \in V
      BY <1>3, <3>3
    <3>5. h \in [ m .. L -> V ]
      <4>1. ASSUME NEW i \in m .. L PROVE h[i] \in V
        <5>1. i # m => i \in m + 1 .. L
          BY <3>3
        <5>2. QED
          BY <3>4, <5>1
      <4>2. QED
        BY <4>1
    <3>6. h[m] = Then(m, g[m + 1]) /\ \A i \in m + 1 .. L : h[i] = g[i]
      BY <3>3
    <3> HIDE DEF h
    <3>7. ASSUME NEW i \in m .. L PROVE h[i] = Then(i, h[i + 1])
      <4>1. CASE i = m
        BY <3>3, <3>6, <4>1
      <4>2. CASE i = L
        <5>1. h[L] = Then(L, g[L + 1])
          BY <3>2, <3>3, <3>6
        <5>2. QED
          BY <1>4, <4>2, <5>1
      <4>3. CASE i # m /\ i # L
        <5>1. i \in m + 1 .. L /\ i + 1 \in m + 1 .. L
          BY <3>3, <4>3
        <5>2. h[i] = g[i] /\ h[i + 1] = g[i + 1]
          BY <3>6, <5>1
        <5>3. QED
          BY <3>2, <5>1, <5>2
      <4>4. QED
        BY <4>1, <4>2, <4>3
    <3>8. k + 1 \in 0 .. L - 1
      BY <1>1
    <3>9. QED
      BY <3>1, <3>5, <3>7, <3>8
  <2>3. L - 1 \in Nat
    BY <1>1
  <2> HIDE DEF S
  <2>4. QED
    BY <2>1, <2>2, <2>3, UpTo
<1>7. PICK g \in [ 1 .. L -> V ] : \A i \in 1 .. L : g[i] = Then(i, g[i + 1])
  <2>1. L - 1 \in 0 .. L - 1 /\ L - (L - 1) = 1
    BY <1>1
  <2>2. QED
    BY <1>6, <2>1
<1>8. Eq(g)
  BY <1>7
<1>9. Eq(f0)
  BY <1>5, <1>8
<1>10. \A i \in 1 .. L : f0[i] = Then(i, f0[i + 1])
  BY <1>9, Zenon
<1> DEFINE T == { k \in 0 .. L - 1 : f0[L - k] \in V }
<1>11. \A k \in 0 .. L - 1 : k \in T
  <2>1. 0 \in T
    <3>1. << >> \in V /\ L \in 1 .. L /\ L - 0 = L /\ 0 \in 0 .. L - 1
      BY <1>1 DEF V
    <3>2. f0[L] = Then(L, << >>)
      BY <1>4, <1>10, <3>1, Zenon
    <3>3. QED
      BY <1>3, <3>1, <3>2
  <2>2. ASSUME NEW k \in 0 .. L - 1 - 1, k \in T PROVE k + 1 \in T
    <3>1. PICK m \in 1 .. L : m = L - (k + 1) /\ m + 1 = L - k
      BY <1>1
    <3>2. f0[m] = Then(m, f0[m + 1]) /\ f0[m + 1] \in V /\ k + 1 \in 0 .. L - 1
      BY <1>1, <1>10, <2>2, <3>1
    <3>3. QED
      BY <1>3, <3>1, <3>2
  <2>3. L - 1 \in Nat
    BY <1>1
  <2> HIDE DEF T
  <2>4. QED
    BY <2>1, <2>2, <2>3, UpTo
<1>12. \A i \in 1 .. L : f0[i] \in V
  <2>1. ASSUME NEW i \in 1 .. L PROVE f0[i] \in V
    <3>1. L - i \in 0 .. L - 1 /\ L - (L - i) = i
      BY <1>1
    <3>2. QED
      BY <1>11, <3>1
  <2>2. QED
    BY <2>1
<1>13. ASSUME NEW i \in 1 .. L
       PROVE  Onward(n, i) \in V /\ f0[i] = Closing(Due(n, i, n[i].depth)) \o Onward(n, i)
  <2>1. f0[i] = Then(i, f0[i + 1])
    BY <1>10
  <2>2. Onward(n, i) = More(i, f0[i + 1])
    BY DEF Onward, f0, L
  <2>3. f0[i] = Closing(Due(n, i, n[i].depth)) \o Onward(n, i)
    BY <2>1, <2>2 DEF Then
  <2>4. More(i, f0[i + 1]) \in V
    <3>1. CASE i = L
      BY <3>1 DEF V
    <3>2. CASE i # L
      <4>1. i + 1 \in 1 .. L
        BY <1>1, <3>2
      <4> HIDE DEF More
      <4>2. QED
        BY <1>2, <1>12, <4>1
    <3>3. QED
      BY <3>1, <3>2
  <2>5. QED
    BY <2>2, <2>3, <2>4
<1>14. QED
  BY <1>12, <1>13 DEF f0, V, L

-----------------------------------------------------------------------------
\* The ends of entries.

LEMMA Levels ==
    ASSUME NEW d \in Nat, NEW y \in Nat, y > 0, 2 * ((d + 1) - y) >= 0
    PROVE  /\ 2 * ((d + 1) - y) \in Nat
           /\ 2 * ((d + 1) - y) > 0 => d # 0
           /\ 2 * ((d + 1) - y) > 0 => 2 * (d - y) \in Nat
           /\ 2 * (d - y) + 1 = 2 * ((d + 1) - y) - 1
           /\ 2 * ((d + 1) - y) = 0 => y = d + 1
  OBVIOUS

\* What is still to be closed, at a depth that the i-th entry is in, is one end more
\* than at the depth above it, or the end of the Nar; or else the next entry is here.
LEMMA DueIs ==
    ASSUME NEW n, IsNar(n), NEW i \in 1 .. Len(n), NEW d \in 0 .. n[i].depth, Due(n, i, d) >= 0
    PROVE  /\ Due(n, i, d) \in Nat
           /\ Due(n, i, d) > 0 /\ d = 0 => i = Len(n) /\ Due(n, i, d) = 1
           /\ Due(n, i, d) > 0 /\ d > 0 =>
                Due(n, i, d - 1) \in Nat /\ Due(n, i, d - 1) + 1 = Due(n, i, d) - 1
           /\ Due(n, i, d) = 0 => i < Len(n) /\ n[i + 1].depth = d + 1
<1>1. PICK l \in Nat, x \in Nat : l = Len(n) /\ x = n[i].depth
  BY NarIs
<1>2. d \in Nat /\ d <= x /\ i \in Nat /\ i <= l
  BY <1>1
<1>3. CASE i = l
  <2>1. Due(n, i, d) = 2 * d + 1 /\ Due(n, i, d - 1) = 2 * (d - 1) + 1
    BY <1>1, <1>3 DEF Due
  <2>2. QED
    BY <1>1, <1>2, <1>3, <2>1
<1>4. CASE i # l
  <2>1. PICK y \in Nat : y = n[i + 1].depth /\ y > 0 /\ i < l
    <3>1. i < Len(n)
      BY <1>1, <1>2, <1>4
    <3>2. n[i + 1].depth \in 1 .. n[i].depth + 1
      BY <3>1, NarIs
    <3>3. QED
      BY <1>1, <3>1, <3>2
  <2>2. Due(n, i, d) = 2 * (d + 1 - y) /\ Due(n, i, d - 1) = 2 * ((d - 1) + 1 - y)
    BY <1>1, <1>4, <2>1 DEF Due
  <2>3. d \in Nat /\ Due(n, i, d) = 2 * ((d + 1) - y) /\ Due(n, i, d - 1) = 2 * (d - y)
    <3>1. (d - 1) + 1 = d
      BY <1>2
    <3>2. QED
      BY <1>2, <2>2, <3>1
  <2>4. 2 * ((d + 1) - y) >= 0
    BY <2>3
  <2>5. /\ 2 * ((d + 1) - y) \in Nat
        /\ 2 * ((d + 1) - y) > 0 => d # 0
        /\ 2 * ((d + 1) - y) > 0 => 2 * (d - y) \in Nat
        /\ 2 * (d - y) + 1 = 2 * ((d + 1) - y) - 1
        /\ 2 * ((d + 1) - y) = 0 => y = d + 1
    BY <2>1, <2>3, <2>4, Levels, Zenon
  <2>6. QED
    BY <1>1, <2>1, <2>3, <2>5, Zenon
<1>5. QED
  BY <1>3, <1>4

\* An entry that is no directory ends before the next one begins.
LEMMA LeafEnds ==
    ASSUME NEW n, IsNar(n), NEW i \in 1 .. Len(n), n[i].node # DirNode
    PROVE  Due(n, i, n[i].depth) > 0
<1>1. PICK l \in Nat, x \in Nat : l = Len(n) /\ x = n[i].depth
  BY NarIs
<1>2. CASE i = l
  BY <1>1, <1>2 DEF Due
<1>3. CASE i # l
  <2>1. i < Len(n)
    BY <1>1, <1>3
  <2>2. n[i + 1].depth \in 1 .. n[i].depth + 1 /\ n[i + 1].depth # n[i].depth + 1
    BY <2>1, NarIs
  <2>3. PICK y \in Nat : y = n[i + 1].depth /\ y <= x
    BY <1>1, <2>2
  <2>4. Due(n, i, x) = 2 * (x + 1 - y)
    BY <1>1, <1>3, <2>3 DEF Due
  <2>5. QED
    BY <1>1, <2>3, <2>4
<1>4. QED
  BY <1>2, <1>3

LEMMA ClosesOne ==
    ASSUME NEW k \in Nat, NEW z \in Seq(Pieces)
    PROVE  /\ Closing(k) \o z \in Seq(Pieces)
           /\ Closing(0) \o z = z
           /\ Closing(k + 1) \o z = << Tag(")") >> \o (Closing(k) \o z)
<1>1. PICK c \in Seq(Pieces), x \in Pieces : c = Closing(k) /\ x = Tag(")")
  BY ClosingIs, TagIsPiece DEF Words
<1>2. << x >> \in Seq(Pieces)
  OBVIOUS
<1>3. (<< x >> \o c) \o z = << x >> \o (c \o z) /\ c \o z \in Seq(Pieces)
  BY <1>2, Regrouped
<1>4. Closing(0) \o z = z
  <2>1. Closing(0) = << >>
    BY ClosingIs
  <2>2. << >> \o z = z
    OBVIOUS
  <2>3. QED
    BY <2>1, <2>2
<1>5. Closing(k + 1) = << x >> \o c
  BY <1>1, ClosingIs, Zenon
<1>6. QED
  BY <1>1, <1>3, <1>4, <1>5

\* What comes next of an archive, and what follows it.
LEMMA OnwardIs ==
    ASSUME NEW n, IsNar(n), NEW i \in 1 .. Len(n), i < Len(n)
    PROVE  /\ Opening(n[i + 1].node) \o After(n)[i + 1] \in Seq(Pieces)
           /\ Str(n[i + 1].name, 1) \in Pieces
           /\ Onward(n, i) =
                << Tag("entry") >> \o (<< Tag("(") >> \o (<< Tag("name") >> \o
                  (<< Str(n[i + 1].name, 1) >> \o (<< Tag("node") >> \o
                    (Opening(n[i + 1].node) \o After(n)[i + 1])))))
<1>1. PICK j \in 1 .. Len(n) : j = i + 1
  BY NarIs
<1>2. PICK a \in Seq(Pieces), o \in Seq(Pieces), m \in Seq(Pieces) :
        a = After(n)[j] /\ o = Opening(n[j].node) /\ m = Naming(n[j].name)
  <2>1. n[j].node \in Node /\ n[j].name \in STRING
    BY NarIs
  <2>2. Opening(n[j].node) \in Seq(Pieces) /\ Naming(n[j].name) \in Seq(Pieces)
    BY <2>1, InsideIs, NamingIs, EmptySeq
  <2>3. QED
    BY <2>2, AfterIs
<1>3. Onward(n, i) = (m \o o) \o a
  <2>1. i # Len(n)
    BY NarIs
  <2>2. QED
    BY <1>1, <1>2, <2>1 DEF Onward
<1>4. (m \o o) \o a = m \o (o \o a) /\ o \o a \in Seq(Pieces)
  BY Regrouped
<1>5. n[j].name \in STRING
  BY NarIs
<1>6. /\ Str(n[j].name, 1) \in Pieces
      /\ m \o (o \o a) = << Tag("entry") >> \o (<< Tag("(") >> \o
           (<< Tag("name") >> \o (<< Str(n[j].name, 1) >> \o (<< Tag("node") >> \o (o \o a)))))
  BY <1>2, <1>4, <1>5, NamingIs
<1>7. QED
  BY <1>1, <1>2, <1>3, <1>4, <1>6

-----------------------------------------------------------------------------
\* The sink, when it holds the entries before the i-th, and of the i-th this much.
EntryAs(n, i, node) == [depth |-> n[i].depth, name |-> n[i].name, node |-> node]

Put(n, i, node) == SubSeq(n, 1, i - 1) \o << EntryAs(n, i, node) >>

\* Its last node, changed.
Changed(q, i, node) == [q EXCEPT ![i].node = node]

\* The last of a sequence, changed.
LEMMA LastChanged ==
    ASSUME NEW S, NEW s \in Seq(S), NEW x, NEW y
    PROVE  /\ Len(s \o << x >>) = Len(s) + 1
           /\ (s \o << x >>)[Len(s) + 1] = x
           /\ [(s \o << x >>) EXCEPT ![Len(s) + 1] = y] = s \o << y >>
<1> DEFINE T == S \cup { x, y }
<1>1. s \in Seq(T) /\ x \in T /\ y \in T
  OBVIOUS
<1> HIDE DEF T
<1>2. PICK k \in Nat : k = Len(s)
  OBVIOUS
<1>3. PICK p \in Seq(T), q \in Seq(T) : p = s \o << x >> /\ q = s \o << y >>
  <2>1. << x >> \in Seq(T) /\ << y >> \in Seq(T)
    BY <1>1
  <2>2. s \o << x >> \in Seq(T) /\ s \o << y >> \in Seq(T)
    BY <1>1, <2>1, ConcatProperties
  <2>3. QED
    BY <2>2
<1>4. /\ Len(p) = k + 1 /\ p[k + 1] = x /\ \A j \in 1 .. k : p[j] = s[j]
      /\ Len(q) = k + 1 /\ q[k + 1] = y /\ \A j \in 1 .. k : q[j] = s[j]
  BY <1>1, <1>2, <1>3
<1>5. PICK r \in Seq(T) : r = [p EXCEPT ![k + 1] = y]
  <2>1. [p EXCEPT ![k + 1] = y] \in Seq(T)
    BY <1>1, <1>4, ExceptSeq
  <2>2. QED
    BY <2>1
<1>6. Len(r) = k + 1 /\ r[k + 1] = y /\ \A j \in 1 .. k : r[j] = s[j]
  BY <1>4, <1>5
<1>7. r = q
  <2>1. \A j \in 1 .. k + 1 : r[j] = q[j]
    <3>1. ASSUME NEW j \in 1 .. k + 1 PROVE r[j] = q[j]
      <4>1. j = k + 1 \/ j \in 1 .. k
        OBVIOUS
      <4>2. QED
        BY <1>4, <1>6, <4>1
    <3>2. QED
      BY <3>1
  <2>2. QED
    BY <1>4, <1>6, <2>1
<1>8. QED
  BY <1>2, <1>3, <1>4, <1>5, <1>7

LEMMA PrefixIs ==
    ASSUME NEW S, NEW s \in Seq(S), NEW k \in 0 .. Len(s)
    PROVE  SubSeq(s, 1, k) \in Seq(S) /\ Len(SubSeq(s, 1, k)) = k
<1>1. k \in Int /\ 1 \in Int /\ k - 1 + 1 = k /\ (1 <= k \/ k = 0)
  OBVIOUS
<1>2. \A j \in 1 .. k : s[j] \in S
  OBVIOUS
<1>3. /\ SubSeq(s, 1, k) \in Seq(S)
      /\ Len(SubSeq(s, 1, k)) = IF 1 <= k THEN k - 1 + 1 ELSE 0
  BY <1>1, <1>2, SubSeqProperties
<1>4. QED
  BY <1>1, <1>3

LEMMA PutIs ==
    ASSUME NEW n, IsNar(n), NEW i \in 1 .. Len(n), NEW node
    PROVE  /\ Len(Put(n, i, node)) = i
           /\ Put(n, i, node)[i].node = node
           /\ \A new : Changed(Put(n, i, node), i, new) = Put(n, i, new)
<1> DEFINE E == [depth : Nat, name : STRING, node : Node]
           x(a) == EntryAs(n, i, a)
<1>1. n \in Seq(E)
  BY DEF IsNar
<1> HIDE DEF E
<1>2. i - 1 \in 0 .. Len(n) /\ i \in Nat
  BY <1>1
<1>3. PICK s \in Seq(E) : s = SubSeq(n, 1, i - 1) /\ Len(s) = i - 1
  <2>1. SubSeq(n, 1, i - 1) \in Seq(E) /\ Len(SubSeq(n, 1, i - 1)) = i - 1
    BY <1>1, <1>2, PrefixIs
  <2>2. QED
    BY <2>1
<1>4. Len(s) + 1 = i
  BY <1>2, <1>3
<1>5. \A a : Put(n, i, a) = s \o << x(a) >>
  BY <1>3 DEF Put
<1>6. x(node).node = node /\ \A new : [x(node) EXCEPT !.node = new] = x(new)
  BY DEF EntryAs
<1> HIDE DEF x
<1>7. Len(Put(n, i, node)) = i /\ Put(n, i, node)[i] = x(node)
  <2>1. /\ Len(s \o << x(node) >>) = Len(s) + 1
        /\ (s \o << x(node) >>)[Len(s) + 1] = x(node)
    BY LastChanged
  <2>2. QED
    BY <1>4, <1>5, <2>1
<1>8. ASSUME NEW new PROVE Changed(Put(n, i, node), i, new) = Put(n, i, new)
  <2>1. [(s \o << x(node) >>) EXCEPT ![Len(s) + 1] = x(new)] = s \o << x(new) >>
    BY LastChanged
  <2>2. [Put(n, i, node) EXCEPT ![i] = x(new)] = Put(n, i, new)
    BY <1>4, <1>5, <2>1
  <2>3. [Put(n, i, node) EXCEPT ![i].node = new]
          = [Put(n, i, node) EXCEPT ![i] = [Put(n, i, node)[i] EXCEPT !.node = new]]
    OBVIOUS
  <2>4. QED
    BY <1>6, <1>7, <2>2, <2>3 DEF Changed
<1>9. QED
  BY <1>6, <1>7, <1>8

LEMMA PutChanged ==
    ASSUME NEW n, IsNar(n), NEW i \in 1 .. Len(n), NEW node, NEW new
    PROVE  Changed(Put(n, i, node), i, new) = Put(n, i, new)
  BY PutIs

LEMMA PutSizes ==
    ASSUME NEW n, IsNar(n), NEW i \in 1 .. Len(n), NEW node
    PROVE  Len(Put(n, i, node)) = i /\ Put(n, i, node)[i].node = node
  BY PutIs

\* The first of a Nar,
LEMMA PutFirst ==
    ASSUME NEW n, IsNar(n), NEW node
    PROVE  Put(n, 1, node) = << [depth |-> 0, name |-> "", node |-> node] >>
<1>1. SubSeq(n, 1, 1 - 1) = << >>
  <2>1. 1 - 1 \in Int /\ 1 - 1 < 1
    OBVIOUS
  <2>2. QED
    BY <2>1, SubSeqEmpty
<1>2. EntryAs(n, 1, node) = [depth |-> 0, name |-> "", node |-> node]
  BY DEF IsNar, EntryAs
<1>3. ASSUME NEW e PROVE << >> \o << e >> = << e >>
  <2>1. << e >> \in Seq({ e })
    OBVIOUS
  <2>2. QED
    BY <2>1, ConcatEmptySeq
<1>4. QED
  BY <1>1, <1>2, <1>3 DEF Put

\* all of it,
LEMMA PutWhole ==
    ASSUME NEW n, IsNar(n), NEW i \in 1 .. Len(n)
    PROVE  /\ Put(n, i, n[i].node) = SubSeq(n, 1, i)
           /\ SubSeq(n, 1, Len(n)) = n
<1> DEFINE E == [depth : Nat, name : STRING, node : Node]
<1>1. n \in Seq(E)
  BY DEF IsNar
<1>2. \A e \in E : e = [depth |-> e.depth, name |-> e.name, node |-> e.node]
  OBVIOUS
<1> HIDE DEF E
<1>3. n[i] \in E /\ 1 \in 1 .. Len(n) /\ i \in 1 .. Len(n)
  BY <1>1
<1>4. EntryAs(n, i, n[i].node) = n[i]
  BY <1>2, <1>3 DEF EntryAs
<1>5. SubSeq(n, 1, i) = SubSeq(n, 1, i - 1) \o << n[i] >>
  BY <1>1, <1>3, SubSeqRecursiveSecond
<1>6. SubSeq(n, 1, Len(n)) = n
  BY <1>1, SubSeqFull
<1>7. QED
  BY <1>4, <1>5, <1>6 DEF Put

\* and one entry more.
LEMMA PutNext ==
    ASSUME NEW n, IsNar(n), NEW i \in 1 .. Len(n), i < Len(n), NEW node
    PROVE  Append(Put(n, i, n[i].node), EntryAs(n, i + 1, node)) = Put(n, i + 1, node)
<1> DEFINE E == [depth : Nat, name : STRING, node : Node]
<1>1. n \in Seq(E)
  BY DEF IsNar
<1> HIDE DEF E
<1>2. (i + 1) - 1 = i /\ i \in 0 .. Len(n)
  BY <1>1
<1>3. PICK r \in Seq(E) : r = SubSeq(n, 1, i)
  <2>1. SubSeq(n, 1, i) \in Seq(E)
    BY <1>1, <1>2, PrefixIs
  <2>2. QED
    BY <2>1
<1>4. Put(n, i, n[i].node) = r /\ Put(n, i + 1, node) = r \o << EntryAs(n, i + 1, node) >>
  BY <1>2, <1>3, PutWhole DEF Put
<1>5. QED
  BY <1>4

\* A file in the making.
WithExecutable(node, b) == [node EXCEPT !.executable = b]
WithText(node, text)    == [node EXCEPT !.text = text]
WithLen(node, len)      == [node EXCEPT !.len = len]

LEMMA ExecutableChanges ==
    ASSUME NEW e, NEW text, NEW len, NEW k, NEW f
    PROVE  [[kind |-> k, executable |-> f, text |-> text, len |-> len] EXCEPT !.executable = e]
             = [kind |-> k, executable |-> e, text |-> text, len |-> len]
  OBVIOUS

LEMMA ExecutableSet == WithExecutable(DefaultNode, TRUE) = FileNode(TRUE, "", 0)
<1>1. \A b \in BOOLEAN, c \in BOOLEAN : WithExecutable(FileNode(b, "", 0), c) = FileNode(c, "", 0)
  BY ExecutableChanges, Zenon DEF FileNode, WithExecutable
<1>2. QED
  BY <1>1 DEF DefaultNode

LEMMA TextSet ==
    ASSUME NEW e, NEW text, NEW len, NEW new
    PROVE  WithText(FileNode(e, text, len), new) = FileNode(e, new, len)
<1>1. ASSUME NEW k
      PROVE  [[kind |-> k, executable |-> e, text |-> text, len |-> len] EXCEPT !.text = new]
               = [kind |-> k, executable |-> e, text |-> new, len |-> len]
  OBVIOUS
<1>2. QED
  BY <1>1, Zenon DEF FileNode, WithText

LEMMA LenSet ==
    ASSUME NEW e, NEW text, NEW len, NEW new
    PROVE  WithLen(FileNode(e, text, len), new) = FileNode(e, text, new)
<1>1. ASSUME NEW k
      PROVE  [[kind |-> k, executable |-> e, text |-> text, len |-> len] EXCEPT !.len = new]
               = [kind |-> k, executable |-> e, text |-> text, len |-> new]
  OBVIOUS
<1>2. QED
  BY <1>1, Zenon DEF FileNode, WithLen

-----------------------------------------------------------------------------
\* What is still to come of an archive: from where the i-th entry is written,
Written(n, i) == Opening(n[i].node) \o After(n)[i]
Kind(n, i)    == Inside(n[i].node) \o After(n)[i]
Text(n, i)    == << Str(n[i].node.text, n[i].node.len) >> \o After(n)[i]
Texts(n, i)   == << Tag("contents") >> \o Text(n, i)
Flag(n, i)    == << Tag("") >> \o Texts(n, i)
Link(n, i)    == << Str(n[i].node.target, 1) >> \o After(n)[i]
Named(n, i)   == << Str(n[i].name, 1) >> \o (<< Tag("node") >> \o Written(n, i))

\* and from the ends after it, k of them.
Shut(n, i, k) == Closing(k) \o Onward(n, i)

LEMMA WrittenIs ==
    ASSUME NEW n, IsNar(n), NEW i \in 1 .. Len(n)
    PROVE  /\ After(n)[i] \in Seq(Pieces)
           /\ Written(n, i) \in Seq(Pieces)
           /\ Kind(n, i) \in Seq(Pieces)
           /\ << Tag("type") >> \o Kind(n, i) \in Seq(Pieces)
           /\ Written(n, i) = << Tag("(") >> \o (<< Tag("type") >> \o Kind(n, i))
<1>1. PICK a \in Seq(Pieces), x \in Pieces : a = After(n)[i] /\ x = Tag("type")
  BY AfterIs, TagIsPiece DEF Words
<1>2. n[i].node \in Node
  BY NarIs
<1>3. PICK o \in Seq(Pieces), k \in Seq(Pieces) : o = Opening(n[i].node) /\ k = Inside(n[i].node)
  BY <1>2, InsideIs, EmptySeq
<1>4. o \o a \in Seq(Pieces) /\ k \o a \in Seq(Pieces)
  BY ConcatProperties
<1>5. << x >> \o (k \o a) \in Seq(Pieces)
  BY <1>4, Cons
<1>6. o \o a = << Tag("(") >> \o (<< Tag("type") >> \o (k \o a))
  BY <1>2, <1>3, InsideIs
<1>7. QED
  BY <1>1, <1>3, <1>4, <1>5, <1>6 DEF Written, Kind

LEMMA FileIs ==
    ASSUME NEW n, IsNar(n), NEW i \in 1 .. Len(n), n[i].node.kind = "file"
    PROVE  /\ Str(n[i].node.text, n[i].node.len) \in Pieces
           /\ Text(n, i) \in Seq(Pieces)
           /\ Texts(n, i) \in Seq(Pieces)
           /\ Flag(n, i) \in Seq(Pieces)
           /\ n[i].node.executable \in BOOLEAN
           /\ n[i].node = FileNode(n[i].node.executable, n[i].node.text, n[i].node.len)
           /\ n[i].node # DirNode
           /\ Kind(n, i) = << Tag("regular") >> \o
                IF n[i].node.executable THEN << Tag("executable") >> \o Flag(n, i) ELSE Texts(n, i)
<1>1. PICK a \in Seq(Pieces), x \in Pieces, y \in Pieces, node \in Node :
        a = After(n)[i] /\ x = Tag("contents") /\ y = Tag("") /\ node = n[i].node
  BY AfterIs, NarIs, TagIsPiece DEF Words
<1>2. /\ node.text \in STRING /\ node.len \in Nat /\ node.executable \in BOOLEAN
      /\ node = FileNode(node.executable, node.text, node.len) /\ node # DirNode
      /\ Inside(node) \o a = << Tag("regular") >> \o
           IF node.executable
             THEN << Tag("executable") >> \o (<< Tag("") >> \o
                  (<< Tag("contents") >> \o (<< Str(node.text, node.len) >> \o a)))
             ELSE << Tag("contents") >> \o (<< Str(node.text, node.len) >> \o a)
  BY <1>1, InsideIs
<1>3. PICK p \in Pieces : p = Str(node.text, node.len)
  BY <1>2, StrIsPiece
<1>4. << p >> \o a \in Seq(Pieces)
  BY Cons
<1>5. << x >> \o (<< p >> \o a) \in Seq(Pieces)
  BY <1>4, Cons
<1>6. << y >> \o (<< x >> \o (<< p >> \o a)) \in Seq(Pieces)
  BY <1>5, Cons
<1>7. QED
  BY <1>1, <1>2, <1>3, <1>4, <1>5, <1>6 DEF Kind, Text, Texts, Flag

LEMMA LinkIs ==
    ASSUME NEW n, IsNar(n), NEW i \in 1 .. Len(n), n[i].node.kind = "symlink"
    PROVE  /\ Str(n[i].node.target, 1) \in Pieces
           /\ Str(n[i].node.target, 1).text = n[i].node.target
           /\ Link(n, i) \in Seq(Pieces)
           /\ << Tag("target") >> \o Link(n, i) \in Seq(Pieces)
           /\ n[i].node = SymlinkNode(n[i].node.target)
           /\ n[i].node # DirNode
           /\ Kind(n, i) = << Tag("symlink") >> \o (<< Tag("target") >> \o Link(n, i))
<1>1. PICK a \in Seq(Pieces), x \in Pieces, node \in Node :
        a = After(n)[i] /\ x = Tag("target") /\ node = n[i].node
  BY AfterIs, NarIs, TagIsPiece DEF Words
<1>2. /\ node.target \in STRING /\ node = SymlinkNode(node.target) /\ node # DirNode
      /\ Inside(node) \o a = << Tag("symlink") >> \o
           (<< Tag("target") >> \o (<< Str(node.target, 1) >> \o a))
  BY <1>1, InsideIs
<1>3. PICK p \in Pieces : p = Str(node.target, 1) /\ p.text = node.target
  BY <1>2, StrIsPiece
<1>4. << p >> \o a \in Seq(Pieces)
  BY Cons
<1>5. << x >> \o (<< p >> \o a) \in Seq(Pieces)
  BY <1>4, Cons
<1>6. QED
  BY <1>1, <1>2, <1>3, <1>4, <1>5 DEF Kind, Link

LEMMA DirIs ==
    ASSUME NEW n, IsNar(n), NEW i \in 1 .. Len(n), n[i].node.kind = "directory"
    PROVE  n[i].node = DirNode /\ Kind(n, i) = << Tag("directory") >> \o After(n)[i]
<1>1. n[i].node \in Node /\ After(n)[i] \in Seq(Pieces)
  BY AfterIs, NarIs
<1>2. QED
  BY <1>1, InsideIs DEF Kind

LEMMA ShutIs ==
    ASSUME NEW n, IsNar(n), NEW i \in 1 .. Len(n), NEW k \in Nat
    PROVE  /\ Shut(n, i, k) \in Seq(Pieces)
           /\ Shut(n, i, k + 1) = << Tag(")") >> \o Shut(n, i, k)
           /\ Shut(n, i, 0) = Onward(n, i)
           /\ After(n)[i] = Shut(n, i, Due(n, i, n[i].depth))
<1>1. PICK z \in Seq(Pieces) : z = Onward(n, i)
  BY AfterIs
<1>2. /\ Closing(k) \o z \in Seq(Pieces)
      /\ Closing(0) \o z = z
      /\ Closing(k + 1) \o z = << Tag(")") >> \o (Closing(k) \o z)
  BY ClosesOne
<1>3. QED
  BY <1>1, <1>2, AfterIs DEF Shut

LEMMA NamedIs ==
    ASSUME NEW n, IsNar(n), NEW i \in 1 .. Len(n), i < Len(n)
    PROVE  /\ Str(n[i + 1].name, 1) \in Pieces
           /\ << Tag("node") >> \o Written(n, i + 1) \in Seq(Pieces)
           /\ Named(n, i + 1) \in Seq(Pieces)
           /\ << Tag("name") >> \o Named(n, i + 1) \in Seq(Pieces)
           /\ << Tag("(") >> \o (<< Tag("name") >> \o Named(n, i + 1)) \in Seq(Pieces)
           /\ Onward(n, i) =
                << Tag("entry") >> \o (<< Tag("(") >> \o (<< Tag("name") >> \o Named(n, i + 1)))
<1>1. PICK w \in Seq(Pieces), s \in Pieces, d \in Pieces, m \in Pieces, p \in Pieces :
        /\ w = Written(n, i + 1) /\ s = Str(n[i + 1].name, 1)
        /\ d = Tag("node") /\ m = Tag("name") /\ p = Tag("(")
  <2>1. Written(n, i + 1) \in Seq(Pieces) /\ Str(n[i + 1].name, 1) \in Pieces
    BY OnwardIs DEF Written
  <2>2. QED
    BY <2>1, TagIsPiece DEF Words
<1>2. << d >> \o w \in Seq(Pieces)
  BY Cons
<1>3. << s >> \o (<< d >> \o w) \in Seq(Pieces)
  BY <1>2, Cons
<1>4. << m >> \o (<< s >> \o (<< d >> \o w)) \in Seq(Pieces)
  BY <1>3, Cons
<1>5. << p >> \o (<< m >> \o (<< s >> \o (<< d >> \o w))) \in Seq(Pieces)
  BY <1>4, Cons
<1>6. Onward(n, i) =
        << Tag("entry") >> \o (<< Tag("(") >> \o (<< Tag("name") >> \o
          (<< Str(n[i + 1].name, 1) >> \o (<< Tag("node") >> \o Written(n, i + 1)))))
  BY OnwardIs DEF Written
<1>7. QED
  BY <1>1, <1>2, <1>3, <1>4, <1>5, <1>6 DEF Named

-----------------------------------------------------------------------------
\* Where the reader of an archive stands.

\* The sink holds the entries before the i-th, and of the i-th this much.
Made(n, i, node) == mode = "whole" => sink = Put(n, i, node)

\* The i-th entry is being read, and nothing is known of it but its place,
Begun(n, i) == depth = n[i].depth /\ Made(n, i, DefaultNode)

\* or it is a file that has contents still,
Filled(n, i) == Made(n, i, FileNode(n[i].node.executable, "", 0))

\* or it has been read, and the reader is in a directory that it is in, or that it is.
Enclosed(n, i) == depth \in 0 .. n[i].depth /\ Due(n, i, depth) >= 0 /\ Made(n, i, n[i].node)

\* Where the reader stands in the i-th entry, when z is still to come of the archive.
InFile(n, i, z) ==
    /\ n[i].node.kind = "file"
    /\ depth = n[i].depth
    /\ \/ /\ at = "file" /\ n[i].node.executable
          /\ Made(n, i, DefaultNode)
          /\ z = << Tag("executable") >> \o Flag(n, i)
       \/ /\ at = "exec" /\ n[i].node.executable
          /\ Made(n, i, DefaultNode)
          /\ z = Flag(n, i)
       \/ at = "file" /\ Filled(n, i) /\ z = Texts(n, i)
       \/ at \in { "contents", "piece" } /\ Filled(n, i) /\ z = Text(n, i)
       \/ at = "fileEnd" /\ Made(n, i, n[i].node) /\ z = After(n)[i]

InLink(n, i, z) ==
    /\ n[i].node.kind = "symlink"
    /\ Begun(n, i)
    /\ \/ at = "target" /\ z = << Tag("target") >> \o Link(n, i)
       \/ at = "link" /\ z = Link(n, i)
       \/ at = "linkEnd" /\ target = n[i].node.target /\ z = After(n)[i]

InDir(n, i, z) ==
    /\ Enclosed(n, i)
    /\ \/ at = "dir" /\ z = Shut(n, i, Due(n, i, depth))
       \/ at = "endEntry" /\ z = Shut(n, i, Due(n, i, depth) + 1)
       \/ /\ at \in { "entry", "name", "named" } /\ i < Len(n) /\ depth = n[i + 1].depth - 1
          /\ z = CASE at = "entry" -> << Tag("(") >> \o (<< Tag("name") >> \o Named(n, i + 1))
                   [] at = "name" -> << Tag("name") >> \o Named(n, i + 1)
                   [] at = "named" -> Named(n, i + 1)

Opened(n, i, z) ==
    \/ at = "archive" /\ i = 1 /\ Begun(n, i) /\ z = << Tag("nix-archive-1") >> \o Written(n, i)
    \/ /\ at = "node" /\ depth = n[i].depth - 1 /\ Made(n, i, DefaultNode)
       /\ z = << Tag("node") >> \o Written(n, i)
    \/ at = "open" /\ Begun(n, i) /\ z = Written(n, i)
    \/ at = "type" /\ Begun(n, i) /\ z = << Tag("type") >> \o Kind(n, i)
    \/ at = "kind" /\ Begun(n, i) /\ z = Kind(n, i)

Stands(n, i, z) ==
    \/ Opened(n, i, z) \/ InFile(n, i, z) \/ InLink(n, i, z) \/ InDir(n, i, z)
    \/ at = "done" /\ i = Len(n) /\ Made(n, i, n[i].node) /\ z = << >>

\* The reader is at some place of the archive of n; or it has been cut short, or is
\* too deep.
Follows(n, t, short) ==
    /\ at \notin { "error", "overflow" } =>
         \E i \in 1 .. Len(n), z \in Seq(Pieces) : Stands(n, i, z) /\ Comes(source, z, t, short)
    /\ at = "error" => short
    /\ at = "overflow" => ~ FitsTheStack(n)

-----------------------------------------------------------------------------
\* The sink, by what is done to it.

LEMMA MadeKept ==
    ASSUME NEW n, NEW i, NEW a, Made(n, i, a), UNCHANGED << mode, sink >>
    PROVE  Made(n, i, a)'
  BY DEF Made

LEMMA BecomeIs ==
    ASSUME NEW n, IsNar(n), NEW i \in 1 .. Len(n), NEW a, NEW b,
           Made(n, i, a), mode' = mode, mode \in { "stream", "whole" }, Become(b)
    PROVE  Made(n, i, b)'
<1>1. CASE mode = "stream"
  BY <1>1 DEF Made
<1>2. CASE mode = "whole"
  <2>1. sink = Put(n, i, a) /\ sink' = Changed(sink, Len(sink), b)
    BY <1>2 DEF Made, Become, Changed
  <2>2. Len(Put(n, i, a)) = i
    BY PutSizes
  <2>3. Changed(Put(n, i, a), i, b) = Put(n, i, b)
    BY PutChanged
  <2>4. sink' = Put(n, i, b)
    BY <2>1, <2>2, <2>3
  <2>5. QED
    BY <2>4 DEF Made
<1>3. QED
  BY <1>1, <1>2

LEMMA SetExecutableIs ==
    ASSUME NEW n, IsNar(n), NEW i \in 1 .. Len(n),
           Made(n, i, DefaultNode), mode' = mode, mode \in { "stream", "whole" }, SetExecutable
    PROVE  Made(n, i, FileNode(TRUE, "", 0))'
<1> DEFINE b == FileNode(TRUE, "", 0)
<1>1. CASE mode = "stream"
  BY <1>1 DEF Made
<1>2. CASE mode = "whole"
  <2>1. WithExecutable(DefaultNode, TRUE) = b
    BY ExecutableSet
  <2> HIDE DEF b
  <2>2. sink = Put(n, i, DefaultNode) /\ sink' = [sink EXCEPT ![Len(sink)].node.executable = TRUE]
    BY <1>2 DEF Made, SetExecutable
  <2>3. Len(sink) = i /\ sink[i].node = DefaultNode
    BY <2>2, PutSizes
  <2>4. [sink EXCEPT ![i].node.executable = TRUE]
          = [sink EXCEPT ![i].node = [sink[i].node EXCEPT !.executable = TRUE]]
    OBVIOUS
  <2>5. sink' = Changed(sink, i, b)
    BY <2>1, <2>2, <2>3, <2>4 DEF Changed, WithExecutable
  <2>6. Changed(Put(n, i, DefaultNode), i, b) = Put(n, i, b)
    BY PutChanged
  <2>7. QED
    BY <2>2, <2>5, <2>6 DEF Made, b
<1>3. QED
  BY <1>1, <1>2

LEMMA AddContentsIs ==
    ASSUME NEW n, IsNar(n), NEW i \in 1 .. Len(n), NEW e, NEW s,
           Made(n, i, FileNode(e, "", 0)), mode' = mode, mode = "whole", AddContents(s)
    PROVE  Made(n, i, FileNode(e, s.text, s.len))'
<1> DEFINE a == FileNode(e, "", 0)
           b == FileNode(e, s.text, 0)
           c == FileNode(e, s.text, s.len)
<1>1. WithText(a, s.text) = b
  BY TextSet
<1>2. WithLen(b, s.len) = c
  BY LenSet
<1>3. /\ sink = Put(n, i, a)
      /\ sink' = [sink EXCEPT ![Len(sink)].node.text = s.text, ![Len(sink)].node.len = s.len]
  BY DEF Made, AddContents
<1> HIDE DEF a, b, c
<1>4. PICK p \in { Put(n, i, a) }, q \in { Put(n, i, b) } : p = Put(n, i, a) /\ q = Put(n, i, b)
  OBVIOUS
<1>5. Len(p) = i /\ p[i].node = a /\ q[i].node = b
  <2>1. Len(Put(n, i, a)) = i /\ Put(n, i, a)[i].node = a
    BY PutSizes
  <2>2. Put(n, i, b)[i].node = b
    BY PutSizes
  <2>3. QED
    BY <1>4, <2>1, <2>2
<1>6. sink' = [[p EXCEPT ![i].node.text = s.text] EXCEPT ![i].node.len = s.len]
  <2>1. [p EXCEPT ![i].node.text = s.text, ![i].node.len = s.len]
          = [[p EXCEPT ![i].node.text = s.text] EXCEPT ![i].node.len = s.len]
    OBVIOUS
  <2>2. QED
    BY <1>3, <1>4, <1>5, <2>1
<1>7. [p EXCEPT ![i].node.text = s.text] = q
  <2>1. [p EXCEPT ![i].node.text = s.text]
          = [p EXCEPT ![i].node = [p[i].node EXCEPT !.text = s.text]]
    OBVIOUS
  <2>2. Changed(p, i, b) = q
    BY <1>4, PutChanged
  <2>3. QED
    BY <1>1, <1>5, <2>1, <2>2 DEF Changed, WithText
<1>8. [q EXCEPT ![i].node.len = s.len] = Put(n, i, c)
  <2>1. [q EXCEPT ![i].node.len = s.len]
          = [q EXCEPT ![i].node = [q[i].node EXCEPT !.len = s.len]]
    OBVIOUS
  <2>2. Changed(q, i, c) = Put(n, i, c)
    BY <1>4, PutChanged
  <2>3. QED
    BY <1>2, <1>5, <2>1, <2>2 DEF Changed, WithLen
<1>9. sink' = Put(n, i, c)
  BY <1>6, <1>7, <1>8
<1>10. QED
  BY <1>9 DEF Made, c

LEMMA CreateEntryIs ==
    ASSUME NEW n, IsNar(n), NEW i \in 1 .. Len(n), i < Len(n), Made(n, i, n[i].node),
           mode' = mode, mode \in { "stream", "whole" },
           depth + 1 = n[i + 1].depth, CreateEntry(n[i + 1].name)
    PROVE  Made(n, i + 1, DefaultNode)'
<1>1. CASE mode = "stream"
  BY <1>1 DEF Made
<1>2. CASE mode = "whole"
  <2>1. sink = Put(n, i, n[i].node) /\ sink' = Append(sink, EntryAs(n, i + 1, DefaultNode))
    BY <1>2 DEF Made, CreateEntry, EntryAs
  <2>2. Append(Put(n, i, n[i].node), EntryAs(n, i + 1, DefaultNode)) = Put(n, i + 1, DefaultNode)
    BY PutNext
  <2>3. QED
    BY <2>1, <2>2 DEF Made
<1>3. QED
  BY <1>1, <1>2

-----------------------------------------------------------------------------
\* The steps of the reader.

LEMMA ExpectedIs ==
    /\ Expected["archive"][1] = "nix-archive-1" /\ Expected["archive"][2] = "open"
    /\ Expected["open"][1] = "(" /\ Expected["open"][2] = "type"
    /\ Expected["type"][1] = "type" /\ Expected["type"][2] = "kind"
    /\ Expected["exec"][1] = "" /\ Expected["exec"][2] = "file"
    /\ Expected["target"][1] = "target" /\ Expected["target"][2] = "link"
    /\ Expected["entry"][1] = "(" /\ Expected["entry"][2] = "name"
    /\ Expected["name"][1] = "name" /\ Expected["name"][2] = "named"
    /\ Expected["node"][1] = "node" /\ Expected["node"][2] = "open"
    /\ Expected["endEntry"][1] = ")" /\ Expected["endEntry"][2] = "dir"
    /\ DOMAIN Expected = { "archive", "open", "type", "exec", "target", "entry", "name", "node",
                           "endEntry" }
  BY DEF Expected

\* Where there is a next place, the reader follows the archive.
LEMMA FollowsOn ==
    ASSUME NEW n, NEW t, NEW short, NEW i \in 1 .. Len(n), NEW z \in Seq(Pieces),
           Stands(n, i, z)', Comes(source', z, t, short)
    PROVE  Follows(n, t, short)'
<1>1. at' \notin { "error", "overflow" }
  BY DEF Stands, Opened, InFile, InLink, InDir
<1>2. QED
  BY <1>1 DEF Follows

\* A string that is read whole is the one that was written.
LEMMA TakesPiece ==
    ASSUME NEW x \in Pieces, NEW z \in Seq(Pieces), NEW t \in Seq(Strings), NEW short \in BOOLEAN,
           IInv, Take, Comes(source, << x >> \o z, t, short)
    PROVE  /\ Head(source) = x
           /\ Comes(source', z, t, short)
           /\ mode' = mode /\ mode \in { "stream", "whole" }
<1>1. source \in Seq(Strings) /\ mode \in { "stream", "whole" }
  BY ModeAssumption DEF IInv, TypeOK
<1>2. source # << >> /\ Whole(Head(source)) /\ source' = Tail(source) /\ mode' = mode
  BY DEF Take
<1>3. QED
  BY <1>1, <1>2, ReadsPiece

\* At the end of an entry the reader is in the directory that it is in, or done.
LEMMA EndsEntry ==
    ASSUME NEW n, IsNar(n), NEW i \in 1 .. Len(n), NEW t, NEW short, NEW x \in Nat, x + 1 = Due(n, i, depth),
           depth \in 0 .. n[i].depth, Made(n, i, n[i].node)', EntryEnd,
           Comes(source', Shut(n, i, x), t, short)
    PROVE  Follows(n, t, short)'
<1>1. PICK d \in 0 .. n[i].depth : d = depth
  OBVIOUS
<1>2. n[i].depth \in Nat
  BY NarIs
<1>3. Due(n, i, d) >= 0 /\ Due(n, i, d) > 0
  BY <1>1
<1>4. Shut(n, i, x) \in Seq(Pieces)
  BY ShutIs
<1>5. CASE d = 0
  <2>1. i = Len(n) /\ Due(n, i, d) = 1
    BY <1>3, <1>5, DueIs
  <2>2. x = 0
    BY <1>1, <2>1
  <2>3. Shut(n, i, 0) = << >>
    BY <2>1, ShutIs DEF Onward
  <2>4. at' = "done"
    BY <1>1, <1>5 DEF EntryEnd
  <2>5. Stands(n, i, Shut(n, i, x))'
    BY <2>1, <2>2, <2>3, <2>4 DEF Stands
  <2>6. QED
    BY <1>4, <2>5, FollowsOn
<1>6. CASE d # 0
  <2>1. PICK e \in 0 .. n[i].depth : e = d - 1 /\ d > 0
    BY <1>2, <1>6
  <2>2. Due(n, i, e) \in Nat /\ Due(n, i, e) + 1 = Due(n, i, d) - 1
    BY <1>3, <2>1, DueIs
  <2>3. x = Due(n, i, e) + 1
    BY <1>1, <2>2
  <2>4. at' = "endEntry" /\ depth' = e
    BY <1>1, <1>6, <2>1 DEF EntryEnd
  <2>5. Enclosed(n, i)'
    BY <2>2, <2>4 DEF Enclosed
  <2>6. Stands(n, i, Shut(n, i, x))'
    BY <2>3, <2>4, <2>5 DEF Stands, InDir
  <2>7. QED
    BY <1>4, <2>6, FollowsOn
<1>7. QED
  BY <1>5, <1>6

\* A tag that is the only one that will do.
LEMMA ExpectTagFollows ==
    ASSUME NEW n, IsNar(n), NEW t \in Seq(Strings), NEW short \in BOOLEAN,
           NEW i \in 1 .. Len(n), NEW z \in Seq(Pieces), IInv,
           Stands(n, i, z), Comes(source, z, t, short), ExpectTag
    PROVE  Follows(n, t, short)'
<1>1. /\ at \in DOMAIN Expected /\ Take /\ at' = Expected[at][2] /\ UNCHANGED target
      /\ depth' = IF at = "node" THEN depth + 1 ELSE depth
      /\ IF at = "exec" THEN SetExecutable ELSE UNCHANGED sink
  BY DEF ExpectTag
<1>2. /\ Written(n, i) \in Seq(Pieces) /\ Kind(n, i) \in Seq(Pieces)
      /\ << Tag("type") >> \o Kind(n, i) \in Seq(Pieces)
      /\ Written(n, i) = << Tag("(") >> \o (<< Tag("type") >> \o Kind(n, i))
  BY WrittenIs
<1>3. /\ Tag("nix-archive-1") \in Pieces /\ Tag("node") \in Pieces /\ Tag("(") \in Pieces
      /\ Tag("type") \in Pieces /\ Tag("") \in Pieces /\ Tag("target") \in Pieces
      /\ Tag("name") \in Pieces /\ Tag(")") \in Pieces
  BY TagIsPiece DEF Words
<1>4. n[i].depth \in Nat
  BY NarIs
<1>5. CASE at = "archive"
  <2>1. Begun(n, i) /\ z = << Tag("nix-archive-1") >> \o Written(n, i)
    BY <1>5 DEF Stands, Opened, InFile, InLink, InDir
  <2>2. Comes(source', Written(n, i), t, short) /\ mode' = mode
    BY <1>1, <1>2, <1>3, <2>1, TakesPiece
  <2>3. at' = "open" /\ depth' = depth /\ sink' = sink
    BY <1>1, <1>5, ExpectedIs
  <2>4. Stands(n, i, Written(n, i))'
    BY <2>1, <2>2, <2>3, MadeKept DEF Stands, Opened, Begun
  <2>5. QED
    BY <1>2, <2>2, <2>4, FollowsOn
<1>6. CASE at = "node"
  <2>1. /\ depth = n[i].depth - 1 /\ Made(n, i, DefaultNode)
        /\ z = << Tag("node") >> \o Written(n, i)
    BY <1>6 DEF Stands, Opened, InFile, InLink, InDir
  <2>2. Comes(source', Written(n, i), t, short) /\ mode' = mode
    BY <1>1, <1>2, <1>3, <2>1, TakesPiece
  <2>3. at' = "open" /\ depth' = n[i].depth /\ sink' = sink
    <3>1. PICK d \in Nat : d = n[i].depth
      BY <1>4
    <3>2. (d - 1) + 1 = d
      OBVIOUS
    <3>3. QED
      BY <1>1, <1>6, <2>1, <3>1, <3>2, ExpectedIs
  <2>4. Stands(n, i, Written(n, i))'
    BY <2>1, <2>2, <2>3, MadeKept DEF Stands, Opened, Begun
  <2>5. QED
    BY <1>2, <2>2, <2>4, FollowsOn
<1>7. CASE at = "open"
  <2>1. Begun(n, i) /\ z = << Tag("(") >> \o (<< Tag("type") >> \o Kind(n, i))
    BY <1>2, <1>7 DEF Stands, Opened, InFile, InLink, InDir
  <2>2. Comes(source', << Tag("type") >> \o Kind(n, i), t, short) /\ mode' = mode
    BY <1>1, <1>2, <1>3, <2>1, TakesPiece
  <2>3. at' = "type" /\ depth' = depth /\ sink' = sink
    BY <1>1, <1>7, ExpectedIs
  <2>4. Stands(n, i, << Tag("type") >> \o Kind(n, i))'
    BY <2>1, <2>2, <2>3, MadeKept DEF Stands, Opened, Begun
  <2>5. QED
    BY <1>2, <2>2, <2>4, FollowsOn
<1>8. CASE at = "type"
  <2>1. Begun(n, i) /\ z = << Tag("type") >> \o Kind(n, i)
    BY <1>8 DEF Stands, Opened, InFile, InLink, InDir
  <2>2. Comes(source', Kind(n, i), t, short) /\ mode' = mode
    BY <1>1, <1>2, <1>3, <2>1, TakesPiece
  <2>3. at' = "kind" /\ depth' = depth /\ sink' = sink
    BY <1>1, <1>8, ExpectedIs
  <2>4. Stands(n, i, Kind(n, i))'
    BY <2>1, <2>2, <2>3, MadeKept DEF Stands, Opened, Begun
  <2>5. QED
    BY <1>2, <2>2, <2>4, FollowsOn
<1>9. CASE at = "exec"
  <2>1. /\ n[i].node.kind = "file" /\ n[i].node.executable
        /\ depth = n[i].depth /\ Made(n, i, DefaultNode)
        /\ z = << Tag("") >> \o Texts(n, i)
    BY <1>9 DEF Stands, Opened, InFile, InLink, InDir, Flag
  <2>2. Texts(n, i) \in Seq(Pieces) /\ n[i].node.executable = TRUE
    BY <2>1, FileIs
  <2>3. Comes(source', Texts(n, i), t, short) /\ mode' = mode /\ mode \in { "stream", "whole" }
    BY <1>1, <1>3, <2>1, <2>2, TakesPiece
  <2>4. at' = "file" /\ depth' = depth /\ SetExecutable
    BY <1>1, <1>9, ExpectedIs
  <2>5. Made(n, i, FileNode(TRUE, "", 0))'
    BY <2>1, <2>3, <2>4, SetExecutableIs
  <2>6. Filled(n, i)'
    BY <2>2, <2>5 DEF Filled
  <2>7. Stands(n, i, Texts(n, i))'
    BY <2>1, <2>4, <2>6 DEF Stands, InFile
  <2>8. QED
    BY <2>2, <2>3, <2>7, FollowsOn
<1>10. CASE at = "target"
  <2>1. n[i].node.kind = "symlink" /\ Begun(n, i) /\ z = << Tag("target") >> \o Link(n, i)
    BY <1>10 DEF Stands, Opened, InFile, InLink, InDir
  <2>2. Link(n, i) \in Seq(Pieces)
    BY <2>1, LinkIs
  <2>3. Comes(source', Link(n, i), t, short) /\ mode' = mode
    BY <1>1, <1>3, <2>1, <2>2, TakesPiece
  <2>4. at' = "link" /\ depth' = depth /\ sink' = sink
    BY <1>1, <1>10, ExpectedIs
  <2>5. Stands(n, i, Link(n, i))'
    BY <2>1, <2>3, <2>4, MadeKept DEF Stands, InLink, Begun
  <2>6. QED
    BY <2>2, <2>3, <2>5, FollowsOn
<1>11. CASE at = "entry"
  <2>1. /\ Enclosed(n, i) /\ i < Len(n) /\ depth = n[i + 1].depth - 1
        /\ z = << Tag("(") >> \o (<< Tag("name") >> \o Named(n, i + 1))
    BY <1>11 DEF Stands, Opened, InFile, InLink, InDir
  <2>2. << Tag("name") >> \o Named(n, i + 1) \in Seq(Pieces)
    BY <2>1, NamedIs
  <2>3. Comes(source', << Tag("name") >> \o Named(n, i + 1), t, short) /\ mode' = mode
    BY <1>1, <1>3, <2>1, <2>2, TakesPiece
  <2>4. at' = "name" /\ depth' = depth /\ sink' = sink
    BY <1>1, <1>11, ExpectedIs
  <2>5. Enclosed(n, i)'
    BY <2>1, <2>3, <2>4, MadeKept DEF Enclosed
  <2>6. Stands(n, i, << Tag("name") >> \o Named(n, i + 1))'
    BY <2>1, <2>4, <2>5 DEF Stands, InDir
  <2>7. QED
    BY <2>2, <2>3, <2>6, FollowsOn
<1>12. CASE at = "name"
  <2>1. /\ Enclosed(n, i) /\ i < Len(n) /\ depth = n[i + 1].depth - 1
        /\ z = << Tag("name") >> \o Named(n, i + 1)
    BY <1>12 DEF Stands, Opened, InFile, InLink, InDir
  <2>2. Named(n, i + 1) \in Seq(Pieces)
    BY <2>1, NamedIs
  <2>3. Comes(source', Named(n, i + 1), t, short) /\ mode' = mode
    BY <1>1, <1>3, <2>1, <2>2, TakesPiece
  <2>4. at' = "named" /\ depth' = depth /\ sink' = sink
    BY <1>1, <1>12, ExpectedIs
  <2>5. Enclosed(n, i)'
    BY <2>1, <2>3, <2>4, MadeKept DEF Enclosed
  <2>6. Stands(n, i, Named(n, i + 1))'
    BY <2>1, <2>4, <2>5 DEF Stands, InDir
  <2>7. QED
    BY <2>2, <2>3, <2>6, FollowsOn
<1>13. CASE at = "endEntry"
  <2>1. Enclosed(n, i) /\ z = Shut(n, i, Due(n, i, depth) + 1)
    BY <1>13 DEF Stands, Opened, InFile, InLink, InDir
  <2>2. PICK k \in Nat : k = Due(n, i, depth)
    BY <2>1, DueIs DEF Enclosed
  <2>3. Shut(n, i, k) \in Seq(Pieces) /\ z = << Tag(")") >> \o Shut(n, i, k)
    BY <2>1, <2>2, ShutIs
  <2>4. Comes(source', Shut(n, i, k), t, short) /\ mode' = mode
    BY <1>1, <1>3, <2>3, TakesPiece
  <2>5. at' = "dir" /\ depth' = depth /\ sink' = sink
    BY <1>1, <1>13, ExpectedIs
  <2>6. Enclosed(n, i)'
    BY <2>1, <2>4, <2>5, MadeKept DEF Enclosed
  <2>7. Stands(n, i, Shut(n, i, k))'
    BY <2>2, <2>5, <2>6 DEF Stands, InDir
  <2>8. QED
    BY <2>3, <2>4, <2>7, FollowsOn
<1>14. QED
  BY <1>1, <1>5, <1>6, <1>7, <1>8, <1>9, <1>10, <1>11, <1>12, <1>13, ExpectedIs

LEMMA StackOverflowFollows ==
    ASSUME NEW n, IsNar(n), NEW t, NEW short, NEW i \in 1 .. Len(n), NEW z,
           Stands(n, i, z), StackOverflow
    PROVE  Follows(n, t, short)'
<1>1. at = "node" /\ depth = MaxDepth /\ at' = "overflow"
  BY DEF StackOverflow
<1>2. depth = n[i].depth - 1
  BY <1>1 DEF Stands, Opened, InFile, InLink, InDir
<1>3. n[i].depth \in Nat /\ n[i].depth > MaxDepth /\ i \in DOMAIN n
  <2>1. PICK d \in Nat : d = n[i].depth
    BY NarIs
  <2>2. MaxDepth = d - 1
    BY <1>1, <1>2, <2>1
  <2>3. d > MaxDepth
    BY <2>2, DepthAssumption
  <2>4. i \in DOMAIN n
    <3> DEFINE E == [depth : Nat, name : STRING, node : Node]
    <3>1. n \in Seq(E)
      BY DEF IsNar
    <3> HIDE DEF E
    <3>2. QED
      BY <3>1
  <2>5. QED
    BY <2>1, <2>3, <2>4
<1>4. ~ FitsTheStack(n)
  BY <1>3, DepthAssumption DEF FitsTheStack
<1>5. QED
  BY <1>1, <1>4 DEF Follows

LEMMA EntryKindFollows ==
    ASSUME NEW n, IsNar(n), NEW t \in Seq(Strings), NEW short \in BOOLEAN,
           NEW i \in 1 .. Len(n), NEW z \in Seq(Pieces), IInv,
           Stands(n, i, z), Comes(source, z, t, short), EntryKind
    PROVE  Follows(n, t, short)'
<1>1. at = "kind" /\ Take /\ UNCHANGED << depth, target >>
  BY DEF EntryKind
<1>2. Begun(n, i) /\ z = Kind(n, i)
  BY <1>1 DEF Stands, Opened, InFile, InLink, InDir
<1>3. /\ Tag("regular") \in Pieces /\ Tag("regular").text = "regular"
      /\ Tag("executable") \in Pieces
      /\ Tag("symlink") \in Pieces /\ Tag("symlink").text = "symlink"
      /\ Tag("directory") \in Pieces /\ Tag("directory").text = "directory"
  BY TagIsPiece DEF Words
<1>4. n[i].node.kind \in { "file", "symlink", "directory" }
  BY NarIs, InsideIs, EmptySeq
<1>5. CASE n[i].node.kind = "file"
  <2>1. PICK w \in Seq(Pieces) :
          w = IF n[i].node.executable THEN << Tag("executable") >> \o Flag(n, i) ELSE Texts(n, i)
    <3>1. Flag(n, i) \in Seq(Pieces) /\ Texts(n, i) \in Seq(Pieces)
      BY <1>5, FileIs
    <3>2. << Tag("executable") >> \o Flag(n, i) \in Seq(Pieces)
      BY <1>3, <3>1, Cons
    <3>3. QED
      BY <3>1, <3>2
  <2>2. z = << Tag("regular") >> \o w
    BY <1>2, <1>5, <2>1, FileIs
  <2>3. Head(source) = Tag("regular") /\ Comes(source', w, t, short) /\ mode' = mode
        /\ mode \in { "stream", "whole" }
    BY <1>1, <1>3, <2>2, TakesPiece
  <2>4. at' = "file" /\ Become(DefaultNode)
    BY <1>3, <2>3 DEF EntryKind
  <2>5. Made(n, i, DefaultNode)' /\ depth' = n[i].depth
    BY <1>1, <1>2, <2>3, <2>4, BecomeIs DEF Begun
  <2>6. CASE n[i].node.executable
    BY <1>5, <2>1, <2>3, <2>4, <2>5, <2>6, FollowsOn DEF Stands, InFile
  <2>7. CASE ~ n[i].node.executable
    <3>1. n[i].node.executable = FALSE
      BY <1>5, <2>7, FileIs
    <3>2. Filled(n, i)'
      BY <2>5, <3>1 DEF Filled, DefaultNode
    <3>3. Stands(n, i, w)'
      BY <1>5, <2>1, <2>4, <2>5, <2>7, <3>2 DEF Stands, InFile
    <3>4. QED
      BY <2>3, <3>3, FollowsOn
  <2>8. QED
    BY <2>6, <2>7
<1>6. CASE n[i].node.kind = "symlink"
  <2>1. PICK w \in Seq(Pieces) : w = << Tag("target") >> \o Link(n, i)
    BY <1>6, LinkIs
  <2>2. z = << Tag("symlink") >> \o w
    BY <1>2, <1>6, <2>1, LinkIs
  <2>3. Head(source) = Tag("symlink") /\ Comes(source', w, t, short) /\ mode' = mode
    BY <1>1, <1>3, <2>2, TakesPiece
  <2>4. at' = "target" /\ sink' = sink
    BY <1>3, <2>3 DEF EntryKind
  <2>5. Stands(n, i, w)'
    BY <1>1, <1>2, <1>6, <2>1, <2>3, <2>4, MadeKept DEF Stands, InLink, Begun
  <2>6. QED
    BY <2>3, <2>5, FollowsOn
<1>7. CASE n[i].node.kind = "directory"
  <2>1. n[i].node = DirNode /\ z = << Tag("directory") >> \o After(n)[i]
    BY <1>2, <1>7, DirIs
  <2>2. PICK k \in Nat : k = Due(n, i, n[i].depth)
    BY NarIs
  <2>3. After(n)[i] \in Seq(Pieces) /\ After(n)[i] = Shut(n, i, k)
    BY <2>2, ShutIs, WrittenIs
  <2>4. Head(source) = Tag("directory") /\ Comes(source', After(n)[i], t, short) /\ mode' = mode
        /\ mode \in { "stream", "whole" }
    BY <1>1, <1>3, <2>1, <2>3, TakesPiece
  <2>5. at' = "dir" /\ Become(DirNode)
    BY <1>3, <2>4 DEF EntryKind
  <2>6. Made(n, i, n[i].node)' /\ depth' = n[i].depth
    BY <1>1, <1>2, <2>1, <2>4, <2>5, BecomeIs DEF Begun
  <2>7. Enclosed(n, i)'
    <3>1. n[i].depth \in 0 .. n[i].depth
      BY NarIs
    <3>2. QED
      BY <2>2, <2>6, <3>1 DEF Enclosed
  <2>8. Stands(n, i, After(n)[i])'
    BY <2>2, <2>3, <2>5, <2>6, <2>7 DEF Stands, InDir
  <2>9. QED
    BY <2>3, <2>4, <2>8, FollowsOn
<1>8. QED
  BY <1>4, <1>5, <1>6, <1>7

\* What follows an entry that has no entries is its end.
LEMMA EndOfLeaf ==
    ASSUME NEW n, IsNar(n), NEW i \in 1 .. Len(n), n[i].node # DirNode
    PROVE  \E k \in Nat : /\ k + 1 = Due(n, i, n[i].depth)
                          /\ After(n)[i] = << Tag(")") >> \o Shut(n, i, k)
                          /\ Shut(n, i, k) \in Seq(Pieces)
<1>1. PICK m \in Nat : m = Due(n, i, n[i].depth) /\ m > 0
  BY NarIs, LeafEnds
<1>2. PICK k \in Nat : k + 1 = m
  <2>1. m - 1 \in Nat /\ (m - 1) + 1 = m
    BY <1>1
  <2>2. QED
    BY <2>1
<1>3. /\ Shut(n, i, k) \in Seq(Pieces)
      /\ Shut(n, i, k + 1) = << Tag(")") >> \o Shut(n, i, k)
      /\ After(n)[i] = Shut(n, i, Due(n, i, n[i].depth))
  BY ShutIs
<1>4. QED
  BY <1>1, <1>2, <1>3

LEMMA LeafEndFollows ==
    ASSUME NEW n, IsNar(n), NEW t \in Seq(Strings), NEW short \in BOOLEAN,
           NEW i \in 1 .. Len(n), IInv, n[i].node # DirNode, depth = n[i].depth,
           Comes(source, After(n)[i], t, short), Take, Made(n, i, n[i].node)', EntryEnd
    PROVE  Follows(n, t, short)'
<1>1. PICK k \in Nat : /\ k + 1 = Due(n, i, n[i].depth)
                       /\ After(n)[i] = << Tag(")") >> \o Shut(n, i, k)
                       /\ Shut(n, i, k) \in Seq(Pieces)
  BY EndOfLeaf
<1>2. Tag(")") \in Pieces
  BY TagIsPiece DEF Words
<1>3. Comes(source', Shut(n, i, k), t, short)
  BY <1>1, <1>2, TakesPiece
<1>4. depth \in 0 .. n[i].depth
  BY NarIs
<1>5. QED
  BY <1>1, <1>3, <1>4, EndsEntry

LEMMA FileTagFollows ==
    ASSUME NEW n, IsNar(n), NEW t \in Seq(Strings), NEW short \in BOOLEAN,
           NEW i \in 1 .. Len(n), NEW z \in Seq(Pieces), IInv,
           Stands(n, i, z), Comes(source, z, t, short), FileTag
    PROVE  Follows(n, t, short)'
<1>1. at = "file" /\ Take /\ UNCHANGED << target, sink >>
  BY DEF FileTag
<1>2. /\ n[i].node.kind = "file"
      /\ depth = n[i].depth
      /\ \/ /\ n[i].node.executable /\ Made(n, i, DefaultNode)
            /\ z = << Tag("executable") >> \o Flag(n, i)
         \/ Filled(n, i) /\ z = Texts(n, i)
  BY <1>1 DEF Stands, Opened, InFile, InLink, InDir
<1>3. /\ Tag("executable") \in Pieces /\ Tag("executable").text = "executable"
      /\ Tag("contents") \in Pieces /\ Tag("contents").text = "contents"
  BY TagIsPiece DEF Words
<1>4. Flag(n, i) \in Seq(Pieces) /\ Text(n, i) \in Seq(Pieces)
  BY <1>2, FileIs
<1>5. CASE /\ n[i].node.executable /\ Made(n, i, DefaultNode)
           /\ z = << Tag("executable") >> \o Flag(n, i)
  <2>1. Head(source) = Tag("executable") /\ Comes(source', Flag(n, i), t, short) /\ mode' = mode
    BY <1>1, <1>3, <1>4, <1>5, TakesPiece
  <2>2. at' = "exec" /\ depth' = depth
    BY <1>3, <2>1 DEF FileTag
  <2>3. Made(n, i, DefaultNode)'
    BY <1>1, <1>5, <2>1, MadeKept
  <2>4. Stands(n, i, Flag(n, i))'
    BY <1>2, <1>5, <2>2, <2>3 DEF Stands, InFile
  <2>5. QED
    BY <1>4, <2>1, <2>4, FollowsOn
<1>6. CASE Filled(n, i) /\ z = Texts(n, i)
  <2>1. z = << Tag("contents") >> \o Text(n, i)
    BY <1>6 DEF Texts
  <2>2. Head(source) = Tag("contents") /\ Comes(source', Text(n, i), t, short) /\ mode' = mode
    BY <1>1, <1>3, <1>4, <2>1, TakesPiece
  <2>3. at' = "contents" /\ depth' = depth
    BY <1>3, <2>2 DEF FileTag
  <2>4. Filled(n, i)'
    BY <1>1, <1>6, <2>2, MadeKept DEF Filled
  <2>5. Stands(n, i, Text(n, i))'
    BY <1>2, <2>3, <2>4 DEF Stands, InFile
  <2>6. QED
    BY <1>4, <2>2, <2>5, FollowsOn
<1>7. QED
  BY <1>2, <1>5, <1>6

LEMMA FileEndFollows ==
    ASSUME NEW n, IsNar(n), NEW t \in Seq(Strings), NEW short \in BOOLEAN,
           NEW i \in 1 .. Len(n), NEW z \in Seq(Pieces), IInv,
           Stands(n, i, z), Comes(source, z, t, short), FileEnd
    PROVE  Follows(n, t, short)'
<1>1. at = "fileEnd" /\ Take /\ EntryEnd /\ UNCHANGED << target, sink >>
  BY DEF FileEnd
<1>2. /\ n[i].node.kind = "file" /\ depth = n[i].depth
      /\ Made(n, i, n[i].node) /\ z = After(n)[i]
  BY <1>1 DEF Stands, Opened, InFile, InLink, InDir
<1>3. n[i].node # DirNode /\ mode' = mode
  BY <1>1, <1>2, FileIs DEF Take
<1>4. Made(n, i, n[i].node)'
  BY <1>1, <1>2, <1>3, MadeKept
<1>5. QED
  BY <1>1, <1>2, <1>3, <1>4, LeafEndFollows

LEMMA LinkTargetFollows ==
    ASSUME NEW n, IsNar(n), NEW t \in Seq(Strings), NEW short \in BOOLEAN,
           NEW i \in 1 .. Len(n), NEW z \in Seq(Pieces), IInv,
           Stands(n, i, z), Comes(source, z, t, short), LinkTarget
    PROVE  Follows(n, t, short)'
<1>1. /\ at = "link" /\ Take /\ target' = Head(source).text /\ at' = "linkEnd"
      /\ UNCHANGED << depth, sink >>
  BY DEF LinkTarget
<1>2. n[i].node.kind = "symlink" /\ Begun(n, i) /\ z = Link(n, i)
  BY <1>1 DEF Stands, Opened, InFile, InLink, InDir
<1>3. PICK p \in Pieces, w \in Seq(Pieces) :
        p = Str(n[i].node.target, 1) /\ p.text = n[i].node.target /\ w = After(n)[i]
  BY <1>2, LinkIs, WrittenIs
<1>4. z = << p >> \o w
  BY <1>2, <1>3 DEF Link
<1>5. Head(source) = p /\ Comes(source', w, t, short) /\ mode' = mode
  BY <1>1, <1>4, TakesPiece
<1>6. Begun(n, i)'
  BY <1>1, <1>2, <1>5, MadeKept DEF Begun
<1>7. Stands(n, i, w)'
  BY <1>1, <1>2, <1>3, <1>5, <1>6 DEF Stands, InLink
<1>8. QED
  BY <1>5, <1>7, FollowsOn

LEMMA LinkEndFollows ==
    ASSUME NEW n, IsNar(n), NEW t \in Seq(Strings), NEW short \in BOOLEAN,
           NEW i \in 1 .. Len(n), NEW z \in Seq(Pieces), IInv,
           Stands(n, i, z), Comes(source, z, t, short), LinkEnd
    PROVE  Follows(n, t, short)'
<1>1. at = "linkEnd" /\ Take /\ EntryEnd /\ Become(SymlinkNode(target))
  BY DEF LinkEnd
<1>2. /\ n[i].node.kind = "symlink" /\ Begun(n, i)
      /\ target = n[i].node.target /\ z = After(n)[i]
  BY <1>1 DEF Stands, Opened, InFile, InLink, InDir
<1>3. /\ n[i].node # DirNode /\ n[i].node = SymlinkNode(n[i].node.target)
      /\ mode' = mode /\ mode \in { "stream", "whole" }
  BY <1>1, <1>2, LinkIs, ModeAssumption DEF Take, IInv, TypeOK
<1>4. Made(n, i, n[i].node)'
  BY <1>1, <1>2, <1>3, BecomeIs DEF Begun
<1>5. QED
  BY <1>1, <1>2, <1>3, <1>4, LeafEndFollows DEF Begun

LEMMA DirTagFollows ==
    ASSUME NEW n, IsNar(n), NEW t \in Seq(Strings), NEW short \in BOOLEAN,
           NEW i \in 1 .. Len(n), NEW z \in Seq(Pieces), IInv,
           Stands(n, i, z), Comes(source, z, t, short), DirTag
    PROVE  Follows(n, t, short)'
<1>1. at = "dir" /\ Take /\ UNCHANGED << target, sink >>
  BY DEF DirTag
<1>2. Enclosed(n, i) /\ z = Shut(n, i, Due(n, i, depth))
  BY <1>1 DEF Stands, Opened, InFile, InLink, InDir
<1>3. PICK d \in 0 .. n[i].depth, m \in Nat : d = depth /\ m = Due(n, i, d)
  BY <1>2, DueIs DEF Enclosed
<1>4. /\ Tag(")") \in Pieces /\ Tag(")").text = ")"
      /\ Tag("entry") \in Pieces /\ Tag("entry").text = "entry"
  BY TagIsPiece DEF Words
<1>5. mode' = mode
  BY <1>1 DEF Take
<1>6. Made(n, i, n[i].node)'
  BY <1>1, <1>2, <1>5, MadeKept DEF Enclosed
<1>7. CASE m = 0
  <2>1. i < Len(n) /\ n[i + 1].depth = d + 1
    <3>1. Due(n, i, d) = 0 /\ Due(n, i, d) >= 0
      BY <1>3, <1>7
    <3>2. QED
      BY <3>1, DueIs
  <2>2. z = Onward(n, i)
    BY <1>2, <1>3, <1>7, ShutIs
  <2>3. PICK w \in Seq(Pieces) : w = << Tag("(") >> \o (<< Tag("name") >> \o Named(n, i + 1))
    BY <2>1, NamedIs
  <2>4. z = << Tag("entry") >> \o w
    BY <2>1, <2>2, <2>3, NamedIs
  <2>5. Head(source) = Tag("entry") /\ Comes(source', w, t, short)
    BY <1>1, <1>4, <2>4, TakesPiece
  <2>6. at' = "entry" /\ depth' = depth
    BY <1>4, <2>5 DEF DirTag
  <2>7. Enclosed(n, i)'
    BY <1>2, <1>6, <2>6 DEF Enclosed
  <2>8. depth' = n[i + 1].depth - 1
    <3>1. n[i].depth \in Nat
      BY NarIs
    <3>2. (d + 1) - 1 = d
      BY <3>1
    <3>3. QED
      BY <1>3, <2>1, <2>6, <3>2
  <2>9. Stands(n, i, w)'
    BY <2>1, <2>3, <2>6, <2>7, <2>8 DEF Stands, InDir
  <2>10. QED
    BY <2>5, <2>9, FollowsOn
<1>8. CASE m # 0
  <2>1. PICK k \in Nat : k + 1 = m
    <3>1. m - 1 \in Nat /\ (m - 1) + 1 = m
      BY <1>8
    <3>2. QED
      BY <3>1
  <2>2. Shut(n, i, k) \in Seq(Pieces) /\ z = << Tag(")") >> \o Shut(n, i, k)
    BY <1>2, <1>3, <2>1, ShutIs
  <2>3. Head(source) = Tag(")") /\ Comes(source', Shut(n, i, k), t, short)
    BY <1>1, <1>4, <2>2, TakesPiece
  <2>4. EntryEnd
    BY <1>4, <2>3 DEF DirTag
  <2>5. QED
    BY <1>3, <1>6, <2>1, <2>3, <2>4, EndsEntry
<1>9. QED
  BY <1>7, <1>8

LEMMA EntryNameFollows ==
    ASSUME NEW n, IsNar(n), NEW t \in Seq(Strings), NEW short \in BOOLEAN,
           NEW i \in 1 .. Len(n), NEW z \in Seq(Pieces), IInv,
           Stands(n, i, z), Comes(source, z, t, short), EntryName
    PROVE  Follows(n, t, short)'
<1>1. /\ at = "named" /\ Take /\ CreateEntry(Head(source).text) /\ at' = "node"
      /\ UNCHANGED << depth, target >>
  BY DEF EntryName
<1>2. Enclosed(n, i) /\ i < Len(n) /\ depth = n[i + 1].depth - 1 /\ z = Named(n, i + 1)
  BY <1>1 DEF Stands, Opened, InFile, InLink, InDir
<1>3. PICK p \in Pieces, w \in Seq(Pieces) :
        p = Str(n[i + 1].name, 1) /\ w = << Tag("node") >> \o Written(n, i + 1)
  BY <1>2, NamedIs
<1>4. z = << p >> \o w
  BY <1>2, <1>3 DEF Named
<1>5. p.text = n[i + 1].name
  BY <1>3 DEF Str
<1>6. Head(source) = p /\ Comes(source', w, t, short) /\ mode' = mode
      /\ mode \in { "stream", "whole" }
  BY <1>1, <1>4, TakesPiece
<1>7. PICK j \in 1 .. Len(n) : j = i + 1
  BY <1>2, NarIs
<1>8. depth + 1 = n[j].depth
  <2>1. PICK d \in Nat : d = n[j].depth
    BY NarIs
  <2>2. (d - 1) + 1 = d
    OBVIOUS
  <2>3. QED
    BY <1>2, <1>7, <2>1, <2>2
<1>9. Made(n, j, DefaultNode)'
  BY <1>1, <1>2, <1>5, <1>6, <1>7, <1>8, CreateEntryIs DEF Enclosed
<1>10. Stands(n, j, w)'
  BY <1>1, <1>2, <1>3, <1>7, <1>9 DEF Stands, Opened
<1>11. QED
  BY <1>6, <1>10, FollowsOn

LEMMA ContentsFollow ==
    ASSUME NEW n, IsNar(n), NEW t \in Seq(Strings), NEW short \in BOOLEAN,
           NEW i \in 1 .. Len(n), NEW z \in Seq(Pieces), IInv,
           Stands(n, i, z), Comes(source, z, t, short),
           ContentsWhole \/ ContentsLength \/ (\E k \in 1 .. BufLen : ReadPiece(k)) \/ ReadPadding
    PROVE  Follows(n, t, short)'
<1>1. at \in { "contents", "piece" }
  BY DEF ContentsWhole, ContentsLength, ReadPiece, ReadPadding
<1>2. /\ n[i].node.kind = "file" /\ depth = n[i].depth
      /\ Filled(n, i) /\ z = Text(n, i)
  BY <1>1 DEF Stands, Opened, InFile, InLink, InDir
<1>3. PICK p \in Pieces, w \in Seq(Pieces) :
        p = Str(n[i].node.text, n[i].node.len) /\ w = After(n)[i]
  BY <1>2, FileIs, WrittenIs
<1>4. z = << p >> \o w
  BY <1>2, <1>3 DEF Text
<1>5. n[i].node = FileNode(n[i].node.executable, n[i].node.text, n[i].node.len)
  BY <1>2, FileIs
<1>6. CASE ContentsWhole
  <2>1. /\ Take /\ mode = "whole" /\ AddContents(Head(source)) /\ at' = "fileEnd"
        /\ UNCHANGED << depth, target >>
    BY <1>6 DEF ContentsWhole
  <2>2. Head(source) = p /\ Comes(source', w, t, short) /\ mode' = mode
    BY <1>4, <2>1, TakesPiece
  <2>3. p.text = n[i].node.text /\ p.len = n[i].node.len
    BY <1>3 DEF Str
  <2>4. Made(n, i, FileNode(n[i].node.executable, p.text, p.len))'
    BY <1>2, <2>1, <2>2, AddContentsIs DEF Filled
  <2>5. Made(n, i, n[i].node)'
    BY <1>5, <2>3, <2>4
  <2>6. Stands(n, i, w)'
    BY <1>2, <1>3, <2>1, <2>5 DEF Stands, InFile
  <2>7. QED
    BY <2>2, <2>6, FollowsOn
<1>7. CASE ContentsLength \/ (\E k \in 1 .. BufLen : ReadPiece(k))
  <2>1. at' = "piece" /\ UNCHANGED << mode, source, depth, target, sink >>
    BY <1>7 DEF ContentsLength, ReadPiece
  <2>2. Filled(n, i)'
    BY <1>2, <2>1, MadeKept DEF Filled
  <2>3. Stands(n, i, z)'
    BY <1>2, <2>1, <2>2 DEF Stands, InFile
  <2>4. QED
    BY <2>1, <2>3, FollowsOn
<1>8. CASE ReadPadding
  <2>1. /\ at = "piece" /\ Whole(Head(source)) /\ source' = Tail(source) /\ at' = "fileEnd"
        /\ UNCHANGED << mode, depth, target, sink >>
    BY <1>8 DEF ReadPadding
  <2>2. mode = "stream" /\ source # << >> /\ source \in Seq(Strings)
    BY <2>1 DEF IInv
  <2>3. Comes(source', w, t, short)
    BY <1>4, <2>1, <2>2, ReadsPiece
  <2>4. Made(n, i, n[i].node)'
    BY <2>1, <2>2 DEF Made
  <2>5. Stands(n, i, w)'
    BY <1>2, <1>3, <2>1, <2>4 DEF Stands, InFile
  <2>6. QED
    BY <2>3, <2>5, FollowsOn
<1>9. QED
  BY <1>6, <1>7, <1>8

\* The next string of an archive is one that the parse can go on from.
Heads(z) == \E x \in Pieces, w \in Seq(Pieces) : z = << x >> \o w /\ ~ Refused(x.text)

LEMMA HeadsIt ==
    ASSUME NEW x \in Pieces, NEW w \in Seq(Pieces), NEW z, z = << x >> \o w, ~ Refused(x.text)
    PROVE  Heads(z)
  BY DEF Heads

LEMMA AcceptedIs ==
    /\ Accepted["kind"] = { "regular", "symlink", "directory" }
    /\ Accepted["file"] = { "executable", "contents", ")" }
    /\ Accepted["fileEnd"] = { ")" }
    /\ Accepted["linkEnd"] = { ")" }
    /\ Accepted["dir"] = { ")", "entry" }
    /\ DOMAIN Accepted = { "kind", "file", "fileEnd", "linkEnd", "dir" }
  BY DEF Accepted

LEMMA NextPiece ==
    ASSUME NEW n, IsNar(n), NEW i \in 1 .. Len(n), NEW z \in Seq(Pieces), Stands(n, i, z), Running
    PROVE  Heads(z)
<1>1. /\ Written(n, i) \in Seq(Pieces) /\ Kind(n, i) \in Seq(Pieces)
      /\ << Tag("type") >> \o Kind(n, i) \in Seq(Pieces)
      /\ Written(n, i) = << Tag("(") >> \o (<< Tag("type") >> \o Kind(n, i))
      /\ After(n)[i] \in Seq(Pieces)
  BY WrittenIs
<1>2. \A w \in Words : Tag(w) \in Pieces /\ Tag(w).text = w
  BY TagIsPiece
<1>3. Tag(")") \in Pieces /\ Tag(")").text = ")"
  BY <1>2 DEF Words
<1>4. CASE Opened(n, i, z)
  <2>1. CASE at = "archive"
    <3>1. z = << Tag("nix-archive-1") >> \o Written(n, i)
      BY <1>4, <2>1 DEF Opened
    <3>2. Tag("nix-archive-1") \in Pieces /\ Tag("nix-archive-1").text = "nix-archive-1"
      BY <1>2 DEF Words
    <3>3. ~ Refused("nix-archive-1")
      BY <2>1, ExpectedIs, AcceptedIs DEF Refused
    <3>4. QED
      BY <1>1, <3>1, <3>2, <3>3, HeadsIt
  <2>2. CASE at = "node"
    <3>1. z = << Tag("node") >> \o Written(n, i)
      BY <1>4, <2>2 DEF Opened
    <3>2. Tag("node") \in Pieces /\ Tag("node").text = "node"
      BY <1>2 DEF Words
    <3>3. ~ Refused("node")
      BY <2>2, ExpectedIs, AcceptedIs DEF Refused
    <3>4. QED
      BY <1>1, <3>1, <3>2, <3>3, HeadsIt
  <2>3. CASE at = "open"
    <3>1. z = << Tag("(") >> \o (<< Tag("type") >> \o Kind(n, i))
      BY <1>1, <1>4, <2>3 DEF Opened
    <3>2. Tag("(") \in Pieces /\ Tag("(").text = "("
      BY <1>2 DEF Words
    <3>3. ~ Refused("(")
      BY <2>3, ExpectedIs, AcceptedIs DEF Refused
    <3>4. QED
      BY <1>1, <3>1, <3>2, <3>3, HeadsIt
  <2>4. CASE at = "type"
    <3>1. z = << Tag("type") >> \o Kind(n, i)
      BY <1>4, <2>4 DEF Opened
    <3>2. Tag("type") \in Pieces /\ Tag("type").text = "type"
      BY <1>2 DEF Words
    <3>3. ~ Refused("type")
      BY <2>4, ExpectedIs, AcceptedIs DEF Refused
    <3>4. QED
      BY <1>1, <3>1, <3>2, <3>3, HeadsIt
  <2>5. CASE at = "kind"
    <3>1. z = Kind(n, i)
      BY <1>4, <2>5 DEF Opened
    <3>2. ~ Refused("regular") /\ ~ Refused("symlink") /\ ~ Refused("directory")
      BY <2>5, ExpectedIs, AcceptedIs DEF Refused
    <3>3. /\ Tag("regular") \in Pieces /\ Tag("regular").text = "regular"
          /\ Tag("executable") \in Pieces
          /\ Tag("symlink") \in Pieces /\ Tag("symlink").text = "symlink"
          /\ Tag("directory") \in Pieces /\ Tag("directory").text = "directory"
      BY <1>2 DEF Words
    <3>4. CASE n[i].node.kind = "file"
      <4>1. Flag(n, i) \in Seq(Pieces) /\ Texts(n, i) \in Seq(Pieces)
        BY <3>4, FileIs
      <4>2. << Tag("executable") >> \o Flag(n, i) \in Seq(Pieces)
        BY <3>3, <4>1, Cons
      <4>3. PICK w \in Seq(Pieces) : z = << Tag("regular") >> \o w
        BY <3>1, <3>4, <4>1, <4>2, FileIs
      <4>4. QED
        BY <3>2, <3>3, <4>3, HeadsIt
    <3>5. CASE n[i].node.kind = "symlink"
      <4>1. << Tag("target") >> \o Link(n, i) \in Seq(Pieces)
        BY <3>5, LinkIs
      <4>2. z = << Tag("symlink") >> \o (<< Tag("target") >> \o Link(n, i))
        BY <3>1, <3>5, LinkIs
      <4>3. QED
        BY <3>2, <3>3, <4>1, <4>2, HeadsIt
    <3>6. CASE n[i].node.kind = "directory"
      <4>1. z = << Tag("directory") >> \o After(n)[i]
        BY <3>1, <3>6, DirIs
      <4>2. QED
        BY <1>1, <3>2, <3>3, <4>1, HeadsIt
    <3>7. n[i].node.kind \in { "file", "symlink", "directory" }
      BY NarIs, InsideIs, EmptySeq
    <3>8. QED
      BY <3>4, <3>5, <3>6, <3>7
  <2>6. QED
    BY <1>4, <2>1, <2>2, <2>3, <2>4, <2>5 DEF Opened
<1>5. CASE InFile(n, i, z)
  <2>1. n[i].node.kind = "file"
    BY <1>5 DEF InFile
  <2>2. /\ Str(n[i].node.text, n[i].node.len) \in Pieces
        /\ Text(n, i) \in Seq(Pieces) /\ Texts(n, i) \in Seq(Pieces) /\ Flag(n, i) \in Seq(Pieces)
        /\ n[i].node # DirNode
    BY <2>1, FileIs
  <2>3. CASE at = "file"
    <3>1. ~ Refused("executable") /\ ~ Refused("contents")
      BY <2>3, ExpectedIs, AcceptedIs DEF Refused
    <3>2. /\ Tag("executable") \in Pieces /\ Tag("executable").text = "executable"
          /\ Tag("contents") \in Pieces /\ Tag("contents").text = "contents"
      BY <1>2 DEF Words
    <3>3. \/ z = << Tag("executable") >> \o Flag(n, i)
          \/ z = << Tag("contents") >> \o Text(n, i)
      BY <1>5, <2>3 DEF InFile, Texts
    <3>4. QED
      BY <2>2, <3>1, <3>2, <3>3, HeadsIt
  <2>4. CASE at = "exec"
    <3>1. ~ Refused("")
      BY <2>4, ExpectedIs, AcceptedIs DEF Refused
    <3>2. Tag("") \in Pieces /\ Tag("").text = ""
      BY <1>2 DEF Words
    <3>3. z = << Tag("") >> \o Texts(n, i)
      BY <1>5, <2>4 DEF InFile, Flag
    <3>4. QED
      BY <2>2, <3>1, <3>2, <3>3, HeadsIt
  <2>5. CASE at \in { "contents", "piece" }
    <3>1. \A text : ~ Refused(text)
      BY <2>5, ExpectedIs, AcceptedIs DEF Refused
    <3>2. z = << Str(n[i].node.text, n[i].node.len) >> \o After(n)[i]
      BY <1>5, <2>5 DEF InFile, Text
    <3>3. QED
      BY <1>1, <2>2, <3>1, <3>2, HeadsIt
  <2>6. CASE at = "fileEnd"
    <3>1. ~ Refused(")")
      BY <2>6, ExpectedIs, AcceptedIs DEF Refused
    <3>2. z = After(n)[i]
      BY <1>5, <2>6 DEF InFile
    <3>3. QED
      BY <1>3, <2>2, <3>1, <3>2, EndOfLeaf, HeadsIt
  <2>7. QED
    BY <1>5, <2>3, <2>4, <2>5, <2>6 DEF InFile
<1>6. CASE InLink(n, i, z)
  <2>1. n[i].node.kind = "symlink"
    BY <1>6 DEF InLink
  <2>2. /\ Str(n[i].node.target, 1) \in Pieces /\ Link(n, i) \in Seq(Pieces)
        /\ n[i].node # DirNode
    BY <2>1, LinkIs
  <2>3. CASE at = "target"
    <3>1. ~ Refused("target")
      BY <2>3, ExpectedIs, AcceptedIs DEF Refused
    <3>2. Tag("target") \in Pieces /\ Tag("target").text = "target"
      BY <1>2 DEF Words
    <3>3. z = << Tag("target") >> \o Link(n, i)
      BY <1>6, <2>3 DEF InLink
    <3>4. QED
      BY <2>2, <3>1, <3>2, <3>3, HeadsIt
  <2>4. CASE at = "link"
    <3>1. \A text : ~ Refused(text)
      BY <2>4, ExpectedIs, AcceptedIs DEF Refused
    <3>2. z = << Str(n[i].node.target, 1) >> \o After(n)[i]
      BY <1>6, <2>4 DEF InLink, Link
    <3>3. QED
      BY <1>1, <2>2, <3>1, <3>2, HeadsIt
  <2>5. CASE at = "linkEnd"
    <3>1. ~ Refused(")")
      BY <2>5, ExpectedIs, AcceptedIs DEF Refused
    <3>2. z = After(n)[i]
      BY <1>6, <2>5 DEF InLink
    <3>3. QED
      BY <1>3, <2>2, <3>1, <3>2, EndOfLeaf, HeadsIt
  <2>6. QED
    BY <1>6, <2>3, <2>4, <2>5 DEF InLink
<1>7. CASE InDir(n, i, z)
  <2>1. PICK k \in Nat : k = Due(n, i, depth)
    BY <1>7, DueIs DEF InDir, Enclosed
  <2>2. CASE at = "dir"
    <3>1. ~ Refused(")") /\ ~ Refused("entry")
      BY <2>2, ExpectedIs, AcceptedIs DEF Refused
    <3>2. z = Shut(n, i, k)
      BY <1>7, <2>1, <2>2 DEF InDir
    <3>3. CASE k = 0
      <4>1. i < Len(n)
        <5>1. Due(n, i, depth) = 0 /\ Due(n, i, depth) >= 0 /\ depth \in 0 .. n[i].depth
          BY <1>7, <2>1, <3>3 DEF InDir, Enclosed
        <5>2. QED
          BY <5>1, DueIs
      <4>2. /\ << Tag("(") >> \o (<< Tag("name") >> \o Named(n, i + 1)) \in Seq(Pieces)
            /\ z = << Tag("entry") >> \o (<< Tag("(") >> \o (<< Tag("name") >> \o Named(n, i + 1)))
        BY <3>2, <3>3, <4>1, ShutIs, NamedIs
      <4>3. Tag("entry") \in Pieces /\ Tag("entry").text = "entry"
        BY <1>2 DEF Words
      <4>4. QED
        BY <3>1, <4>2, <4>3, HeadsIt
    <3>4. CASE k # 0
      <4>1. PICK m \in Nat : k = m + 1
        <5>1. k - 1 \in Nat /\ k = (k - 1) + 1
          BY <3>4
        <5>2. QED
          BY <5>1
      <4>2. Shut(n, i, m) \in Seq(Pieces) /\ z = << Tag(")") >> \o Shut(n, i, m)
        BY <3>2, <4>1, ShutIs
      <4>3. QED
        BY <1>3, <3>1, <4>2, HeadsIt
    <3>5. QED
      BY <3>3, <3>4
  <2>3. CASE at = "endEntry"
    <3>1. ~ Refused(")")
      BY <2>3, ExpectedIs, AcceptedIs DEF Refused
    <3>2. z = Shut(n, i, k + 1)
      BY <1>7, <2>1, <2>3 DEF InDir
    <3>3. Shut(n, i, k) \in Seq(Pieces) /\ z = << Tag(")") >> \o Shut(n, i, k)
      BY <3>2, ShutIs
    <3>4. QED
      BY <1>3, <3>1, <3>3, HeadsIt
  <2>4. CASE at \in { "entry", "name", "named" }
    <3>1. i < Len(n)
      BY <1>7, <2>4 DEF InDir
    <3>2. /\ Str(n[i + 1].name, 1) \in Pieces
          /\ << Tag("node") >> \o Written(n, i + 1) \in Seq(Pieces)
          /\ Named(n, i + 1) \in Seq(Pieces)
          /\ << Tag("name") >> \o Named(n, i + 1) \in Seq(Pieces)
      BY <3>1, NamedIs
    <3>3. CASE at = "entry"
      <4>1. ~ Refused("(")
        BY <3>3, ExpectedIs, AcceptedIs DEF Refused
      <4>2. Tag("(") \in Pieces /\ Tag("(").text = "("
        BY <1>2 DEF Words
      <4>3. z = << Tag("(") >> \o (<< Tag("name") >> \o Named(n, i + 1))
        BY <1>7, <3>3 DEF InDir
      <4>4. QED
        BY <3>2, <4>1, <4>2, <4>3, HeadsIt
    <3>4. CASE at = "name"
      <4>1. ~ Refused("name")
        BY <3>4, ExpectedIs, AcceptedIs DEF Refused
      <4>2. Tag("name") \in Pieces /\ Tag("name").text = "name"
        BY <1>2 DEF Words
      <4>3. z = << Tag("name") >> \o Named(n, i + 1)
        BY <1>7, <3>4 DEF InDir
      <4>4. QED
        BY <3>2, <4>1, <4>2, <4>3, HeadsIt
    <3>5. CASE at = "named"
      <4>1. \A text : ~ Refused(text)
        BY <3>5, ExpectedIs, AcceptedIs DEF Refused
      <4>2. z = << Str(n[i + 1].name, 1) >> \o (<< Tag("node") >> \o Written(n, i + 1))
        BY <1>7, <3>5 DEF InDir, Named
      <4>3. QED
        BY <3>2, <4>1, <4>2, HeadsIt
    <3>6. QED
      BY <2>4, <3>3, <3>4, <3>5
  <2>5. QED
    BY <1>7, <2>2, <2>3, <2>4 DEF InDir
<1>8. at # "done"
  BY DEF Running
<1>9. QED
  BY <1>4, <1>5, <1>6, <1>7, <1>8 DEF Stands

\* Of an archive that is not cut short nothing is refused, and its end is not missed.
LEMMA RefusesNothing ==
    ASSUME NEW n, IsNar(n), NEW t \in Seq(Strings), NEW short \in BOOLEAN,
           NEW i \in 1 .. Len(n), NEW z \in Seq(Pieces), IInv,
           Stands(n, i, z), Comes(source, z, t, short), Refuse \/ UnexpectedEof
    PROVE  Follows(n, t, short)'
<1>1. at' = "error"
  BY DEF Refuse, UnexpectedEof
<1>2. Running
  BY DEF Refuse, Refused, UnexpectedEof, Running, Expected, Accepted
<1>3. PICK x \in Pieces, w \in Seq(Pieces) : z = << x >> \o w /\ ~ Refused(x.text)
  BY <1>2, NextPiece DEF Heads
<1>4. source \in Seq(Strings)
  BY DEF IInv
<1>5. CASE short
  BY <1>1, <1>5 DEF Follows
<1>6. CASE ~ short
  <2>1. source # << >> /\ Whole(Head(source)) /\ Head(source) = x
    BY <1>3, <1>4, <1>6, ReadsPiece
  <2>2. QED
    BY <1>3, <2>1 DEF Refuse, UnexpectedEof, EofNext
<1>7. QED
  BY <1>5, <1>6

LEMMA StaysThere ==
    ASSUME NEW n, NEW t, NEW short, UNCHANGED vars, Follows(n, t, short)
    PROVE  Follows(n, t, short)'
<1>1. mode' = mode /\ sink' = sink /\ at' = at /\ depth' = depth /\ target' = target /\ source' = source
  BY DEF vars
<1>2. ASSUME NEW i, NEW z PROVE Stands(n, i, z) => Stands(n, i, z)'
  <2>1. \A node : Made(n, i, node)' <=> Made(n, i, node)
    BY <1>1, Zenon DEF Made
  <2>2. Opened(n, i, z) => Opened(n, i, z)'
    BY <1>1, <2>1, Zenon DEF Opened, Begun
  <2>3. InFile(n, i, z) => InFile(n, i, z)'
    BY <1>1, <2>1, Zenon DEF InFile, Filled
  <2>4. InLink(n, i, z) => InLink(n, i, z)'
    BY <1>1, <2>1, Zenon DEF InLink, Begun
  <2>5. InDir(n, i, z) => InDir(n, i, z)'
    BY <1>1, <2>1, Zenon DEF InDir, Enclosed
  <2>6. QED
    BY <1>1, <2>1, <2>2, <2>3, <2>4, <2>5, Zenon DEF Stands
<1>3. QED
  BY <1>1, <1>2, Zenon DEF Follows

LEMMA ReadEntryFollows ==
    ASSUME NEW n, IsNar(n), NEW t \in Seq(Strings), NEW short \in BOOLEAN,
           IInv, Follows(n, t, short), ReadEntry
    PROVE  Follows(n, t, short)'
<1>1. CASE ReadNothing
  <2>1. UNCHANGED vars
    BY <1>1 DEF ReadNothing
  <2>2. QED
    BY <2>1, StaysThere
<1>2. CASE ~ ReadNothing
  <2>1. at \notin { "error", "overflow" }
    BY DEF ReadEntry, ExpectTag, StackOverflow, EntryKind, FileTag, ContentsWhole, ContentsLength,
       ReadPiece, ReadPadding, ReadNothing, FileEnd, LinkTarget, LinkEnd, DirTag, EntryName,
       Refuse, Refused, UnexpectedEof, Running, Expected, Accepted
  <2>2. PICK i \in 1 .. Len(n), z \in Seq(Pieces) : Stands(n, i, z) /\ Comes(source, z, t, short)
    BY <2>1 DEF Follows
  <2>3. CASE ExpectTag
    BY <2>2, <2>3, ExpectTagFollows
  <2>4. CASE StackOverflow
    BY <2>2, <2>4, StackOverflowFollows
  <2>5. CASE EntryKind
    BY <2>2, <2>5, EntryKindFollows
  <2>6. CASE FileTag
    BY <2>2, <2>6, FileTagFollows
  <2>7. CASE ContentsWhole \/ ContentsLength \/ (\E k \in 1 .. BufLen : ReadPiece(k)) \/ ReadPadding
    BY <2>2, <2>7, ContentsFollow
  <2>8. CASE FileEnd
    BY <2>2, <2>8, FileEndFollows
  <2>9. CASE LinkTarget
    BY <2>2, <2>9, LinkTargetFollows
  <2>10. CASE LinkEnd
    BY <2>2, <2>10, LinkEndFollows
  <2>11. CASE DirTag
    BY <2>2, <2>11, DirTagFollows
  <2>12. CASE EntryName
    BY <2>2, <2>12, EntryNameFollows
  <2>13. CASE Refuse \/ UnexpectedEof
    BY <2>2, <2>13, RefusesNothing
  <2>14. QED
    BY <1>2, <2>3, <2>4, <2>5, <2>6, <2>7, <2>8, <2>9, <2>10, <2>11, <2>12, <2>13, Zenon
       DEF ReadEntry
<1>3. QED
  BY <1>1, <1>2

\* FindsTheEnd and RefusesTheCut speak of where the reader ends.  What makes them so
\* is where it stands before: whatever archive it is that has come, whole or cut, the
\* reader is at some place of it, has made what comes before that place, and has yet
\* to read what comes after it.
JInv ==
    /\ IInv
    /\ \A n \in Nars, t \in Seq(Strings), short \in BOOLEAN :
         Comes(input, Archive[n], t, short) => Follows(n, t, short)

LEMMA ArchiveIs ==
    ASSUME NEW n \in Nars
    PROVE  /\ IsNar(n) /\ 1 \in 1 .. Len(n)
           /\ Archive[n] \in Seq(Pieces)
           /\ Archive[n] = << Tag("nix-archive-1") >> \o Written(n, 1)
<1>1. IsNar(n)
  BY NarAssumption
<1>2. 1 \in 1 .. Len(n)
  <2> DEFINE E == [depth : Nat, name : STRING, node : Node]
  <2>1. n \in Seq(E) /\ n # << >>
    BY <1>1 DEF IsNar
  <2> HIDE DEF E
  <2>2. QED
    BY <2>1
<1>3. PICK a \in Seq(Pieces), o \in Seq(Pieces), x \in Pieces :
        a = After(n)[1] /\ o = Opening(n[1].node) /\ x = Tag("nix-archive-1")
  <2>1. After(n)[1] \in Seq(Pieces) /\ n[1].node \in Node
    BY <1>1, <1>2, AfterIs, NarIs
  <2>2. Opening(n[1].node) \in Seq(Pieces)
    BY <2>1, InsideIs, EmptySeq
  <2>3. QED
    BY <2>1, <2>2, TagIsPiece DEF Words
<1>4. Archive[n] = (<< x >> \o o) \o a
  BY <1>3 DEF Archive
<1>5. << x >> \in Seq(Pieces)
  OBVIOUS
<1>6. (<< x >> \o o) \o a = << x >> \o (o \o a) /\ o \o a \in Seq(Pieces)
  BY <1>5, Regrouped
<1>7. << x >> \o (o \o a) \in Seq(Pieces)
  BY <1>6, Cons
<1>8. QED
  BY <1>1, <1>2, <1>3, <1>4, <1>6, <1>7 DEF Written

LEMMA InitJInv == Init => JInv
<1> SUFFICES ASSUME Init PROVE JInv
  OBVIOUS
<1>1. IInv
  BY InitIInv
<1>2. ASSUME NEW n \in Nars, NEW t \in Seq(Strings), NEW short \in BOOLEAN,
             Comes(input, Archive[n], t, short)
      PROVE  Follows(n, t, short)
  <2>1. PICK z \in Seq(Pieces) : z = Archive[n]
    BY ArchiveIs
  <2>2. /\ IsNar(n) /\ 1 \in 1 .. Len(n)
        /\ z = << Tag("nix-archive-1") >> \o Written(n, 1)
    BY <2>1, ArchiveIs
  <2>3. at = "archive" /\ depth = n[1].depth /\ source = input
    BY <2>2 DEF Init, IsNar
  <2>4. Made(n, 1, DefaultNode)
    <3>1. Put(n, 1, DefaultNode) = << [depth |-> 0, name |-> "", node |-> DefaultNode] >>
      BY <2>2, PutFirst
    <3>2. mode = "whole" => sink = << [depth |-> 0, name |-> "", node |-> DefaultNode] >>
      BY DEF Init
    <3>3. QED
      BY <3>1, <3>2 DEF Made
  <2>5. Stands(n, 1, z)
    BY <2>2, <2>3, <2>4 DEF Stands, Opened, Begun
  <2>6. QED
    BY <1>2, <2>1, <2>2, <2>3, <2>5 DEF Follows
<1>3. QED
  BY <1>1, <1>2 DEF JInv

LEMMA NextJInv == JInv /\ [Next]_vars => JInv'
<1> SUFFICES ASSUME JInv, [Next]_vars PROVE JInv'
  OBVIOUS
<1>1. IInv /\ IInv'
  BY NextIInv DEF JInv
<1>2. input' = input
  <2>1. CASE Take
    BY <2>1 DEF Take
  <2>2. CASE ~ Take
    BY <2>2 DEF Next, ReadEntry, Rest, vars, ExpectTag, StackOverflow, EntryKind, FileTag,
       ContentsWhole, ContentsLength, ReadPiece, ReadPadding, ReadNothing, FileEnd, LinkTarget,
       LinkEnd, DirTag, EntryName, Refuse, UnexpectedEof
  <2>3. QED
    BY <2>1, <2>2
<1>3. ASSUME NEW n \in Nars, NEW t \in Seq(Strings), NEW short \in BOOLEAN,
             Comes(input, Archive[n], t, short)
      PROVE  Follows(n, t, short)'
  <2>1. Follows(n, t, short) /\ IsNar(n)
    BY <1>3, NarAssumption DEF JInv
  <2>2. CASE ReadEntry
    BY <1>1, <2>1, <2>2, ReadEntryFollows
  <2>3. CASE Rest \/ UNCHANGED vars
    <3>1. UNCHANGED vars
      BY <2>3 DEF Rest
    <3>2. QED
      BY <2>1, <3>1, StaysThere
  <2>4. QED
    BY <2>2, <2>3 DEF Next
<1>4. QED
  BY <1>1, <1>2, <1>3 DEF JInv

\* Whatever archive comes, the reader is at a place of it at every moment, with the
\* entries before that place made as they were written, and the rest still to be read.
THEOREM StandsInTheArchive == Spec => []JInv
  BY InitJInv, NextJInv, PTL DEF Spec

LEMMA BeginsIs ==
    ASSUME NEW n \in Nars, input \in Seq(Strings), Begins(input, Archive[n])
    PROVE  /\ Behind(input, Archive[n]) \in Seq(Strings)
           /\ Comes(input, Archive[n], Behind(input, Archive[n]), FALSE)
<1>1. PICK z \in Seq(Pieces), k \in Nat, l \in Nat : z = Archive[n] /\ k = Len(z) /\ l = Len(input)
  BY ArchiveIs
<1>2. k <= l /\ SubSeq(input, 1, k) = z
  BY <1>1 DEF Begins
<1>3. SubSeq(input, k + 1, l) \in Seq(Strings)
  <2>1. \A j \in k + 1 .. l : input[j] \in Strings
    BY <1>1
  <2>2. k + 1 \in Int /\ l \in Int
    OBVIOUS
  <2>3. QED
    BY <2>1, <2>2, SubSeqProperties
<1>4. SubSeq(input, 1, k) \o SubSeq(input, k + 1, l) = SubSeq(input, 1, l)
  <2>1. 1 \in 1 .. Len(input) + 1 /\ k \in 1 - 1 .. Len(input) /\ l \in k .. Len(input)
    BY <1>1, <1>2
  <2>2. QED
    BY <2>1, ConcatAdjacentSubSeq
<1>5. SubSeq(input, 1, l) = input
  BY <1>1, SubSeqFull
<1>6. QED
  BY <1>1, <1>2, <1>3, <1>4, <1>5 DEF Behind, Comes

LEMMA EndIsFound == JInv => FindsTheEnd
<1> SUFFICES ASSUME JInv, ~ Running,
                    NEW n \in Nars, FitsTheStack(n), Begins(input, Archive[n])
             PROVE  /\ at = "done"
                    /\ source = Behind(input, Archive[n])
                    /\ mode = "whole" => sink = n
  BY DEF FindsTheEnd
<1>1. input \in Seq(Strings)
  BY SourceAssumption DEF JInv, IInv, TypeOK, Strings
<1>2. PICK t \in Seq(Strings) : t = Behind(input, Archive[n]) /\ Comes(input, Archive[n], t, FALSE)
  BY <1>1, BeginsIs
<1>3. Follows(n, t, FALSE)
  BY <1>2 DEF JInv
<1>4. at = "done"
  BY <1>3 DEF Follows, Running
<1>5. PICK i \in 1 .. Len(n), z \in Seq(Pieces) : Stands(n, i, z) /\ Comes(source, z, t, FALSE)
  BY <1>3, <1>4 DEF Follows
<1>6. i = Len(n) /\ Made(n, i, n[i].node) /\ z = << >>
  BY <1>4, <1>5 DEF Stands, Opened, InFile, InLink, InDir
<1>7. source = t
  BY <1>5, <1>6 DEF Comes
<1>8. mode = "whole" => sink = n
  BY <1>6, ArchiveIs, PutWhole DEF Made
<1>9. QED
  BY <1>2, <1>4, <1>7, <1>8

\* Any Nar that the stack has room for, read by either reader from an archive with
\* anything behind it, is read to its end and no further, and is made as it was written.
THEOREM FindsEveryEnd == Spec => []FindsTheEnd
  BY EndIsFound, StandsInTheArchive, PTL

LEMMA CutIsRefused == JInv => RefusesTheCut
<1> SUFFICES ASSUME JInv, at = "done", NEW n \in Nars, Cut(input, Archive[n]) PROVE FALSE
  BY DEF RefusesTheCut
<1>1. << >> \in Seq(Strings)
  OBVIOUS
<1>2. Follows(n, << >>, TRUE)
  BY <1>1 DEF JInv, Comes
<1>3. PICK i \in 1 .. Len(n), z \in Seq(Pieces) : Stands(n, i, z) /\ Comes(source, z, << >>, TRUE)
  BY <1>2 DEF Follows
<1>4. z = << >>
  BY <1>3 DEF Stands, Opened, InFile, InLink, InDir
<1>5. QED
  BY <1>3, <1>4, NothingIsCut DEF Comes

\* No archive that ends too soon, between two strings or in the middle of one, is ever
\* taken for a Nar, whatever Nar it is.
THEOREM RefusesEveryCut == Spec => []RefusesTheCut
  BY CutIsRefused, StandsInTheArchive, PTL

LEMMA OverflowIsTooDeep == JInv => OverflowsOnlyTooDeep
<1> SUFFICES ASSUME JInv, at = "overflow", NEW n \in Nars,
                    Begins(input, Archive[n]) \/ Cut(input, Archive[n])
             PROVE  ~ FitsTheStack(n)
  BY DEF OverflowsOnlyTooDeep
<1>1. input \in Seq(Strings)
  BY SourceAssumption DEF JInv, IInv, TypeOK, Strings
<1>2. CASE Begins(input, Archive[n])
  BY <1>1, <1>2, BeginsIs DEF JInv, Follows
<1>3. CASE Cut(input, Archive[n])
  <2>1. << >> \in Seq(Strings) /\ Comes(input, Archive[n], << >>, TRUE)
    BY <1>3 DEF Comes
  <2>2. QED
    BY <2>1 DEF JInv, Follows
<1>4. QED
  BY <1>2, <1>3

\* The stack overflows only for a Nar that is too deep for it, however wide it is.
THEOREM OverflowsOnlyWhenTooDeep == Spec => []OverflowsOnlyTooDeep
  BY OverflowIsTooDeep, StandsInTheArchive, PTL
=============================================================================
