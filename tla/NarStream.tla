----------------------------- MODULE NarStream -----------------------------
(***************************************************************************)
(* The reader of the Nar archive format in src/nix-remote/src/nar.rs.  A   *)
(* Nar is not framed: where it ends is known only by parsing it, which     *)
(* read_entry does, one string at a time.  It is used in two ways: `stream`*)
(* parses into the Null sink through a Tee that copies what is read, and   *)
(* Nar's Deserialize parses into a Nar in memory.  They differ in how the  *)
(* contents of a file are read: write_string of NixDeserializer reads them *)
(* in pieces, the default one of StringReader reads them whole.            *)
(*                                                                         *)
(* read_entry calls itself for the entries of a directory; the model keeps *)
(* the depth of those calls, for which the stack must have room, and where *)
(* the current one stands.                                                 *)
(***************************************************************************)
EXTENDS Integers, Sequences

CONSTANTS
    Sources,    \* what may come to be read, a sequence of strings each
    Modes,      \* the readers: "stream", "whole"
    MaxDepth,   \* how many calls of read_entry the stack holds, after the first
    BufLen,     \* length of the buffer of write_string, 4096
    Align       \* strings are padded to a multiple of this, 8

ASSUME SizeAssumption == BufLen \in Nat \ {0} /\ Align \in Nat \ {0}
ASSUME DepthAssumption == MaxDepth \in Nat
ASSUME ModeAssumption == Modes \subseteq { "stream", "whole" }

\* A string as it travels: its text, its length, and how much of the text and
\* the padding comes before the end of the stream.
Padding(len) == IF (len % Align) > 0 THEN Align - (len % Align) ELSE 0

Str(text, len) == [text |-> text, len |-> len, here |-> len + Padding(len)]
CutAt(s, n)    == [s EXCEPT !.here = n]
Whole(s)       == s.here = s.len + Padding(s.len)

ASSUME SourceAssumption ==
    Sources \subseteq Seq([text : STRING, len : Nat, here : Nat])

VARIABLES
    mode,       \* which reader
    input,      \* what came to be read
    source,     \* what of it has not been read
    output,     \* what the Tee has copied
    remaining,  \* of the contents being read, what has not been read
    copied,     \* of the contents being read, what the Tee has copied
    at,         \* where read_entry stands
    depth,      \* how many directories the entry is in
    target,     \* the target read of a symlink
    sink        \* the entries made, in the order they were begun

vars == << mode, input, source, output, remaining, copied, at, depth, target, sink >>

-----------------------------------------------------------------------------
\* Sinks.  An entry of the Nar in memory is its depth, its name and its node;
\* a directory is followed by its entries.
FileNode(executable, text, len) ==
    [kind |-> "file", executable |-> executable, text |-> text, len |-> len]
SymlinkNode(path) == [kind |-> "symlink", target |-> path]
DirNode           == [kind |-> "directory"]

DefaultNode == FileNode(FALSE, "", 0)

CreateEntry(name) ==
    IF mode = "stream" THEN UNCHANGED sink
    ELSE sink' = Append(sink, [depth |-> depth + 1, name |-> name, node |-> DefaultNode])

Become(node) ==
    IF mode = "stream" THEN UNCHANGED sink
    ELSE sink' = [sink EXCEPT ![Len(sink)].node = node]

SetExecutable ==
    IF mode = "stream" THEN UNCHANGED sink
    ELSE sink' = [sink EXCEPT ![Len(sink)].node.executable = TRUE]

AddContents(s) ==
    sink' = [sink EXCEPT ![Len(sink)].node.text = s.text, ![Len(sink)].node.len = s.len]

Init ==
    /\ mode \in Modes
    /\ input \in Sources
    /\ source = input
    /\ output = << >>
    /\ remaining = 0 /\ copied = 0
    /\ at = "archive"
    /\ depth = 0
    /\ target = ""
    /\ sink = IF mode = "stream" THEN << >>
              ELSE << [depth |-> 0, name |-> "", node |-> DefaultNode] >>

-----------------------------------------------------------------------------
\* Reading.

Tee(ss) == output' = IF mode = "stream" THEN output \o ss ELSE output

\* expect_string: the next string, to the end of its padding.
Take ==
    /\ source # << >>
    /\ Whole(Head(source))
    /\ source' = Tail(source)
    /\ Tee(<< Head(source) >>)
    /\ UNCHANGED << mode, input, remaining, copied >>

\* A mutant: the root is taken for an entry of a directory.
EntryEndUnrooted == at' = "endEntry" /\ depth' = depth - 1

\* A mutant: the end of any entry is taken for the end of the Nar.
EntryEndOutermost == at' = "done" /\ UNCHANGED depth

\* A mutant: the end of an entry does not give back its call.
EntryEndKept == at' = (IF depth = 0 THEN "done" ELSE "endEntry") /\ UNCHANGED depth

\* Where read_entry goes when an entry ends: back to the directory it is in.
EntryEnd ==
    IF depth = 0 THEN at' = "done" /\ UNCHANGED depth
                 ELSE at' = "endEntry" /\ depth' = depth - 1

\* Where only one tag will do: the tag, and where the parse goes from there.
Expected ==
    [archive  |-> << "nix-archive-1", "open" >>,
     open     |-> << "(", "type" >>,
     type     |-> << "type", "kind" >>,
     exec     |-> << "", "file" >>,
     target   |-> << "target", "link" >>,
     entry    |-> << "(", "name" >>,
     name     |-> << "name", "named" >>,
     node     |-> << "node", "open" >>,
     endEntry |-> << ")", "dir" >>]

ExpectTag ==
    /\ at \in DOMAIN Expected
    /\ Take
    /\ Head(source).text = Expected[at][1]
    /\ at = "node" => depth < MaxDepth
    /\ at' = Expected[at][2]
    /\ depth' = IF at = "node" THEN depth + 1 ELSE depth
    /\ IF at = "exec" THEN SetExecutable ELSE UNCHANGED sink
    /\ UNCHANGED target

\* A call that the stack has no room for: the process is aborted.
StackOverflow ==
    /\ at = "node" /\ depth = MaxDepth
    /\ Take
    /\ Head(source).text = "node"
    /\ at' = "overflow"
    /\ UNCHANGED << depth, target, sink >>

EntryKind ==
    /\ at = "kind"
    /\ Take
    /\ \/ Head(source).text = "regular" /\ at' = "file" /\ Become(DefaultNode)
       \/ Head(source).text = "symlink" /\ at' = "target" /\ UNCHANGED sink
       \/ Head(source).text = "directory" /\ at' = "dir" /\ Become(DirNode)
    /\ UNCHANGED << depth, target >>

\* "executable" may come any number of times, and "contents" may be left out.
FileTag ==
    /\ at = "file"
    /\ Take
    /\ \/ Head(source).text = "executable" /\ at' = "exec" /\ UNCHANGED depth
       \/ Head(source).text = "contents" /\ at' = "contents" /\ UNCHANGED depth
       \/ Head(source).text = ")" /\ EntryEnd
    /\ UNCHANGED << target, sink >>

FileEnd ==
    /\ at = "fileEnd"
    /\ Take
    /\ Head(source).text = ")"
    /\ EntryEnd
    /\ UNCHANGED << target, sink >>

LinkTarget ==
    /\ at = "link"
    /\ Take
    /\ target' = Head(source).text
    /\ at' = "linkEnd"
    /\ UNCHANGED << depth, sink >>

LinkEnd ==
    /\ at = "linkEnd"
    /\ Take
    /\ Head(source).text = ")"
    /\ Become(SymlinkNode(target))
    /\ EntryEnd
    /\ target' = ""

DirTag ==
    /\ at = "dir"
    /\ Take
    /\ \/ Head(source).text = ")" /\ EntryEnd
       \/ Head(source).text = "entry" /\ at' = "entry" /\ UNCHANGED depth
    /\ UNCHANGED << target, sink >>

EntryName ==
    /\ at = "named"
    /\ Take
    /\ CreateEntry(Head(source).text)
    /\ at' = "node"
    /\ UNCHANGED << depth, target >>

\* write_string reads the whole string and then writes it ...
ContentsWhole ==
    /\ at = "contents" /\ mode = "whole"
    /\ Take
    /\ AddContents(Head(source))
    /\ at' = "fileEnd"
    /\ UNCHANGED << depth, target >>

\* ... or, for a NixDeserializer, reads its length,
ContentsLength ==
    /\ at = "contents" /\ mode = "stream"
    /\ source # << >>
    /\ at' = "piece"
    /\ remaining' = Head(source).len
    /\ UNCHANGED << mode, input, source, output, copied, depth, target, sink >>

Least(m, n) == IF m <= n THEN m ELSE n

\* then as much of its text as a read returns, which the Tee copies,
MaxLen == Least(BufLen, remaining)

\* What has come of the string being read.
Available == Head(source).here - (Head(source).len - remaining)

\* A mutant: the Tee writes the buffer, not the part that was read.
TeeCopiesBuffer(maxLen, n) == maxLen

\* What the Tee copies of a read of n into a buffer of maxLen.
TeeCopies(maxLen, n) == n

ReadPiece(n) ==
    /\ at = "piece" /\ remaining > 0
    /\ n \in 1 .. Least(MaxLen, Available)
    /\ copied' = copied + TeeCopies(MaxLen, n)
    /\ remaining' = remaining - n
    /\ UNCHANGED << mode, input, source, output, at, depth, target, sink >>

\* and then the padding.
ReadPadding ==
    /\ at = "piece" /\ remaining <= 0
    /\ Whole(Head(source))
    /\ source' = Tail(source)
    /\ output' = Append(output, CutAt(Head(source), copied + Padding(Head(source).len)))
    /\ at' = "fileEnd"
    /\ remaining' = 0 /\ copied' = 0
    /\ UNCHANGED << mode, input, depth, target, sink >>

\* At the end of the stream the read returns nothing, and the loop goes on.
ReadNothing ==
    /\ at = "piece" /\ remaining > 0
    /\ Available <= 0
    /\ UNCHANGED vars

\* Some other string than the ones the parse can go on from is an error.
Accepted ==
    [kind    |-> { "regular", "symlink", "directory" },
     file    |-> { "executable", "contents", ")" },
     fileEnd |-> { ")" },
     linkEnd |-> { ")" },
     dir     |-> { ")", "entry" }]

Refused(text) ==
    \/ at \in DOMAIN Expected /\ text # Expected[at][1]
    \/ at \in DOMAIN Accepted /\ text \notin Accepted[at]

Refuse ==
    /\ Take
    /\ Refused(Head(source).text)
    /\ at' = "error"
    /\ UNCHANGED << depth, target, sink >>

Running == at \notin { "done", "error", "overflow" }

\* Where a string is read whole, or a padding, and it has not all come.
EofNext ==
    /\ source # << >> => ~ Whole(Head(source))
    /\ at = "piece" => remaining <= 0
    /\ (at = "contents" /\ mode = "stream") => source = << >>

\* A mutant: the end of the stream ends the Nar.
UnexpectedEofIsEnd ==
    /\ Running /\ EofNext
    /\ Tee(source)
    /\ source' = << >>
    /\ at' = "done"
    /\ UNCHANGED << mode, input, remaining, copied, depth, target, sink >>

\* A mutant: a read that returns nothing is retried.
UnexpectedEofRetried == Running /\ EofNext /\ UNCHANGED vars

\* This is an error too.  The Tee has copied what there was.
UnexpectedEof ==
    /\ Running
    /\ EofNext
    /\ Tee(source)
    /\ source' = << >>
    /\ at' = "error"
    /\ remaining' = 0 /\ copied' = 0
    /\ UNCHANGED << mode, input, depth, target, sink >>

Rest == ~ Running /\ UNCHANGED vars

ReadEntry ==
    \/ ExpectTag \/ StackOverflow \/ EntryKind
    \/ FileTag \/ ContentsWhole \/ ContentsLength \/ (\E n \in 1 .. BufLen : ReadPiece(n))
    \/ ReadPadding \/ ReadNothing \/ FileEnd
    \/ LinkTarget \/ LinkEnd
    \/ DirTag \/ EntryName
    \/ Refuse \/ UnexpectedEof

Next == ReadEntry \/ Rest

Spec == Init /\ [][Next]_vars

\* A call runs to its end by itself.
FairSpec == Spec /\ WF_vars(Next)

-----------------------------------------------------------------------------
\* Each variable holds a value of its kind, and the depth is that of the recursion:
\* no entry is left that was not begun, or begun without room on the stack.
TypeOK ==
    /\ mode \in Modes
    /\ input \in Sources
    /\ remaining \in Nat
    /\ copied \in Nat
    /\ depth \in 0 .. MaxDepth
    /\ at \in DOMAIN Expected \cup DOMAIN Accepted
               \cup { "link", "named", "contents", "piece", "done", "error", "overflow" }

\* What has been copied and what is still to be read are, together, what came:
\* the Tee leaves nothing out, writes nothing twice and nothing that was not read,
\* in whatever pieces the contents came and wherever the parse stops.
CopiesWhatItReads ==
    mode = "stream" =>
        /\ output \o source = input
        /\ at = "piece" => copied + remaining = Head(source).len

\* The reader comes to an end, with the Nar, an error or the end of the process.
Ends == <> ~ Running
=============================================================================
