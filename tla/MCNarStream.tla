---------------------------- MODULE MCNarStream ----------------------------
(***************************************************************************)
(* Instances of NarStream.tla for TLC: every Nar of a few shapes, files    *)
(* shorter than the buffer, as long and longer, with and without padding,  *)
(* and something after the Nar; streams that are not a Nar; and Nars whose *)
(* stream ends too soon.                                                   *)
(***************************************************************************)
EXTENDS Nar

Files == { File(x, t[1], t[2]) : x \in BOOLEAN,
             t \in { << "", 0 >>, << "short", 1 >>, << "block", 4 >>, << "long", 7 >> } }

Leaves == Files \cup { Symlink("target") }

SmallDirs == { Directory(<< >>) } \cup { Directory(<< Entry("a", n) >>) : n \in Leaves }

FewNars == { File(TRUE, "short", 1), File(FALSE, "long", 7), Symlink("target") }

PairDirs == { Directory(<< Entry("a", m), Entry(")", n) >>) : m, n \in FewNars }

NestedDirs ==
    { Directory(<< Entry("a", d), Entry("entry", n) >>) :
        d \in { Directory(<< >>), Directory(<< Entry("(", File(TRUE, "short", 1)) >>),
                Directory(<< Entry("node", Directory(<< >>)) >>) },
        n \in { Symlink(")"), Directory(<< >>) } }

\* A directory wider than the stack is deep, one that is too deep, and one that
\* is as deep in its last entry as the stack allows.
WideDir == Directory(<< Entry("node", Symlink("target")), Entry("b", Directory(<< >>)),
                        Entry("a", Symlink("target")) >>)

Within(d) == Directory(<< Entry("b", WideDir), Entry("a", d) >>)

OddDirs == { WideDir, Within(WideDir), Within(Within(Directory(<< >>))), Within(Within(WideDir)) }

\* Those that are spoilt or cut below.
Samples == { File(TRUE, "long", 7), Symlink("target"),
             Directory(<< Entry("a", Directory(<< Entry("b", File(FALSE, "short", 1)) >>)) >>) }

Trees == Leaves \cup SmallDirs \cup PairDirs \cup NestedDirs \cup OddDirs \cup Samples

\* The Nars as the list of their entries.
NarsInMemory == { Entries(n, "", 0) : n \in Trees }

\* It is what Serialize of nar.rs writes that the properties are about.
ASSUME ArchiveAssumption == \A n \in Trees : Serialize(n) = Archive[Entries(n, "", 0)]

\* The names in it, as their bytes order them.
Names == << "(", ")", "a", "b", "entry", "node" >>

\* What may follow a Nar: nothing, or what looks like the rest of one.
Trails == { << >>, << Tag(")"), Tag("entry") >> }

NarSources == { Serialize(n) \o t : n \in Trees, t \in Trails }

\* Accepted although the library does not write it so.
OddSources ==
    { << Tag("nix-archive-1"), Tag("("), Tag("type"), Tag("regular") >> \o s :
        s \in { << Tag(")") >>,
                << Tag("executable"), Tag(""), Tag(")") >>,
                << Tag("executable"), Tag(""), Tag("executable"), Tag(""),
                   Tag("contents"), Str("long", 7), Tag(")") >> } }

\* A Nar with one string replaced.
Replace(ss, i, s) == [ss EXCEPT ![i] = s]

WrongSources ==
    UNION { { Replace(Serialize(n), i, Tag("other")) : i \in DOMAIN Serialize(n) }
            : n \in Samples }

\* A Nar whose stream ends between two strings, in a tag or its padding, ...
EndsEarly(ss) == { SubSeq(ss, 1, i) : i \in 0 .. Len(ss) - 1 }

EndsWithin(ss, i) ==
    { SubSeq(ss, 1, i - 1) \o << CutAt(ss[i], n) >> : n \in 0 .. ss[i].here - 1 }

IsContents(ss, i) == i > 1 /\ ss[i - 1] = Tag("contents")

CutSources ==
    UNION { EndsEarly(Serialize(n)) : n \in Samples }
    \cup UNION { UNION { EndsWithin(Serialize(n), i) :
                   i \in { j \in DOMAIN Serialize(n) : ~ IsContents(Serialize(n), j) } }
                 : n \in Samples }

\* ... or in the contents of a file.
CutContentsSources ==
    UNION { UNION { EndsWithin(Serialize(n), i) :
              i \in { j \in DOMAIN Serialize(n) : IsContents(Serialize(n), j) } }
            : n \in Samples }

AllSources ==
    NarSources \cup OddSources \cup WrongSources \cup CutSources \cup CutContentsSources

-----------------------------------------------------------------------------
\* A Nar but for the order of its entries.
RECURSIVE Unordered(_)
Unordered(n) ==
    IF n.kind # "directory" THEN n
    ELSE [kind    |-> "directory",
          length  |-> Len(n.entries),
          entries |-> { [name |-> n.entries[i].name, node |-> Unordered(n.entries[i].node)] :
                          i \in DOMAIN n.entries }]

RECURSIVE Ordered(_)
Ordered(n) ==
    n.kind = "directory" =>
        \A i \in DOMAIN n.entries :
            /\ Ordered(n.entries[i].node)
            /\ i > 1 => Rank(n.entries[i - 1].name) < Rank(n.entries[i].name)

\* Nar::sort puts every directory of a Nar that was read in order, at all levels, and
\* changes nothing else: two Nars with the same entries become equal, and so do
\* their archives.
SortIsCanonical ==
    (at = "done" /\ mode = "whole") =>
        \A n \in Trees : input = Serialize(n) =>
            /\ Ordered(Sort(n)) /\ Unordered(Sort(n)) = Unordered(n)
            /\ \A m \in Trees : Unordered(m) = Unordered(n) =>
                  Serialize(Sort(m)) = Serialize(Sort(n))

\* Reading comes to an end, with a Nar or an error, whatever comes -- except for
\* `stream` when the stream ends in the contents of a file: see Ends.
EndsUnlessCut == (mode = "whole" \/ input \notin CutContentsSources) => Ends
=============================================================================
