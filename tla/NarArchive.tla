----------------------------- MODULE NarArchive -----------------------------
(***************************************************************************)
(* What the reader of NarStream.tla should make of an archive that this    *)
(* library has written, whole or cut short.                                *)
(*                                                                         *)
(* A Nar is here what a sink makes of it: its entries in the order they    *)
(* are begun, each with its depth.  Written like this it needs no operator *)
(* that calls itself, and can be reasoned about; Nar.tla has the serializer*)
(* as it is in the code, and MCNarStream.tla compares the two.             *)
(***************************************************************************)
EXTENDS NarStream

CONSTANT Nars       \* the Nars in memory

Node ==
    [kind : { "file" }, executable : BOOLEAN, text : STRING, len : Nat]
      \cup [kind : { "symlink" }, target : STRING]
      \cup { DirNode }

\* The first entry is the Nar itself.  Only a directory has entries, one deeper;
\* after any other, an entry of a directory that it is in comes next.
IsNar(n) ==
    /\ n \in Seq([depth : Nat, name : STRING, node : Node])
    /\ n # << >> /\ n[1].depth = 0 /\ n[1].name = ""
    /\ \A i \in 2 .. Len(n) :
         /\ n[i].depth > 0
         /\ n[i].depth <= n[i - 1].depth + 1
         /\ n[i].depth = n[i - 1].depth + 1 => n[i - 1].node = DirNode

ASSUME NarAssumption == \A n \in Nars : IsNar(n)

-----------------------------------------------------------------------------
\* The strings of an archive.
Tag(text) == Str(text, IF text = "" THEN 0 ELSE 1)

Naming(name) == << Tag("entry"), Tag("("), Tag("name"), Str(name, 1), Tag("node") >>

Contents(node) == << Tag("contents"), Str(node.text, node.len) >>

Inside(node) ==
    CASE node.kind = "file" ->
           << Tag("regular") >>
             \o (IF node.executable THEN << Tag("executable"), Tag("") >> ELSE << >>)
             \o Contents(node)
      [] node.kind = "symlink" ->
           << Tag("symlink"), Tag("target"), Str(node.target, 1) >>
      [] node.kind = "directory" -> << Tag("directory") >>

Opening(node) == << Tag("("), Tag("type") >> \o Inside(node)

\* How many nodes and entries end, from depth d, before the entry after the i-th
\* begins: two for each level, and one for the Nar itself.
Due(n, i, d) == IF i = Len(n) THEN 2 * d + 1 ELSE 2 * (d + 1 - n[i + 1].depth)

Closing(k) == [ j \in 1 .. k |-> Tag(")") ]

\* What is written after the i-th entry has been begun.
After(n) ==
    LET after[i \in 1 .. Len(n)] ==
            Closing(Due(n, i, n[i].depth))
              \o IF i = Len(n) THEN << >>
                 ELSE Naming(n[i + 1].name) \o Opening(n[i + 1].node) \o after[i + 1]
    IN  after

Archive ==
    [ n \in Nars |-> << Tag("nix-archive-1") >> \o Opening(n[1].node) \o After(n)[1] ]

-----------------------------------------------------------------------------
\* s is z and what follows it.
Begins(s, z) == Len(z) <= Len(s) /\ SubSeq(s, 1, Len(z)) = z
Behind(s, z) == SubSeq(s, Len(z) + 1, Len(s))

\* s is z cut short: l strings of it, and of the next one not all or nothing.
Cut(s, z) ==
    \E l \in 0 .. Len(z) - 1 :
        /\ Len(s) \in { l, l + 1 }
        /\ \A i \in 1 .. l : s[i] = z[i]
        /\ Len(s) > l => \E k \in 0 .. z[l + 1].here - 1 : s[l + 1] = CutAt(z[l + 1], k)

FitsTheStack(n) == \A i \in DOMAIN n : n[i].depth <= MaxDepth

\* Read to its end, a Nar the library has written leaves what follows it unread
\* -- the answer to the next operation --, and the Nar in memory is the one
\* that was written, entry for entry.
FindsTheEnd ==
    ~ Running =>
        \A n \in Nars : FitsTheStack(n) /\ Begins(input, Archive[n]) =>
            /\ at = "done"
            /\ source = Behind(input, Archive[n])
            /\ mode = "whole" => sink = n

\* It takes a Nar deeper than the stack to overflow it, in either reader: neither a
\* wide directory nor many small ones do (read_entry returns before the next entry).
OverflowsOnlyTooDeep ==
    at = "overflow" =>
        \A n \in Nars :
            Begins(input, Archive[n]) \/ Cut(input, Archive[n]) => ~ FitsTheStack(n)

\* A Nar whose stream ends too soon, wherever it ends, is never taken for a Nar.
RefusesTheCut == at = "done" => \A n \in Nars : ~ Cut(input, Archive[n])
=============================================================================
