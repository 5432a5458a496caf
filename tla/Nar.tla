-------------------------------- MODULE Nar --------------------------------
(***************************************************************************)
(* The Nar in memory and how it is written: the Serialize of Nar and of    *)
(* Untagged<&Nar> in src/nix-remote/src/nar.rs.                            *)
(*                                                                         *)
(* A Nar is a node of NarStream; a directory has the sequence of its       *)
(* entries with it.  Untagged calls itself, so the operators are RECURSIVE *)
(* and nothing is proved in this module.                                   *)
(***************************************************************************)
EXTENDS NarArchive, SequencesExt

CONSTANT NameOrder      \* the names there are, in the order of their bytes

File(executable, text, len) == FileNode(executable, text, len)
Symlink(path)               == SymlinkNode(path)
Directory(entries)          == [kind |-> "directory", entries |-> entries]
Entry(name, node)           == [name |-> name, node |-> node]

\* The strings of a node.
RECURSIVE Untagged(_)

SerializeEntry(e) == Naming(e.name) \o Untagged(e.node) \o << Tag(")") >>

Body(nar) ==
    IF nar.kind = "directory"
      THEN FlattenSeq([i \in DOMAIN nar.entries |-> SerializeEntry(nar.entries[i])])
      ELSE << >>

Untagged(nar) == Opening(nar) \o Body(nar) \o << Tag(")") >>

Serialize(nar) == << Tag("nix-archive-1") >> \o Untagged(nar)

-----------------------------------------------------------------------------
\* Nar::sort.

Rank(name) == CHOOSE i \in DOMAIN NameOrder : NameOrder[i] = name

\* Where sort_by, which is stable, puts the i-th entry.
PlaceOf(es, i) ==
    1 + Cardinality({ j \in DOMAIN es :
            \/ Rank(es[j].name) < Rank(es[i].name)
            \/ Rank(es[j].name) = Rank(es[i].name) /\ j < i })

SortBy(es) == [ p \in DOMAIN es |-> es[CHOOSE i \in DOMAIN es : PlaceOf(es, i) = p] ]

RECURSIVE Sort(_)

\* A mutant: only the outermost directory is sorted.
SortEntriesShallow(es) == SortBy(es)

SortEntries(es) == [ p \in DOMAIN es |-> Entry(SortBy(es)[p].name, Sort(SortBy(es)[p].node)) ]

Sort(nar) == IF nar.kind = "directory" THEN Directory(SortEntries(nar.entries)) ELSE nar

-----------------------------------------------------------------------------
\* What reading the Nar should make of a sink, the entries in the order they are
\* begun.
RECURSIVE Entries(_, _, _)

Entries(nar, name, level) ==
    LET this == [depth |-> level, name |-> name,
                 node |-> IF nar.kind = "directory" THEN DirNode ELSE nar]
    IN  << this >> \o
          IF nar.kind = "directory"
            THEN FlattenSeq([i \in DOMAIN nar.entries |->
                   Entries(nar.entries[i].node, nar.entries[i].name, level + 1)])
            ELSE << >>
=============================================================================
