----------------------------- MODULE WorkerOps -----------------------------
(***************************************************************************)
(* The worker operations a client may ask of a Nix daemon and the shape of *)
(* what travels for each of them: the fields that follow the opcode,       *)
(* whether a framed data stream follows the fields, and the fields of the  *)
(* answer.  Translated from the table of `enum WorkerOp` and the structs   *)
(* it names in src/nix-remote/src/worker_op.rs.                            *)
(*                                                                         *)
(* A field is described by its kind.  Session.tla takes a field for one    *)
(* word, whatever its kind; WireTypes.tla says what the kinds are made of. *)
(***************************************************************************)
EXTENDS Naturals, Sequences

\* The tagged enums that travel as a field: their tags.
Verbosity   == 0 .. 7
BuildMode   == 0 .. 2
GcAction    == 0 .. 3
BuildStatus == 0 .. 14

EnumTags ==
    [ Verbosity   |-> Verbosity,
      BuildMode   |-> BuildMode,
      GcAction    |-> GcAction,
      BuildStatus |-> BuildStatus ]

\* The kinds a field may have.
Kind ==
    { "bool", "u64", "path", "string", "hash", "set", "paths", "map", "option",
      "outputs", "results", "realisation", "nar", "Verbosity", "BuildMode", "GcAction", "BuildStatus" }

\* Structs, as the sequence of their fields' kinds.
SetOptions ==
    << "bool", "bool", "bool", "Verbosity", "u64", "u64", "u64", "Verbosity",
       "u64", "u64", "u64", "bool", "map" >>

AddToStore == << "path", "path", "set", "bool" >>

BuildPaths == << "paths", "BuildMode" >>

CollectGarbage == << "GcAction", "set", "bool", "u64", "u64", "u64", "u64" >>

CollectGarbageResponse == << "set", "u64", "u64" >>

AddToStoreNar ==
    << "path", "path", "string", "set", "u64", "u64", "bool", "set",
       "string", "bool", "bool" >>

ValidPathInfo ==
    << "path", "hash", "set", "u64", "u64", "bool", "set", "string" >>

ValidPathInfoWithPath == << "path" >> \o ValidPathInfo

Derivation == << "outputs", "set", "string", "path", "set", "map" >>

BuildDerivation == << "path" >> \o Derivation \o << "BuildMode" >>

BuildResult == << "BuildStatus", "string", "u64", "bool", "u64", "u64", "map" >>

QueryMissingResponse == << "set", "set", "set", "u64", "u64" >>

AddMultipleToStore == << "bool", "bool" >>

VerifyStore == << "bool", "bool" >>

QueryValidPaths == << "set", "bool" >>

AddSignatures == << "path", "set" >>

DerivationOutput == << "path", "string", "string" >>

\* The two wrappers of an operation's fields: Plain, and WithFramedSource,
\* which alone requires a stream to be forwarded after the fields.
Plain(tag, body, reply) ==
    [tag |-> tag, body |-> body, framed |-> FALSE, reply |-> reply]

WithFramedSource(tag, body, reply) ==
    [tag |-> tag, body |-> body, framed |-> TRUE, reply |-> reply]

WorkerOpTable ==
    { Plain(1,  <<"path">>, <<"bool">>),                  \* IsValidPath
      Plain(6,  <<"path">>, <<"set">>),                   \* QueryReferrers
      WithFramedSource(7, AddToStore, ValidPathInfoWithPath),
      Plain(9,  BuildPaths, <<"u64">>),
      Plain(10, <<"path">>, <<"u64">>),                   \* EnsurePath
      Plain(11, <<"path">>, <<"u64">>),                   \* AddTempRoot
      Plain(14, <<>>, <<"map">>),                         \* FindRoots
      Plain(19, SetOptions, <<>>),
      Plain(20, CollectGarbage, CollectGarbageResponse),
      Plain(23, <<>>, <<"set">>),                         \* QueryAllValidPaths
      Plain(26, <<"path">>, <<"option">>),                \* QueryPathInfo
      Plain(29, <<"string">>, <<"path">>),                \* QueryPathFromHashPart
      Plain(31, QueryValidPaths, <<"set">>),
      Plain(32, <<"set">>, <<"set">>),                    \* QuerySubstitutablePaths
      Plain(33, <<"path">>, <<"set">>),                   \* QueryValidDerivers
      Plain(34, <<>>, <<"u64">>),                         \* OptimiseStore
      Plain(35, VerifyStore, <<"bool">>),
      Plain(36, BuildDerivation, BuildResult),
      Plain(37, AddSignatures, <<"u64">>),
      Plain(38, <<"path">>, <<"nar">>),                   \* NarFromPath
      WithFramedSource(39, AddToStoreNar, <<>>),
      Plain(40, <<"paths">>, QueryMissingResponse),
      Plain(41, <<"path">>, <<"map">>),                   \* QueryDerivationOutputMap
      Plain(42, <<"realisation">>, <<>>),                 \* RegisterDrvOutput
      Plain(43, <<"string">>, <<"set">>),                 \* QueryRealisation
      WithFramedSource(44, AddMultipleToStore, <<>>),
      WithFramedSource(45, <<"path">>, <<"u64">>),        \* AddBuildLog
      Plain(46, BuildPaths, <<"results">>) }              \* BuildPathsWithResults

WorkerOp == { r.tag : r \in WorkerOpTable }

OpOf(tag) == CHOOSE r \in WorkerOpTable : r.tag = tag

Body(tag)              == OpOf(tag).body
Reply(tag)             == OpOf(tag).reply
RequiresStreaming(tag) == OpOf(tag).framed
NarFromPath            == 38

-----------------------------------------------------------------------------
\* What a field becomes between being decoded and being encoded again.

\* Does a word decode as a field of this kind?  Only an enum has words that
\* name no variant.
Decodes(kind, word) == kind \in DOMAIN EnumTags => word \in EnumTags[kind]

\* Mutant of Reencoded: a bool is written back inverted.
ReencodedInverted(kind, word) ==
    IF kind = "bool" THEN (IF word = 0 THEN 1 ELSE 0) ELSE word

\* The word written for a field that was read as `word`: deserialize_bool takes
\* every word but 0 for true, serialize_bool writes true as 1.
Reencoded(kind, word) == IF kind = "bool" /\ word # 0 THEN 1 ELSE word
=============================================================================
