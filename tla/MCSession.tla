----------------------------- MODULE MCSession -----------------------------
(***************************************************************************)
(* Instances of Session.tla for TLC.  Scripts are built from real opcodes; *)
(* 7 stands for a path, 5 for a byte of file data, 10 for a number or text *)
(* with a newline byte (10 is 0x0a), 77 for the closing token of a NAR.    *)
(***************************************************************************)
EXTENDS SessionLinkProofs

Path == 7
NarToken == 77
NewlineWord == { 10 }

IsValidPath  == << 1, Path >>
FindRoots    == << 14 >>
BuildAndCheck == << 9, 6, 2 >>
Nar          == << NarFromPath, Path >>
\* AddMultipleToStore with a frame of 3 bytes, longer than BUF_SIZE, and one of 1.
AddMultiple  == << 44, 0, 1, 3, 5, 5, 5, 1, 5, 0 >>
AddBuildLog  == << 45, Path, 2, 5, 5, 0 >>
RegisterDrvOutput == << 42, 8 >>

MCAnswers(o) ==
    CASE Reply(o) = << "bool" >> -> { << 0 >>, << 1 >> }
      [] Reply(o) = << "u64" >>  -> { << 10 >> }
      [] Reply(o) = << "nar" >>  -> { << 3, NarToken >>, << 3, 10, 4, NarToken >> }
      [] Reply(o) = << "map" >>  -> { << 2 >> }
      [] Reply(o) = << >>        -> { << >> }
      [] OTHER                   -> { [ i \in 1 .. Len(Reply(o)) |-> 0 ] }

\* A log line, whose text has a newline, and the end of an activity.
MCLogs == { << Next_, 10 >>, << StopActivity, 4 >> }

\* Sessions of two whole operations, in every order: one of each shape for the
\* runs that look at states, a few for the runs that look at whole behaviours.
Ops == { IsValidPath, BuildAndCheck, Nar, AddMultiple, AddBuildLog, RegisterDrvOutput }
PairScripts == { a \o b : a, b \in Ops }
WholeScripts ==
    { IsValidPath \o FindRoots, AddMultiple \o IsValidPath, Nar \o BuildAndCheck,
      RegisterDrvOutput \o AddBuildLog }

\* Sessions in which the client leaves in the middle of an operation.
CutScripts == { << 1 >>, << 9, 6 >>, << 44, 0, 1, 3, 5 >>, << 44, 0, 1, 3, 5, 5, 5 >> }

\* An opcode this version does not know, whose body starts with a word that it
\* takes for FindRoots, and a build mode it does not know.
UnknownScripts == { << 3, 14, 5 >>, << 9, 6, 3, 14 >> }

\* Sessions in which a daemon may die, with and without a NAR among the answers.
CrashScripts    == { BuildAndCheck, AddBuildLog, << 44, 0, 1, 3, 5, 5, 5, 0 >> }
CrashNarScripts == CrashScripts \cup CutScripts \cup { Nar }

\* A daemon of a later version: it asks to read (0x64617461) and answers with a
\* build status of its own.
BuildDerivationScripts == { << 36, Path, 0, 0, 0, Path, 0, 0, 1 >> }
NewerAnswers(o) ==
    IF o = 36 THEN { << 15, 0, 0, 0, 0, 0, 0 >>, << 14, 0, 1, 1, 0, 0, 0 >> }
    ELSE MCAnswers(o)
CrashNewerScripts == CrashScripts \cup BuildDerivationScripts
NewerLogs == MCLogs \cup { << 1684108385, 8 >> }

-----------------------------------------------------------------------------
\* The hypotheses of DownTransparent and UpTransparent hold of the instances
\* that look at the links: of the second, a path through the reader is built
\* for every script.
ASSUME AnswersAssumption == BoolsConform

Near(s) == [ part : Parts, op : { NoOp } \cup { s[i] : i \in DOMAIN s }, left : 0 .. 13 ]

PathOf(s) ==
    LET f[i \in 0 .. Len(s)] ==
          IF i = 0 THEN At("op", NoOp, 0)
          ELSE LET a == f[i - 1]
               IN  CHOOSE b \in Near(s) : Move(Requesting, a, s[i], b)
    IN  f

ASSUME ScriptsAssumption ==
    \A s \in PairScripts \cup WholeScripts \cup CrashNarScripts :
      LET f == PathOf(s)
      IN  \A i \in 1 .. Len(s) : Move(Requesting, f[i - 1], s[i], f[i])
=============================================================================
