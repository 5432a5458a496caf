------------------------------- MODULE Stderr -------------------------------
(***************************************************************************)
(* The messages a daemon sends between reading an operation and answering  *)
(* it (`enum Msg` of src/nix-remote/src/stderr.rs): an opcode and a body.  *)
(* `Last` carries nothing and ends the messages of one operation.          *)
(***************************************************************************)
EXTENDS Naturals, Sequences

Write         == 1684108310     \* 0x64617416
Error         == 1668838512     \* 0x63787470
Next_         == 1869376871     \* 0x6f6c6d67
StartActivity == 1398035028     \* 0x53545254
StopActivity  == 1398034256     \* 0x53544f50
Result        == 1381190740     \* 0x52534c54
Last          == 1634497651     \* 0x616c7473

\* The fields in the body of each message, by kind: those of WorkerOps, lists of
\* traces and lists of logger fields.
MsgTable ==
    { [tag |-> Write,         body |-> << "string" >>],
      [tag |-> Error,         body |-> << "string", "u64", "string", "string", "u64", "traces" >>],
      [tag |-> Next_,         body |-> << "string" >>],
      [tag |-> StartActivity, body |-> << "u64", "u64", "u64", "string", "fields", "u64" >>],
      [tag |-> StopActivity,  body |-> << "u64" >>],
      [tag |-> Result,        body |-> << "u64", "u64", "fields" >>],
      [tag |-> Last,          body |-> << >>] }

Msg == { r.tag : r \in MsgTable }

MsgBody(tag)   == (CHOOSE r \in MsgTable : r.tag = tag).body
MsgFields(tag) == Len(MsgBody(tag))

\* Mutant of IsLast: another message is taken for the end.
IsLastOrStop(tag) == tag \in { Last, StopActivity }

IsLast(tag) == tag = Last
=============================================================================
