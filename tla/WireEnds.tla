------------------------------ MODULE WireEnds ------------------------------
(***************************************************************************)
(* Two things in Wire.tla that are not values of a type, and end where     *)
(* they end: what a daemon says while it works, of which the reader does   *)
(* not know how much comes, and framed data with an empty buffer in it.    *)
(***************************************************************************)
EXTENDS Wire

CONSTANTS
    Logs,       \* what a daemon may say: messages, as the calls that write them
    MaxSteps    \* a reader that is told the calls has heard a message in so many steps

\* The end of the stream is reported between messages only: nothing is made of
\* messages that may be missing.
ASSUME EndsAssumption ==
    /\ Types["framed"] = Framed
    /\ "msg_or_eof" \in DOMAIN Types /\ Types["msg_or_eof"] = MsgOrEof("msg")
    /\ \A t \in DOMAIN Types :
         LET s == Types[t]
             Always(u) == Types[u].shape # "or_eof"
         IN  /\ s.shape \in { "option", "seq", "newtype" } => Always(s.of)
             /\ s.shape = "tuple" => \A i \in 1 .. Len(s.fields) : Always(s.fields[i])
             /\ s.shape = "tagged" =>
                  \A n \in DOMAIN s.variants :
                    \A i \in 1 .. Len(s.variants[n]) : Always(s.variants[n][i])

ASSUME LogAssumption ==
    /\ MaxSteps \in Nat
    /\ \A l \in Logs :
         /\ l \in Seq(Seq(AnyCall))
         /\ \A i \in 1 .. Len(l) : Conforms(MaxSteps, l[i], << "msg" >>)

-----------------------------------------------------------------------------
\* The calls of the first n messages of a log.
Upto(l) ==
    LET upto[n \in 0 .. Len(l)] == IF n = 0 THEN << >> ELSE upto[n - 1] \o l[n]
    IN  upto

\* How many bytes the first i calls are written as.
Takes(cs) ==
    LET takes[i \in 0 .. Len(cs)] == IF i = 0 THEN 0 ELSE takes[i - 1] + Len(Written(cs[i]))
    IN  takes

\* A log is read to its end, one message after the other.
IsLog(l) ==
    /\ meant = Upto(l)[Len(l)]
    /\ Len(asked) > Len(l)
    /\ \A i \in 1 .. Len(asked) : asked[i] = "msg_or_eof"

\* read_error_msg_or_eof reports the end of the stream if the daemon closed it
\* between two messages, after all the messages that came, and fails if the
\* daemon closed it within one (nix_client.rs:130-131).
ClosedBetweenMessages ==
    \A l \in Logs : IsLog(l) =>
        LET k == { n \in 0 .. Len(l) : Takes(Upto(l)[n])[Len(Upto(l)[n])] = Len(came) }
        IN  /\ pc \in { "failed", "panic" } => k = { }
            /\ turn = 2 => \E n \in k : Said(first) = Upto(l)[n]

-----------------------------------------------------------------------------
LastFrame == Call("last_frame", << >>)

\* Buffers, and the end of the list.
IsFrames(cs) ==
    /\ cs # << >> /\ cs[Len(cs)] = LastFrame
    /\ \A i \in 1 .. Len(cs) - 1 : cs[i].call = "frame"

\* The first empty one, or the end if there is none.
EmptyAt(cs) ==
    CHOOSE i \in 1 .. Len(cs) : cs[i].value = << >> /\ \A j \in 1 .. i - 1 : cs[j].value # << >>

\* What is read back of a FramedData is its buffers up to the first empty one,
\* which ends it, and none of them in part: all of it only if none is empty
\* (framed_data.rs:15-16), and no later reader is told that some is left.
EmptyBufferEndsFrames ==
    IsFrames(meant) /\ asked = << "framed" >> =>
        /\ turn = 2 => first = Append(SubSeq(meant, 1, EmptyAt(meant) - 1), LastFrame)
        /\ pc = "failed" => ~ complete
        /\ pc = "panic" => \E i \in 1 .. Len(meant) : ~ Allocates(Len(meant[i].value))
=============================================================================
