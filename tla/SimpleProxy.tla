---------------------------- MODULE SimpleProxy ----------------------------
(***************************************************************************)
(* The proxy of src/nix-remote-simple-proxy: one thread that takes an      *)
(* operation from a client on stdin, passes it to a nix-daemon child       *)
(* process, passes the daemon's messages and answer back on stdout, and    *)
(* starts over.  The module is the thread after both handshakes, with the  *)
(* four pipe ends it touches; Session.tla supplies the client and the      *)
(* daemon at the other ends.                                               *)
(*                                                                         *)
(* What travels in a pipe is a sequence of numbers: a 64-bit word, a       *)
(* variable-length field, or one byte of a framed stream, each counted as  *)
(* one.  Writes to the daemon go straight to the pipe (ChildStdin has no   *)
(* buffer); writes to the client go to the LineWriter inside std's Stdout  *)
(* (`out`), which keeps them until it is flushed, is full, or is given a   *)
(* newline byte.                                                           *)
(***************************************************************************)
EXTENDS WorkerOps, Stderr

CONSTANTS
    PipeCap,    \* capacity of a pipe
    BufCap,     \* capacity of the stdout buffer
    BUF_SIZE,   \* size of the buffer a framed stream is forwarded through
    NarEnd,     \* the closing token of a NAR
    Newline     \* the numbers whose bytes include a newline

ASSUME CapacityAssumption ==
    /\ PipeCap \in Nat \ {0}
    /\ BufCap \in Nat \ {0}
    /\ BUF_SIZE \in Nat \ {0}
ASSUME NewlineAssumption == Newline \subseteq Nat
ASSUME NarEndAssumption == NarEnd \in Nat

VARIABLES
    c2p, p2d, d2p, p2c,     \* the pipes: client, proxy, daemon
    clientWr, clientRd,     \* has the client its ends of c2p and p2c open?
    daemonUp,               \* has the daemon its ends of p2d and d2p open?
    pc,                     \* the step of the loop of main
    op,                     \* the operation in hand
    held,                   \* what has been read and not yet written
    left,                   \* length_of_stream
    out,                    \* the stdout buffer
    due,                    \* how much of it is being written out
    failed                  \* has receive_next_op_from_client failed?

pipes     == << c2p, p2d, d2p, p2c >>
ends      == << clientWr, clientRd, daemonUp >>
proxyVars == << pc, op, held, left, out, due, failed >>

NoOp == 0

Reading == { "op", "args", "framelen", "framedata", "msg", "reply", "nar" }
ToDaemon == { "sendop", "sendlen", "senddata" }
ToClient == { "sendmsg", "sendlast", "sendreply", "sendnar" }
Steps == Reading \cup ToDaemon \cup ToClient \cup { "flush", "spin", "dead" }

\* An unwrap of an error: the thread panics.  The runtime writes the stdout
\* buffer out before the process exits.
Panic ==
    /\ pc' = "dead"
    /\ op' = NoOp
    /\ held' = << >>
    /\ left' = 0
    /\ due' = Len(out)
    /\ UNCHANGED << pipes, ends, out, failed >>

-----------------------------------------------------------------------------
\* Receiving an operation from the client.

ReceiveTag ==
    /\ pc = "op"
    /\ c2p # << >>
    /\ Head(c2p) \in WorkerOp
    /\ op' = Head(c2p)
    /\ held' = << Head(c2p) >>
    /\ c2p' = Tail(c2p)
    /\ pc' = IF Body(Head(c2p)) = << >> THEN "sendop" ELSE "args"
    /\ UNCHANGED << p2d, d2p, p2c, ends, left, out, due, failed >>

\* held starts with the opcode, so its length is the index of the next field.
ReceiveField ==
    LET kind == Body(op)[Len(held)]
    IN  /\ pc = "args"
        /\ c2p # << >>
        /\ Decodes(kind, Head(c2p))
        /\ held' = Append(held, Reencoded(kind, Head(c2p)))
        /\ c2p' = Tail(c2p)
        /\ pc' = IF Len(held) = Len(Body(op)) THEN "sendop" ELSE "args"
        /\ UNCHANGED << p2d, d2p, p2c, ends, op, left, out, due, failed >>

\* receive_next_op_from_client returns Err; main logs it and goes round its
\* loop again, with what the failed attempt consumed gone.
ReceiveFailed ==
    /\ pc' = "op"
    /\ op' = NoOp
    /\ held' = << >>
    /\ failed' = TRUE
    /\ UNCHANGED << p2d, d2p, p2c, ends, left, out, due >>

ReceiveUndecodable ==
    /\ c2p # << >>
    /\ \/ pc = "op" /\ Head(c2p) \notin WorkerOp
       \/ pc = "args" /\ ~ Decodes(Body(op)[Len(held)], Head(c2p))
    /\ c2p' = Tail(c2p)
    /\ ReceiveFailed

ReceiveEof ==
    /\ pc \in { "op", "args" }
    /\ c2p = << >>
    /\ ~ clientWr
    /\ ReceiveFailed
    /\ UNCHANGED c2p

-----------------------------------------------------------------------------
\* Writing to the daemon.

WriteDaemon(next) ==
    /\ daemonUp
    /\ Len(p2d) < PipeCap
    /\ p2d' = Append(p2d, Head(held))
    /\ held' = Tail(held)
    /\ pc' = IF Len(held) = 1 THEN next ELSE pc
    /\ UNCHANGED << c2p, d2p, p2c, ends, op, out, due, failed >>

SendWorkerOp ==
    /\ pc = "sendop"
    /\ WriteDaemon(IF RequiresStreaming(op) THEN "framelen" ELSE "msg")
    /\ UNCHANGED left

\* Mutant of DaemonPipeBroken: the error is ignored and the write tried again.
DaemonPipeBrokenIgnored ==
    /\ pc \in ToDaemon
    /\ ~ daemonUp
    /\ UNCHANGED << pipes, ends, proxyVars >>

\* A pipe with nobody at the other end: the write fails and main unwraps.
DaemonPipeBroken ==
    /\ pc \in ToDaemon
    /\ ~ daemonUp
    /\ Panic

-----------------------------------------------------------------------------
\* Forwarding a framed stream: a length, then as many bytes in chunks of at
\* most BUF_SIZE, until a length of 0.

StreamingLength ==
    /\ pc = "framelen"
    /\ c2p # << >>
    /\ left' = Head(c2p)
    /\ held' = << Head(c2p) >>
    /\ c2p' = Tail(c2p)
    /\ pc' = "sendlen"
    /\ UNCHANGED << p2d, d2p, p2c, ends, op, out, due, failed >>

StreamingWriteLen ==
    /\ pc = "sendlen"
    /\ WriteDaemon(IF left = 0 THEN "msg" ELSE "framedata")
    /\ UNCHANGED left

\* Mutant of ChunkLen: every chunk has the size of the buffer.
ChunkLenWholeBuffer == BUF_SIZE

ChunkLen == IF left < BUF_SIZE THEN left ELSE BUF_SIZE

GetStream ==
    /\ pc = "framedata"
    /\ c2p # << >>
    /\ held' = Append(held, Head(c2p))
    /\ c2p' = Tail(c2p)
    /\ pc' = IF Len(held) + 1 = ChunkLen THEN "senddata" ELSE "framedata"
    /\ UNCHANGED << p2d, d2p, p2c, ends, op, left, out, due, failed >>

\* The code subtracts the chunk once it is written; here each byte counts as
\* it goes, which nothing can observe in between.
StreamingWriteBuff ==
    /\ pc = "senddata"
    /\ left' = left - 1
    /\ WriteDaemon(IF left = 1 THEN "framelen" ELSE "framedata")

\* The client's stream ends inside the framed data: main unwraps.
StreamEof ==
    /\ pc \in { "framelen", "framedata" }
    /\ c2p = << >>
    /\ ~ clientWr
    /\ Panic

-----------------------------------------------------------------------------
\* Reading from the daemon.

\* read_error_msg: an opcode and the fields it calls for.
ReadErrorMsg ==
    /\ pc = "msg"
    /\ d2p # << >>
    /\ held = << >> => Head(d2p) \in Msg
    /\ held' = Append(held, Head(d2p))
    /\ d2p' = Tail(d2p)
    /\ LET tag == Head(held')
       IN  pc' = IF Len(held) < MsgFields(tag) THEN "msg"
                 ELSE IF IsLast(tag) THEN "sendlast" ELSE "sendmsg"
    /\ UNCHANGED << c2p, p2d, p2c, ends, op, left, out, due, failed >>

\* read_build_response_from_daemon.
ReadBuildResponse ==
    LET kind == Reply(op)[Len(held) + 1]
    IN  /\ pc = "reply"
        /\ d2p # << >>
        /\ Decodes(kind, Head(d2p))
        /\ held' = Append(held, Reencoded(kind, Head(d2p)))
        /\ d2p' = Tail(d2p)
        /\ pc' = IF Len(held) + 1 = Len(Reply(op)) THEN "sendreply" ELSE "reply"
        /\ UNCHANGED << c2p, p2d, p2c, ends, op, left, out, due, failed >>

\* A message or an enum this version does not know: main unwraps.
ResponseUndecodable ==
    /\ d2p # << >>
    /\ \/ pc = "msg" /\ held = << >> /\ Head(d2p) \notin Msg
       \/ pc = "reply" /\ ~ Decodes(Reply(op)[Len(held) + 1], Head(d2p))
    /\ Panic

\* nar::stream reads through a Tee, which copies each piece as it is read.
StreamNar ==
    /\ pc = "nar"
    /\ d2p # << >>
    /\ held' = << Head(d2p) >>
    /\ d2p' = Tail(d2p)
    /\ pc' = "sendnar"
    /\ UNCHANGED << c2p, p2d, p2c, ends, op, left, out, due, failed >>

\* The daemon is gone and all it wrote has been read.  Every reader reports
\* an unexpected end and main unwraps, except write_string, which goes on
\* reading nothing when the end comes inside the contents of a file.
DaemonEof ==
    /\ pc \in { "msg", "reply", "nar" }
    /\ d2p = << >>
    /\ ~ daemonUp
    /\ \/ Panic
       \/ /\ pc = "nar"
          /\ pc' = "spin"
          /\ UNCHANGED << pipes, ends, op, held, left, out, due, failed >>

-----------------------------------------------------------------------------
\* Writing to the client, through the stdout buffer.

\* A newline sends what precedes it, and it too if it is the last byte given.
WriteClient(next) ==
    /\ Len(out) < BufCap
    /\ out' = Append(out, Head(held))
    /\ held' = Tail(held)
    /\ due' \in IF Head(held) \in Newline THEN { Len(out), Len(out) + 1 } ELSE { 0 }
    /\ pc' = IF Len(held) = 1 THEN next ELSE pc
    /\ UNCHANGED << pipes, ends, op, left, failed >>

ToReply ==
    IF op = NarFromPath THEN "nar"
    ELSE IF Reply(op) = << >> THEN "flush" ELSE "reply"

\* Mutant of SendErrorToClient: the loop ends before Last is passed on.
SendErrorToClientNotLast ==
    \/ pc = "sendmsg" /\ WriteClient("msg")
    \/ /\ pc = "sendlast"
       /\ held' = << >>
       /\ pc' = ToReply
       /\ UNCHANGED << pipes, ends, op, left, out, due, failed >>

SendErrorToClient ==
    \/ pc = "sendmsg" /\ WriteClient("msg")
    \/ pc = "sendlast" /\ WriteClient(ToReply)

WriteBuildResponse == pc = "sendreply" /\ WriteClient("flush")

WriteNar ==
    /\ pc = "sendnar"
    /\ WriteClient(IF Head(held) = NarEnd THEN "flush" ELSE "nar")

\* The buffer is full: it is written out before anything is added.
Spill ==
    /\ pc \in ToClient
    /\ Len(out) = BufCap
    /\ due' = Len(out)
    /\ UNCHANGED << pipes, ends, pc, op, held, left, out, failed >>

FlushTxToClient ==
    /\ pc = "flush"
    /\ out # << >>
    /\ due' = Len(out)
    /\ UNCHANGED << pipes, ends, pc, op, held, left, out, failed >>

\* Mutant of NextRound: the loop comes round without a flush.
NextRoundUnflushed ==
    /\ pc = "flush"
    /\ pc' = "op"
    /\ op' = NoOp
    /\ UNCHANGED << pipes, ends, held, left, out, due, failed >>

\* The loop comes round: back to receive_next_op_from_client.
NextRound ==
    /\ pc = "flush"
    /\ out = << >>
    /\ pc' = "op"
    /\ op' = NoOp
    /\ UNCHANGED << pipes, ends, held, left, out, due, failed >>

\* Part of the buffer reaches the pipe.  A dying process does this too.
Drain ==
    /\ clientRd
    /\ Len(p2c) < PipeCap
    /\ p2c' = Append(p2c, Head(out))
    /\ out' = Tail(out)
    /\ due' = due - 1
    /\ UNCHANGED << c2p, p2d, d2p, ends, pc, op, held, left, failed >>

\* The client no longer reads: the write fails, and what is buffered is lost.
ClientPipeBroken ==
    /\ ~ clientRd
    /\ pc' = "dead"
    /\ op' = NoOp
    /\ held' = << >>
    /\ left' = 0
    /\ out' = << >>
    /\ due' = 0
    /\ UNCHANGED << pipes, ends, failed >>

-----------------------------------------------------------------------------
ProxyInit ==
    /\ pc = "op"
    /\ op = NoOp
    /\ held = << >>
    /\ left = 0
    /\ out = << >>
    /\ due = 0
    /\ failed = FALSE

FromClient ==
    \/ ReceiveTag
    \/ ReceiveField
    \/ ReceiveUndecodable
    \/ ReceiveEof
    \/ StreamingLength
    \/ GetStream
    \/ StreamEof

IntoDaemon ==
    \/ SendWorkerOp
    \/ StreamingWriteLen
    \/ StreamingWriteBuff
    \/ DaemonPipeBroken

FromDaemon ==
    \/ ReadErrorMsg
    \/ ReadBuildResponse
    \/ ResponseUndecodable
    \/ StreamNar
    \/ DaemonEof

IntoClient ==
    \/ SendErrorToClient
    \/ WriteBuildResponse
    \/ WriteNar
    \/ Spill
    \/ FlushTxToClient
    \/ NextRound

WriteOut == Drain \/ ClientPipeBroken

\* There is one thread: while it writes the buffer out it does nothing else.
ProxyNext ==
    \/ due = 0 /\ (FromClient \/ IntoDaemon \/ FromDaemon \/ IntoClient)
    \/ due > 0 /\ WriteOut

\* Has the process exited?
ProxyGone == pc = "dead" /\ due = 0
=============================================================================
