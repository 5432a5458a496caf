------------------------------ MODULE Session ------------------------------
(***************************************************************************)
(* A session: the proxy of SimpleProxy.tla between a client that sends a   *)
(* script of operations and a daemon that follows the pattern described at *)
(* the head of src/nix-remote/src/stderr.rs.  Client and daemon are other  *)
(* programs; only what the proxy can tell of them is modelled.             *)
(***************************************************************************)
EXTENDS SimpleProxy

CONSTANTS
    Scripts,        \* what a client may send in a session
    Answers(_),     \* the answers a daemon may give to an operation
    Logs,           \* the messages a daemon may send while it works
    MaxLogs,        \* bound on the messages for one operation
    EarlyLogs,      \* bound on those sent before the framed stream is read
    Crashing        \* which of "client" and "daemon" may die

ASSUME ScriptAssumption == Scripts \subseteq Seq(Nat)
ASSUME AnswerAssumption == \A o \in WorkerOp : Answers(o) \subseteq Seq(Nat)
ASSUME LogAssumption == Logs \subseteq Seq(Nat) /\ MaxLogs \in Nat /\ EarlyLogs \in Nat
ASSUME CrashAssumption == Crashing \subseteq { "client", "daemon" }

\* A daemon sends messages other than Last with the fields their opcodes call
\* for, unless this version does not know the opcode, and answers in the shape
\* of the operation's: what the readers of stderr.rs and worker_op.rs expect.
LogConforms(l) ==
    /\ l # << >> /\ Head(l) # Last
    /\ Head(l) \in Msg => Len(l) = MsgFields(Head(l)) + 1

AnswerConforms(o, a) ==
    IF o = NarFromPath
      THEN a # << >> /\ \A i \in 1 .. Len(a) : a[i] = NarEnd <=> i = Len(a)
      ELSE Len(a) = Len(Reply(o))

ASSUME DaemonAssumption ==
    /\ \A l \in Logs : LogConforms(l)
    /\ \A o \in WorkerOp : \A a \in Answers(o) : AnswerConforms(o, a)

\* A daemon writes a bool as 0 or 1, as serialize_bool does.
BoolsConform ==
    \A o \in WorkerOp : \A a \in Answers(o) :
      \A i \in 1 .. Len(a) : i <= Len(Reply(o)) /\ Reply(o)[i] = "bool" => a[i] \in { 0, 1 }

VARIABLES
    script,     \* what the client has still to send
    answered,   \* how much the client has read
    dpc,        \* the daemon's step
    dop,        \* the operation the daemon has read
    dneed,      \* fields, or bytes of a frame, the daemon has still to read
    dtodo,      \* what the daemon is writing
    dlogs,      \* messages sent for this operation
    dread       \* how much the daemon has read

clientVars == << script, answered >>
daemonVars == << dpc, dop, dneed, dtodo, dlogs, dread >>
vars == << pipes, ends, proxyVars, clientVars, daemonVars >>

Init ==
    /\ c2p = << >> /\ p2d = << >> /\ d2p = << >> /\ p2c = << >>
    /\ clientWr = TRUE /\ clientRd = TRUE /\ daemonUp = TRUE
    /\ ProxyInit
    /\ script \in Scripts
    /\ answered = 0
    /\ dpc = "op" /\ dop = NoOp /\ dneed = 0 /\ dtodo = << >>
    /\ dlogs = 0 /\ dread = 0

Proxy == ProxyNext /\ UNCHANGED << clientVars, daemonVars >>

-----------------------------------------------------------------------------
\* The client sends without waiting for answers, and reads whenever it can.

ClientSend ==
    /\ clientWr
    /\ pc # "dead"
    /\ script # << >>
    /\ Len(c2p) < PipeCap
    /\ c2p' = Append(c2p, Head(script))
    /\ script' = Tail(script)
    /\ UNCHANGED << p2d, d2p, p2c, ends, proxyVars, answered, daemonVars >>

ClientRead ==
    /\ clientRd
    /\ p2c # << >>
    /\ p2c' = Tail(p2c)
    /\ answered' = answered + 1
    /\ UNCHANGED << c2p, p2d, d2p, ends, proxyVars, script, daemonVars >>

\* It has nothing more to ask and closes its sending end.
ClientDone ==
    /\ clientWr
    /\ script = << >>
    /\ clientWr' = FALSE
    /\ UNCHANGED << pipes, clientRd, daemonUp, proxyVars, clientVars, daemonVars >>

\* It dies, or leaves because the proxy has.
ClientGone ==
    /\ clientRd
    /\ "client" \in Crashing \/ (ProxyGone /\ p2c = << >>)
    /\ clientWr' = FALSE
    /\ clientRd' = FALSE
    /\ p2c' = << >>
    /\ script' = << >>
    /\ UNCHANGED << c2p, p2d, d2p, daemonUp, proxyVars, answered, daemonVars >>

-----------------------------------------------------------------------------
\* The daemon reads an operation, sends messages, then Last and its answer.
\* While it has something to write it does nothing else.

DaemonReady == daemonUp /\ dtodo = << >>

AfterFields(o) == IF RequiresStreaming(o) THEN "framelen" ELSE "work"

DaemonReadTag ==
    /\ DaemonReady
    /\ dpc = "op"
    /\ p2d # << >>
    /\ Head(p2d) \in WorkerOp
    /\ dop' = Head(p2d)
    /\ dneed' = Len(Body(dop'))
    /\ dpc' = IF dneed' = 0 THEN AfterFields(dop') ELSE "args"
    /\ p2d' = Tail(p2d)
    /\ dread' = dread + 1
    /\ UNCHANGED << c2p, d2p, p2c, ends, proxyVars, clientVars, dtodo, dlogs >>

DaemonReadField ==
    /\ DaemonReady
    /\ dpc = "args"
    /\ p2d # << >>
    /\ dneed' = dneed - 1
    /\ dpc' = IF dneed = 1 THEN AfterFields(dop) ELSE "args"
    /\ p2d' = Tail(p2d)
    /\ dread' = dread + 1
    /\ UNCHANGED << c2p, d2p, p2c, ends, proxyVars, clientVars, dop, dtodo, dlogs >>

DaemonReadLength ==
    /\ DaemonReady
    /\ dpc = "framelen"
    /\ p2d # << >>
    /\ dneed' = Head(p2d)
    /\ dpc' = IF Head(p2d) = 0 THEN "work" ELSE "framedata"
    /\ p2d' = Tail(p2d)
    /\ dread' = dread + 1
    /\ UNCHANGED << c2p, d2p, p2c, ends, proxyVars, clientVars, dop, dtodo, dlogs >>

DaemonReadByte ==
    /\ DaemonReady
    /\ dpc = "framedata"
    /\ p2d # << >>
    /\ dneed' = dneed - 1
    /\ dpc' = IF dneed = 1 THEN "framelen" ELSE "framedata"
    /\ p2d' = Tail(p2d)
    /\ dread' = dread + 1
    /\ UNCHANGED << c2p, d2p, p2c, ends, proxyVars, clientVars, dop, dtodo, dlogs >>

DaemonLog ==
    /\ DaemonReady
    /\ \/ dpc = "work" /\ dlogs < MaxLogs
       \/ dpc \in { "framelen", "framedata" } /\ dlogs < EarlyLogs
    /\ dtodo' \in Logs
    /\ dlogs' = dlogs + 1
    /\ UNCHANGED << pipes, ends, proxyVars, clientVars, dpc, dop, dneed, dread >>

DaemonAnswer ==
    /\ DaemonReady
    /\ dpc = "work"
    /\ \E a \in Answers(dop) : dtodo' = << Last >> \o a
    /\ dpc' = "op"
    /\ dop' = NoOp
    /\ dlogs' = 0
    /\ UNCHANGED << pipes, ends, proxyVars, clientVars, dneed, dread >>

DaemonWrite ==
    /\ daemonUp
    /\ dtodo # << >>
    /\ Len(d2p) < PipeCap
    /\ d2p' = Append(d2p, Head(dtodo))
    /\ dtodo' = Tail(dtodo)
    /\ UNCHANGED << c2p, p2d, p2c, ends, proxyVars, clientVars, dpc, dop, dneed,
                    dlogs, dread >>

\* It dies, or leaves because the proxy has and nothing is left to read.
DaemonGone ==
    /\ daemonUp
    /\ "daemon" \in Crashing \/ (ProxyGone /\ (p2d = << >> \/ dtodo # << >>))
    /\ daemonUp' = FALSE
    /\ p2d' = << >>
    /\ dtodo' = << >>
    /\ UNCHANGED << c2p, d2p, p2c, clientWr, clientRd, proxyVars, clientVars,
                    dpc, dop, dneed, dlogs, dread >>

-----------------------------------------------------------------------------
\* Nothing is left to happen, or the proxy spins without an effect.
Rest ==
    /\ \/ ProxyGone /\ ~ daemonUp /\ ~ clientRd
       \/ pc = "spin"
    /\ UNCHANGED vars

Client == ClientSend \/ ClientRead \/ ClientDone \/ ClientGone

Daemon ==
    \/ DaemonReadTag
    \/ DaemonReadField
    \/ DaemonReadLength
    \/ DaemonReadByte
    \/ DaemonLog
    \/ DaemonAnswer
    \/ DaemonWrite
    \/ DaemonGone

Next == Proxy \/ Client \/ Daemon \/ Rest

Spec == Init /\ [][Next]_vars

\* The proxy is a process that runs until it blocks; the client sends what it
\* has to send and reads its answers; the daemon does its work, of which
\* logging is bounded.  Nothing makes a process die.
Fairness ==
    /\ WF_vars(Proxy)
    /\ WF_vars(ClientSend)
    /\ WF_vars(ClientRead)
    /\ WF_vars(ClientDone)
    /\ WF_vars(DaemonReadTag \/ DaemonReadField \/ DaemonReadLength \/ DaemonReadByte
               \/ DaemonLog \/ DaemonAnswer \/ DaemonWrite)

FairSpec == Spec /\ Fairness

-----------------------------------------------------------------------------
\* Each variable holds a value of its kind, and what is being written out is
\* part of the buffer.
TypeOK ==
    /\ c2p \in Seq(Nat) /\ p2d \in Seq(Nat) /\ d2p \in Seq(Nat) /\ p2c \in Seq(Nat)
    /\ clientWr \in BOOLEAN /\ clientRd \in BOOLEAN /\ daemonUp \in BOOLEAN
    /\ pc \in Steps
    /\ op \in WorkerOp \cup { NoOp }
    /\ held \in Seq(Nat)
    /\ left \in Nat
    /\ out \in Seq(Nat)
    /\ due \in 0 .. Len(out)
    /\ failed \in BOOLEAN
    /\ script \in Seq(Nat)
    /\ answered \in Nat
    /\ dpc \in { "op", "args", "framelen", "framedata", "work" }
    /\ dop \in WorkerOp \cup { NoOp }
    /\ dneed \in Nat
    /\ dtodo \in Seq(Nat)
    /\ dlogs \in Nat
    /\ dread \in Nat

\* While the proxy waits for the client, or passes on what the client sends,
\* the stdout buffer is empty: an answer is never kept back while the client
\* that needs it to go on is being waited for (flush_tx_to_client comes before
\* the loop of main goes round, and nothing is buffered before the messages).
WaitsForClient == { "op", "args", "framelen", "framedata" } \cup ToDaemon

NoStrandedAnswer == pc \in WaitsForClient => out = << >>

\* Between two operations nothing of the last one is left on the daemon's side:
\* all that was sent has been read, all that was answered has been passed on,
\* and the daemon is ready for an opcode.  A word too many or too few in either
\* direction would be taken for part of the next operation.
Aligned ==
    pc = "op" /\ daemonUp =>
        /\ p2d = << >> /\ d2p = << >> /\ dtodo = << >>
        /\ dpc = "op"

\* The daemon works on the operation the proxy is reading the answer of: main
\* picks the shape of the answer by the operation it sent.
SameOperation == dpc # "op" /\ pc \in Steps \ { "dead" } => dop = op

\* What is held fits the step: there is something to write when the proxy is
\* about to write, nothing when it starts to read something new; a chunk of a
\* framed stream never exceeds what is left of its frame, so length_of_stream
\* never goes below zero.
HeldFits ==
    /\ pc \in ToDaemon \cup ToClient => held # << >>
    /\ pc \in { "op", "framelen", "nar", "flush", "dead" } => held = << >>
    /\ pc = "framedata" => Len(held) < ChunkLen
    /\ pc = "senddata" => Len(held) <= left

\* The proxy as a pair of links.  What the client has sent is in the client's
\* pipe, in the proxy's hands, or in the daemon's pipe; what the daemon has
\* sent is in its pipe, in hand, in the buffer, or in the client's pipe.
heldUp   == IF pc \in WaitsForClient THEN held ELSE << >>
heldDown == IF pc \in WaitsForClient THEN << >> ELSE held

upQueue ==
    IF ~ daemonUp THEN << >>
    ELSE IF pc = "dead" THEN p2d ELSE p2d \o heldUp \o c2p

upCut == ~ daemonUp \/ pc = "dead" \/ failed

downQueue ==
    IF ~ clientRd THEN << >>
    ELSE IF pc = "dead" THEN p2c \o out
    ELSE p2c \o out \o heldDown \o d2p

downCut == ~ clientRd \/ pc = "dead"

Up == INSTANCE Link WITH queue <- upQueue, arrived <- dread, cut <- upCut

Down == INSTANCE Link WITH queue <- downQueue, arrived <- answered, cut <- downCut

\* What the client sends reaches the daemon as over a direct connection.
UpIsLink == Up!Spec

\* What the daemon sends reaches the client as over a direct connection.
DownIsLink == Down!Spec

\* Once the fields of an operation are read, the proxy comes back for the next
\* with every message and the answer delivered, or it dies (a peer has died,
\* or sent what this version does not know).
OpAnswered ==
    pc \notin { "op", "args", "dead" } ~>
        (pc = "op" /\ out = << >> /\ p2c = << >>) \/ pc = "dead"

\* The log line of receive_next_op_from_client says "EOF, closing".
ClosesOnEof == failed ~> pc = "dead"

\* The same line is logged for an operation that does not decode: after it the
\* proxy takes nothing more from the client.
ClosesOnUndecodable == failed => pc \in { "op", "dead" }
=============================================================================
