----------------------------- MODULE Handshake -----------------------------
(***************************************************************************)
(* How a session of the proxy opens: NixDaemonProxy::new shakes hands with *)
(* the client on stdin and stdout, then main starts nix-daemon, then       *)
(* NixDaemonClient::new shakes hands with it.  The three parties are       *)
(* straight-line programs that send and receive one word (or string) at a  *)
(* time, so each is given as a sequence of steps and a counter.            *)
(*                                                                         *)
(* The proxy looks only at the value of what it reads; the model also      *)
(* records what each word was sent as, to say when one is misread.         *)
(***************************************************************************)
EXTENDS Naturals, Sequences

CONSTANTS
    Clients,    \* the magic number and version a client may have
    Daemons,    \* the magic number and version a daemon may have
    MaxLogs,    \* bound on the messages a daemon sends before Last
    Crashing    \* which of "client" and "daemon" may die

ASSUME PeerAssumption ==
    Clients \cup Daemons \subseteq [magic : Nat, version : Nat]
ASSUME LogAssumption == MaxLogs \in Nat
ASSUME CrashAssumption == Crashing \subseteq { "client", "daemon" }

WORKER_MAGIC_1 == 1852405859    \* 0x6e697863
WORKER_MAGIC_2 == 1685612911    \* 0x6478696f
PROTOCOL_VERSION == 1 * 256 + 35

-----------------------------------------------------------------------------
\* Steps.  What is sent is of some kind and has some value.

Kinds == { "magic1", "magic2", "version", "obsolete", "name", "trusted", "last", "message" }

Word(kind, value) == [kind |-> kind, value |-> value]

Send(to, kind, value) == [do |-> "send", with |-> to, word |-> Word(kind, value)]
Receive(from, kind)   == [do |-> "receive", with |-> from, word |-> Word(kind, 0)]
Flush                 == [do |-> "flush", with |-> "client", word |-> Word("none", 0)]
Spawn                 == [do |-> "spawn", with |-> "daemon", word |-> Word("none", 0)]

\* Mutant of HandshakeWithClient: the version is left in the buffer.
HandshakeWithClientUnflushed ==
    << Receive("client", "magic1"),
       Send("client", "magic2", WORKER_MAGIC_2),
       Send("client", "version", PROTOCOL_VERSION),
       Receive("client", "version"),
       Receive("client", "obsolete"),
       Receive("client", "obsolete"),
       Send("client", "name", 0),
       Send("client", "trusted", 1),
       Send("client", "last", 0),
       Flush >>

\* Mutant of HandshakeWithClient: everything waits for the last flush.
HandshakeWithClientLateFlush ==
    << Receive("client", "magic1"),
       Send("client", "magic2", WORKER_MAGIC_2),
       Send("client", "version", PROTOCOL_VERSION),
       Flush,
       Receive("client", "version"),
       Receive("client", "obsolete"),
       Receive("client", "obsolete"),
       Send("client", "name", 0),
       Send("client", "trusted", 1),
       Send("client", "last", 0),
       Flush >>

HandshakeWithClient ==
    << Receive("client", "magic1"),
       Send("client", "magic2", WORKER_MAGIC_2),
       Send("client", "version", PROTOCOL_VERSION),
       Flush,
       Receive("client", "version"),
       Receive("client", "obsolete"),
       Receive("client", "obsolete"),
       Send("client", "name", 0),
       Send("client", "trusted", 1),
       Flush,
       Send("client", "last", 0),
       Flush >>

\* Mutant of HandshakeWithDaemon: the trusted flag is not read.
HandshakeWithDaemonNoTrust ==
    << Send("daemon", "magic1", WORKER_MAGIC_1),
       Receive("daemon", "magic2"),
       Receive("daemon", "version"),
       Send("daemon", "version", PROTOCOL_VERSION),
       Send("daemon", "obsolete", 0),
       Send("daemon", "obsolete", 0),
       Receive("daemon", "name"),
       Receive("daemon", "last") >>

HandshakeWithDaemon ==
    << Send("daemon", "magic1", WORKER_MAGIC_1),
       Receive("daemon", "magic2"),
       Receive("daemon", "version"),
       Send("daemon", "version", PROTOCOL_VERSION),
       Send("daemon", "obsolete", 0),
       Send("daemon", "obsolete", 0),
       Receive("daemon", "name"),
       Receive("daemon", "trusted"),
       Receive("daemon", "last") >>

\* main, up to its loop.
ProxyProgram == HandshakeWithClient \o << Spawn >> \o HandshakeWithDaemon

\* The other sides of the two handshakes, as the proxy's code expects them.
ClientProgram(client) ==
    << Send("proxy", "magic1", client.magic),
       Receive("proxy", "magic2"),
       Receive("proxy", "version"),
       Send("proxy", "version", client.version),
       Send("proxy", "obsolete", 0),
       Send("proxy", "obsolete", 0),
       Receive("proxy", "name"),
       Receive("proxy", "trusted"),
       Receive("proxy", "last") >>

DaemonProgram(daemon) ==
    << Receive("proxy", "magic1"),
       Send("proxy", "magic2", daemon.magic),
       Send("proxy", "version", daemon.version),
       Receive("proxy", "version"),
       Receive("proxy", "obsolete"),
       Receive("proxy", "obsolete"),
       Send("proxy", "name", 0),
       Send("proxy", "trusted", 1),
       Send("proxy", "last", 0) >>

-----------------------------------------------------------------------------
VARIABLES
    self,       \* the magic number and version of each peer
    told,       \* the version each has been told by the proxy
    step,       \* how many steps each party has taken
    state,      \* of each party: "run", "gone", and for the daemon "unborn"
    wire,       \* what is in each of the four pipes
    out,        \* the proxy's stdout buffer
    logs        \* messages sent by the daemon

vars == << self, told, step, state, wire, out, logs >>

Parties == { "client", "proxy", "daemon" }
Pipes == { "c2p", "p2c", "p2d", "d2p" }
Peers == { "client", "daemon" }

PipeFrom(peer) == IF peer = "client" THEN "c2p" ELSE "d2p"
PipeTo(peer)   == IF peer = "client" THEN "p2c" ELSE "p2d"

Program(p) ==
    CASE p = "proxy"  -> ProxyProgram
      [] p = "client" -> ClientProgram(self["client"])
      [] p = "daemon" -> DaemonProgram(self["daemon"])

Done(p)    == step[p] = Len(Program(p))
Running(p) == state[p] = "run" /\ ~ Done(p)
Current(p) == Program(p)[step[p] + 1]
Is(p, do, with) == Running(p) /\ Current(p).do = do /\ Current(p).with = with

Advance(p) == step' = [step EXCEPT ![p] = @ + 1]

Init ==
    /\ \E c \in Clients, d \in Daemons : self = [client |-> c, daemon |-> d]
    /\ told = [ p \in Peers |-> 0 ]
    /\ step = [ p \in Parties |-> 0 ]
    /\ state = [ p \in Parties |-> IF p = "daemon" THEN "unborn" ELSE "run" ]
    /\ wire = [ w \in Pipes |-> << >> ]
    /\ out = << >>
    /\ logs = 0

-----------------------------------------------------------------------------
\* The proxy.  stdout is buffered, the pipe to the daemon is not.

ProxySendClient ==
    /\ Is("proxy", "send", "client")
    /\ out' = Append(out, Current("proxy").word)
    /\ Advance("proxy")
    /\ UNCHANGED << self, told, state, wire, logs >>

ProxyFlush ==
    /\ Is("proxy", "flush", "client")
    /\ state["client"] = "run"
    /\ wire' = [wire EXCEPT !["p2c"] = @ \o out]
    /\ out' = << >>
    /\ Advance("proxy")
    /\ UNCHANGED << self, told, state, logs >>

ProxySpawn ==
    /\ Is("proxy", "spawn", "daemon")
    /\ state' = [state EXCEPT !["daemon"] = "run"]
    /\ Advance("proxy")
    /\ UNCHANGED << self, told, wire, out, logs >>

ProxySendDaemon ==
    /\ Is("proxy", "send", "daemon")
    /\ state["daemon"] = "run"
    /\ wire' = [wire EXCEPT !["p2d"] = Append(@, Current("proxy").word)]
    /\ Advance("proxy")
    /\ UNCHANGED << self, told, state, out, logs >>

\* Mutant of Accepts: only the proxy's own version will do.
AcceptsExact(expected, word) ==
    CASE expected = "magic1"  -> word.value = WORKER_MAGIC_1
      [] expected = "magic2"  -> word.value = WORKER_MAGIC_2
      [] expected = "version" -> word.value = PROTOCOL_VERSION
      [] OTHER                -> TRUE

\* Mutant of Accepts: the version is not looked at.
AcceptsAnyVersion(expected, word) ==
    CASE expected = "magic1" -> word.value = WORKER_MAGIC_1
      [] expected = "magic2" -> word.value = WORKER_MAGIC_2
      [] OTHER               -> TRUE

\* A peer of the wrong magic or of an older version is refused.
Accepts(expected, word) ==
    CASE expected = "magic1"  -> word.value = WORKER_MAGIC_1
      [] expected = "magic2"  -> word.value = WORKER_MAGIC_2
      [] expected = "version" -> word.value >= PROTOCOL_VERSION
      [] OTHER                -> TRUE

\* Messages are read until Last.
ProxyReceive(peer) ==
    LET pipe == PipeFrom(peer)
        expected == Current("proxy").word.kind
    IN  /\ Is("proxy", "receive", peer)
        /\ wire[pipe] # << >>
        /\ Accepts(expected, Head(wire[pipe]))
        /\ wire' = [wire EXCEPT ![pipe] = Tail(@)]
        /\ IF expected = "last" /\ Head(wire[pipe]).kind = "message"
             THEN UNCHANGED step
             ELSE Advance("proxy")
        /\ UNCHANGED << self, told, state, out, logs >>

\* Both constructors unwrap the result of their handshake: a refusal, an end of
\* file or a broken pipe is a panic.  The buffer is written out on exit.
Panic ==
    /\ state' = [state EXCEPT !["proxy"] = "gone"]
    /\ wire' = [wire EXCEPT !["p2c"] = @ \o out]
    /\ out' = << >>
    /\ UNCHANGED << self, told, step, logs >>

ProxyRefuses(peer) ==
    /\ Is("proxy", "receive", peer)
    /\ wire[PipeFrom(peer)] # << >>
    /\ ~ Accepts(Current("proxy").word.kind, Head(wire[PipeFrom(peer)]))
    /\ Panic

AtEof(peer) ==
    /\ Is("proxy", "receive", peer)
    /\ wire[PipeFrom(peer)] = << >>
    /\ state[peer] = "gone"

\* Mutant of ProxyEof: the end of file is taken for nothing to read yet.
ProxyEofRetried(peer) == AtEof(peer) /\ UNCHANGED vars

ProxyEof(peer) == AtEof(peer) /\ Panic

ProxyBrokenPipe(peer) ==
    /\ Is("proxy", "send", "daemon") \/ Is("proxy", "flush", "client")
    /\ Current("proxy").with = peer
    /\ state[peer] = "gone"
    /\ Panic

Proxy ==
    \/ ProxySendClient
    \/ ProxyFlush
    \/ ProxySpawn
    \/ ProxySendDaemon
    \/ \E peer \in Peers :
         \/ ProxyReceive(peer)
         \/ ProxyRefuses(peer)
         \/ ProxyEof(peer)
         \/ ProxyBrokenPipe(peer)

-----------------------------------------------------------------------------
\* The peers.

PeerSend(peer) ==
    /\ Is(peer, "send", "proxy")
    /\ state["proxy"] = "run"
    /\ wire' = [wire EXCEPT ![PipeFrom(peer)] = Append(@, Current(peer).word)]
    /\ Advance(peer)
    /\ UNCHANGED << self, told, state, out, logs >>

PeerReceive(peer) ==
    /\ Is(peer, "receive", "proxy")
    /\ wire[PipeTo(peer)] # << >>
    /\ wire' = [wire EXCEPT ![PipeTo(peer)] = Tail(@)]
    /\ told' = IF Current(peer).word.kind = "version"
                 THEN [told EXCEPT ![peer] = Head(wire[PipeTo(peer)]).value]
                 ELSE told
    /\ Advance(peer)
    /\ UNCHANGED << self, state, out, logs >>

\* Before Last the daemon may send other messages.
DaemonLog ==
    /\ Is("daemon", "send", "proxy")
    /\ Current("daemon").word.kind = "last"
    /\ state["proxy"] = "run"
    /\ logs < MaxLogs
    /\ logs' = logs + 1
    /\ wire' = [wire EXCEPT !["d2p"] = Append(@, Word("message", 0))]
    /\ UNCHANGED << self, told, step, state, out >>

\* A peer dies, or leaves because the proxy has.
PeerGone(peer) ==
    /\ state[peer] = "run"
    /\ \/ peer \in Crashing
       \/ state["proxy"] = "gone" /\ (wire[PipeTo(peer)] = << >> \/ Done(peer))
    /\ state' = [state EXCEPT ![peer] = "gone"]
    /\ wire' = [wire EXCEPT ![PipeTo(peer)] = << >>]
    /\ UNCHANGED << self, told, step, out, logs >>

PeerStep(peer) == PeerSend(peer) \/ PeerReceive(peer) \/ (peer = "daemon" /\ DaemonLog)

\* The session is open, or nobody is left.
Rest ==
    /\ \/ state["proxy"] = "run" /\ Done("proxy") /\ ~ Running("client")
       \/ \A p \in Parties : state[p] # "run"
    /\ UNCHANGED vars

Next ==
    \/ Proxy
    \/ \E peer \in Peers : PeerStep(peer) \/ PeerGone(peer)
    \/ Rest

Spec == Init /\ [][Next]_vars

Fairness == WF_vars(Proxy) /\ \A peer \in Peers : WF_vars(PeerStep(peer))

FairSpec == Spec /\ Fairness

-----------------------------------------------------------------------------
\* Each variable holds a value of its kind, nobody runs past its last step, and
\* the proxy never has more than two words in its buffer.
TypeOK ==
    /\ self \in [client : Clients, daemon : Daemons]
    /\ told \in [ Peers -> Nat ]
    /\ step \in [ Parties -> Nat ]
    /\ \A p \in Parties : step[p] <= Len(Program(p))
    /\ state \in [ Parties -> { "run", "gone", "unborn" } ]
    /\ \A w \in Pipes : \A i \in 1 .. Len(wire[w]) :
         wire[w][i] \in [kind : Kinds, value : Nat]
    /\ Len(out) <= 2
    /\ logs \in 0 .. MaxLogs

\* Nobody takes a word for something it was not sent as, although no reader
\* checks: the two handshakes of the proxy mirror what its peers do.
Misread(p, pipe) ==
    /\ wire[pipe] # << >>
    /\ Current(p).word.kind # Head(wire[pipe]).kind
    /\ ~ (Current(p).word.kind = "last" /\ Head(wire[pipe]).kind = "message")

NoMisread ==
    \A peer \in Peers :
        /\ Is("proxy", "receive", peer) => ~ Misread("proxy", PipeFrom(peer))
        /\ Is(peer, "receive", "proxy") => ~ Misread(peer, PipeTo(peer))

\* Whenever the proxy waits for the client, or leaves it for the daemon, what it
\* has told the client is on its way: the client waits for it before it sends.
NothingHeldBack ==
    /\ Is("proxy", "receive", "client") => out = << >>
    /\ step["proxy"] >= Len(HandshakeWithClient) => out = << >>

\* When the proxy enters its loop the client and the daemon have settled on the
\* same version, the proxy's own: each takes the lower of its own version and
\* the one it is told.
Settled(peer) == IF self[peer].version < told[peer] THEN self[peer].version ELSE told[peer]

OneVersion ==
    Done("proxy") => \A peer \in Peers : Settled(peer) = PROTOCOL_VERSION

\* When the proxy enters its loop nothing of the handshakes is left where an
\* operation or its answer would be looked for.
CleanStart ==
    Done("proxy") =>
        /\ wire["c2p"] = << >> /\ wire["p2d"] = << >> /\ wire["d2p"] = << >>
        /\ state["daemon"] = "run" => Done("daemon")

\* A client and a daemon that are Nix and no older than the proxy get a session,
\* unless one of them dies while the proxy is there.
Compatible ==
    /\ self["client"].magic = WORKER_MAGIC_1
    /\ self["daemon"].magic = WORKER_MAGIC_2
    /\ \A peer \in Peers : self[peer].version >= PROTOCOL_VERSION

PeerDied == \E peer \in Peers : state[peer] = "gone" /\ state["proxy"] # "gone"

Opens == Compatible => <>(PeerDied \/ (Done("proxy") /\ Done("client")))

\* Whoever the peers are and whenever they die, the proxy does not hang: it gets
\* to its loop or exits.  A client that was told all is well before there was a
\* daemon finds out in the end.
Settles == <>(Done("proxy") \/ state["proxy"] = "gone")
=============================================================================
