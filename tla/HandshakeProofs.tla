-------------------------- MODULE HandshakeProofs --------------------------
(***************************************************************************)
(* Theorems about Handshake.tla for every value of its constants.          *)
(*                                                                         *)
(* The parties take their steps in order, so what is in a pipe follows     *)
(* from how far its two ends have got: it is what the one has said less    *)
(* what the other has heard.  The first part of the module says how much   *)
(* that is after each step, the second says what is in the pipes, and the  *)
(* rest shows that it stays so and what follows from it.                   *)
(***************************************************************************)
EXTENDS Handshake, SequenceTheorems, TLAPS

-----------------------------------------------------------------------------
\* What each party says to another in the whole handshake, in order.

ClientWords ==
    << Word("magic1", self["client"].magic), Word("version", self["client"].version),
       Word("obsolete", 0), Word("obsolete", 0) >>

WordsForClient ==
    << Word("magic2", WORKER_MAGIC_2), Word("version", PROTOCOL_VERSION),
       Word("name", 0), Word("trusted", 1), Word("last", 0) >>

WordsForDaemon ==
    << Word("magic1", WORKER_MAGIC_1), Word("version", PROTOCOL_VERSION),
       Word("obsolete", 0), Word("obsolete", 0) >>

DaemonWords ==
    << Word("magic2", self["daemon"].magic), Word("version", self["daemon"].version),
       Word("name", 0), Word("trusted", 1), Word("last", 0) >>

Message == Word("message", 0)

\* How many of them have been said, and how many heard, after so many steps.

SaidByClient(n) ==
    IF n < 1 THEN 0 ELSE IF n < 4 THEN 1 ELSE IF n < 6 THEN n - 2 ELSE 4
HeardFromClient(n) ==
    IF n < 1 THEN 0 ELSE IF n < 5 THEN 1 ELSE IF n < 7 THEN n - 3 ELSE 4

BufferedForClient(n) ==
    IF n < 2 THEN 0 ELSE IF n < 3 THEN 1 ELSE IF n < 8 THEN 2 ELSE
    IF n < 9 THEN 3 ELSE IF n < 11 THEN 4 ELSE 5
FlushedForClient(n) ==
    IF n < 4 THEN 0 ELSE IF n < 10 THEN 2 ELSE IF n < 12 THEN 4 ELSE 5
HeardByClient(n) ==
    IF n < 2 THEN 0 ELSE IF n < 3 THEN 1 ELSE IF n < 7 THEN 2 ELSE n - 4

SaidToDaemon(n) ==
    IF n < 14 THEN 0 ELSE IF n < 17 THEN 1 ELSE IF n < 19 THEN n - 15 ELSE 4
HeardByDaemon(n) ==
    IF n < 1 THEN 0 ELSE IF n < 4 THEN 1 ELSE IF n < 6 THEN n - 2 ELSE 4

SaidByDaemon(n) ==
    IF n < 2 THEN 0 ELSE IF n < 3 THEN 1 ELSE IF n < 7 THEN 2 ELSE n - 4
HeardFromDaemon(n) ==
    IF n < 15 THEN 0 ELSE IF n < 16 THEN 1 ELSE IF n < 20 THEN 2 ELSE n - 17

-----------------------------------------------------------------------------
\* What is in the pipes and in the buffer.

\* The words that are said and not heard.
Holds(s, words, heard, said) ==
    /\ Len(s) = said - heard
    /\ \A i \in 1 .. Len(s) : s[i] = words[heard + i]

C2P ==
    Holds(wire["c2p"], ClientWords,
          HeardFromClient(step["proxy"]), SaidByClient(step["client"]))

\* What waits in the buffer is flushed by a later step, or by the exit.
Out ==
    IF state["proxy"] = "run"
      THEN Holds(out, WordsForClient,
                 FlushedForClient(step["proxy"]), BufferedForClient(step["proxy"]))
      ELSE out = << >>

P2C ==
    state["client"] = "run" =>
      Holds(wire["p2c"], WordsForClient, HeardByClient(step["client"]),
            IF state["proxy"] = "run" THEN FlushedForClient(step["proxy"])
            ELSE BufferedForClient(step["proxy"]))

P2D ==
    IF state["daemon"] = "run"
      THEN Holds(wire["p2d"], WordsForDaemon,
                 HeardByDaemon(step["daemon"]), SaidToDaemon(step["proxy"]))
      ELSE wire["p2d"] = << >>

\* The same with messages between the fourth word and the fifth, the last.
HoldsLogs(s, words, heard, said) ==
    /\ heard <= said /\ said - heard <= Len(s)
    /\ said < 4 \/ heard = 5 => Len(s) = said - heard
    /\ \A i \in 1 .. Len(s) :
         s[i] = IF heard + i <= 4 THEN words[heard + i]
                ELSE IF said = 5 /\ i = Len(s) THEN words[5]
                ELSE Message

D2P ==
    HoldsLogs(wire["d2p"], DaemonWords,
              HeardFromDaemon(step["proxy"]), SaidByDaemon(step["daemon"]))

\* Who is there, and what has come of the versions.
Progress ==
    /\ step["proxy"] <= 22 /\ step["client"] <= 9 /\ step["daemon"] <= 9
    /\ state["proxy"] # "unborn" /\ state["client"] # "unborn"
    /\ state["daemon"] = "unborn" <=> step["proxy"] < 13
    /\ step["proxy"] < 13 => step["daemon"] = 0
    /\ told["client"] = IF step["client"] < 3 THEN 0 ELSE PROTOCOL_VERSION
    /\ told["daemon"] = IF step["daemon"] < 4 THEN 0 ELSE PROTOCOL_VERSION
    /\ step["proxy"] >= 5 => self["client"].version >= PROTOCOL_VERSION
    /\ step["proxy"] >= 16 => self["daemon"].version >= PROTOCOL_VERSION

Words == [kind : Kinds, value : Nat]

Typed ==
    /\ self \in [client : Clients, daemon : Daemons]
    /\ told \in [ Peers -> Nat ]
    /\ step \in [ Parties -> Nat ]
    /\ state \in [ Parties -> { "run", "gone", "unborn" } ]
    /\ wire \in [ Pipes -> Seq(Words) ]
    /\ out \in Seq(Words)
    /\ logs \in 0 .. MaxLogs

IInv == Typed /\ Progress /\ C2P /\ Out /\ P2C /\ P2D /\ D2P

-----------------------------------------------------------------------------
\* The programs, step by step.

Instructions ==
    [do : { "send", "receive", "flush", "spawn" }, with : Parties,
     word : [kind : Kinds \cup { "none" }, value : Nat]]

LEMMA Numbers ==
    /\ WORKER_MAGIC_1 \in Nat /\ WORKER_MAGIC_2 \in Nat
    /\ PROTOCOL_VERSION \in Nat
  BY SMT DEF WORKER_MAGIC_1, WORKER_MAGIC_2, PROTOCOL_VERSION

LEMMA AreInstructions ==
    /\ Flush \in Instructions /\ Spawn \in Instructions
    /\ \A with \in Parties, kind \in Kinds :
         /\ Receive(with, kind) \in Instructions
         /\ \A value \in Nat : Send(with, kind, value) \in Instructions
<1>1. Flush \in Instructions /\ Spawn \in Instructions
  BY SMT DEF Flush, Spawn, Instructions, Word, Parties
<1>2. \A with \in Parties, kind \in Kinds : Receive(with, kind) \in Instructions
  BY SMT DEF Receive, Instructions, Word
<1>3. \A with \in Parties, kind \in Kinds, value \in Nat : Send(with, kind, value) \in Instructions
  BY SMT DEF Send, Instructions, Word
<1>4. QED
  BY <1>1, <1>2, <1>3

LEMMA ProxyProgramIs ==
    /\ Len(ProxyProgram) = 22
    /\ \A i \in 1 .. 12 : ProxyProgram[i] = HandshakeWithClient[i]
    /\ ProxyProgram[13] = Spawn
    /\ \A i \in 14 .. 22 : ProxyProgram[i] = HandshakeWithDaemon[i - 13]
<1>1. HandshakeWithClient \in Seq(Instructions) /\ Len(HandshakeWithClient) = 12
  BY Numbers, AreInstructions, SMT DEF HandshakeWithClient, Parties, Kinds
<1>2. HandshakeWithDaemon \in Seq(Instructions) /\ Len(HandshakeWithDaemon) = 9
  BY Numbers, AreInstructions, SMT DEF HandshakeWithDaemon, Parties, Kinds
<1>3. << Spawn >> \in Seq(Instructions) /\ Len(<< Spawn >>) = 1 /\ << Spawn >>[1] = Spawn
  BY AreInstructions, SMT
<1> DEFINE opening == HandshakeWithClient \o << Spawn >>
<1>4. /\ opening \in Seq(Instructions)
      /\ Len(opening) = Len(HandshakeWithClient) + Len(<< Spawn >>)
  BY <1>1, <1>3, ConcatProperties, Zenon
<1>5. \A i \in 1 .. Len(HandshakeWithClient) + Len(<< Spawn >>) :
        opening[i] = IF i <= Len(HandshakeWithClient) THEN HandshakeWithClient[i]
                     ELSE << Spawn >>[i - Len(HandshakeWithClient)]
  BY <1>1, <1>3, ConcatProperties, Zenon
<1> HIDE DEF opening
<1>6. /\ Len(opening) = 13 /\ opening[13] = Spawn
      /\ \A i \in 1 .. 12 : opening[i] = HandshakeWithClient[i]
  BY <1>1, <1>3, <1>4, <1>5, SMT
<1>7. ProxyProgram = opening \o HandshakeWithDaemon
  BY Zenon DEF ProxyProgram, opening
<1>8. Len(ProxyProgram) = Len(opening) + Len(HandshakeWithDaemon)
  BY <1>2, <1>4, <1>7, ConcatProperties, Zenon
<1>9. \A i \in 1 .. Len(opening) + Len(HandshakeWithDaemon) :
        ProxyProgram[i] = IF i <= Len(opening) THEN opening[i]
                          ELSE HandshakeWithDaemon[i - Len(opening)]
  <2>1. opening \in Seq(Instructions) /\ HandshakeWithDaemon \in Seq(Instructions)
    BY <1>2, <1>4, Zenon
  <2>2. \A i \in 1 .. Len(opening) + Len(HandshakeWithDaemon) :
          (opening \o HandshakeWithDaemon)[i] =
            IF i <= Len(opening) THEN opening[i] ELSE HandshakeWithDaemon[i - Len(opening)]
    BY <2>1, ConcatProperties, Zenon
  <2>3. QED
    BY <1>7, <2>2, Zenon
<1>10. Len(opening) = 13 /\ Len(HandshakeWithDaemon) = 9
  BY <1>2, <1>6, Zenon
<1>11. Len(ProxyProgram) = 22
  BY <1>8, <1>10, SMT
<1>12. ProxyProgram[13] = Spawn
  BY <1>6, <1>9, <1>10, SMT
<1>13. \A i \in 1 .. 12 : ProxyProgram[i] = HandshakeWithClient[i]
  BY <1>6, <1>9, <1>10, SMT
<1>14. \A i \in 14 .. 22 : ProxyProgram[i] = HandshakeWithDaemon[i - 13]
  BY <1>9, <1>10, SMT
<1>15. QED
  BY <1>11, <1>12, <1>13, <1>14, Zenon

\* The step a party is at when it runs.
LEMMA ProxyAt ==
    ASSUME Typed, Progress, Running("proxy")
    PROVE  /\ state["proxy"] = "run" /\ step["proxy"] \in 0 .. 21
           /\ step["proxy"] < 12 => Current("proxy") = HandshakeWithClient[step["proxy"] + 1]
           /\ step["proxy"] = 12 => Current("proxy") = Spawn
           /\ step["proxy"] > 12 => Current("proxy") = HandshakeWithDaemon[step["proxy"] - 12]
<1>1. step["proxy"] \in Nat /\ step["proxy"] <= 22
  <2>1. step["proxy"] \in Nat
    BY SMT DEF Typed, Parties
  <2>2. QED
    BY <2>1, Zenon DEF Progress
<1>2. Program("proxy") = ProxyProgram
  BY SMT DEF Program
<1>3. step["proxy"] # 22 /\ state["proxy"] = "run"
  BY <1>2, ProxyProgramIs, Zenon DEF Running, Done
<1>4. Current("proxy") = ProxyProgram[step["proxy"] + 1]
  BY <1>2, Zenon DEF Current
<1>5. QED
  BY <1>1, <1>3, <1>4, ProxyProgramIs, SMT

LEMMA ProxySaysToClient ==
    ASSUME Typed, Progress, Is("proxy", "send", "client")
    PROVE  /\ state["proxy"] = "run" /\ step["proxy"] \in { 1, 2, 7, 8, 10 }
           /\ Current("proxy").word = WordsForClient[BufferedForClient(step["proxy"]) + 1]
<1>1. Running("proxy") /\ Current("proxy").do = "send" /\ Current("proxy").with = "client"
  BY Zenon DEF Is
<1>2. /\ HandshakeWithClient[1].do = "receive"
      /\ HandshakeWithClient[4].do = "flush" /\ HandshakeWithClient[5].do = "receive"
      /\ HandshakeWithClient[6].do = "receive" /\ HandshakeWithClient[7].do = "receive"
      /\ HandshakeWithClient[10].do = "flush" /\ HandshakeWithClient[12].do = "flush"
  BY SMT DEF HandshakeWithClient, Send, Receive, Flush
<1>3. Spawn.do # "send"
  BY SMT DEF Spawn
<1>4. \A i \in 1 .. 9 : HandshakeWithDaemon[i].with = "daemon"
  BY SMT DEF HandshakeWithDaemon, Send, Receive
<1>5. state["proxy"] = "run" /\ step["proxy"] \in { 1, 2, 7, 8, 10 }
  BY <1>1, <1>2, <1>3, <1>4, ProxyAt, SMT
<1>6. /\ HandshakeWithClient[2].word = WordsForClient[1]
      /\ HandshakeWithClient[3].word = WordsForClient[2]
      /\ HandshakeWithClient[8].word = WordsForClient[3]
      /\ HandshakeWithClient[9].word = WordsForClient[4]
      /\ HandshakeWithClient[11].word = WordsForClient[5]
  BY SMT DEF HandshakeWithClient, WordsForClient, Send
<1>7. QED
  BY <1>1, <1>5, <1>6, ProxyAt, SMT DEF BufferedForClient

LEMMA ProxyFlushes ==
    ASSUME Typed, Progress, Is("proxy", "flush", "client")
    PROVE  state["proxy"] = "run" /\ step["proxy"] \in { 3, 9, 11 }
<1>1. Running("proxy") /\ Current("proxy").do = "flush"
  BY Zenon DEF Is
<1>2. \A i \in 1 .. 12 : HandshakeWithClient[i].do = "flush" => i \in { 4, 10, 12 }
  BY SMT DEF HandshakeWithClient, Send, Receive, Flush
<1>3. Spawn.do # "flush"
  BY SMT DEF Spawn
<1>4. \A i \in 1 .. 9 : HandshakeWithDaemon[i].do # "flush"
  BY SMT DEF HandshakeWithDaemon, Send, Receive
<1>5. QED
  BY <1>1, <1>2, <1>3, <1>4, ProxyAt, SMT

LEMMA ProxySpawns ==
    ASSUME Typed, Progress, Is("proxy", "spawn", "daemon")
    PROVE  state["proxy"] = "run" /\ step["proxy"] = 12
<1>1. Running("proxy") /\ Current("proxy").do = "spawn"
  BY Zenon DEF Is
<1>2. \A i \in 1 .. 12 : HandshakeWithClient[i].do # "spawn"
  BY SMT DEF HandshakeWithClient, Send, Receive, Flush
<1>3. \A i \in 1 .. 9 : HandshakeWithDaemon[i].do # "spawn"
  BY SMT DEF HandshakeWithDaemon, Send, Receive
<1>4. QED
  BY <1>1, <1>2, <1>3, ProxyAt, SMT

LEMMA ProxySaysToDaemon ==
    ASSUME Typed, Progress, Is("proxy", "send", "daemon")
    PROVE  /\ state["proxy"] = "run" /\ step["proxy"] \in { 13, 16, 17, 18 }
           /\ Current("proxy").word = WordsForDaemon[SaidToDaemon(step["proxy"]) + 1]
<1>1. Running("proxy") /\ Current("proxy").do = "send" /\ Current("proxy").with = "daemon"
  BY Zenon DEF Is
<1>2. \A i \in 1 .. 12 : HandshakeWithClient[i].with = "client"
  BY SMT DEF HandshakeWithClient, Send, Receive, Flush
<1>3. Spawn.do # "send"
  BY SMT DEF Spawn
<1>4. \A i \in 1 .. 9 : HandshakeWithDaemon[i].do = "send" => i \in { 1, 4, 5, 6 }
  BY SMT DEF HandshakeWithDaemon, Send, Receive
<1>5. state["proxy"] = "run" /\ step["proxy"] \in { 13, 16, 17, 18 }
  BY <1>1, <1>2, <1>3, <1>4, ProxyAt, SMT
<1>6. /\ HandshakeWithDaemon[1].word = WordsForDaemon[1]
      /\ HandshakeWithDaemon[4].word = WordsForDaemon[2]
      /\ HandshakeWithDaemon[5].word = WordsForDaemon[3]
      /\ HandshakeWithDaemon[6].word = WordsForDaemon[4]
  BY SMT DEF HandshakeWithDaemon, WordsForDaemon, Send
<1>7. QED
  BY <1>1, <1>5, <1>6, ProxyAt, SMT DEF SaidToDaemon

LEMMA ProxyHearsClient ==
    ASSUME Typed, Progress, Is("proxy", "receive", "client")
    PROVE  /\ state["proxy"] = "run" /\ step["proxy"] \in { 0, 4, 5, 6 }
           /\ Current("proxy").word.kind = ClientWords[HeardFromClient(step["proxy"]) + 1].kind
<1>1. Running("proxy") /\ Current("proxy").do = "receive" /\ Current("proxy").with = "client"
  BY Zenon DEF Is
<1>2. \A i \in 1 .. 12 : HandshakeWithClient[i].do = "receive" => i \in { 1, 5, 6, 7 }
  BY SMT DEF HandshakeWithClient, Send, Receive, Flush
<1>3. Spawn.do # "receive"
  BY SMT DEF Spawn
<1>4. \A i \in 1 .. 9 : HandshakeWithDaemon[i].with = "daemon"
  BY SMT DEF HandshakeWithDaemon, Send, Receive
<1>5. state["proxy"] = "run" /\ step["proxy"] \in { 0, 4, 5, 6 }
  BY <1>1, <1>2, <1>3, <1>4, ProxyAt, SMT
<1>6. /\ HandshakeWithClient[1].word.kind = ClientWords[1].kind
      /\ HandshakeWithClient[5].word.kind = ClientWords[2].kind
      /\ HandshakeWithClient[6].word.kind = ClientWords[3].kind
      /\ HandshakeWithClient[7].word.kind = ClientWords[4].kind
  BY SMT DEF HandshakeWithClient, ClientWords, Receive, Word
<1>7. QED
  BY <1>1, <1>5, <1>6, ProxyAt, SMT DEF HeardFromClient

LEMMA ProxyHearsDaemon ==
    ASSUME Typed, Progress, Is("proxy", "receive", "daemon")
    PROVE  /\ state["proxy"] = "run" /\ step["proxy"] \in { 14, 15, 19, 20, 21 }
           /\ Current("proxy").word.kind = DaemonWords[HeardFromDaemon(step["proxy"]) + 1].kind
<1>1. Running("proxy") /\ Current("proxy").do = "receive" /\ Current("proxy").with = "daemon"
  BY Zenon DEF Is
<1>2. \A i \in 1 .. 12 : HandshakeWithClient[i].with = "client"
  BY SMT DEF HandshakeWithClient, Send, Receive, Flush
<1>3. Spawn.do # "receive"
  BY SMT DEF Spawn
<1>4. \A i \in 1 .. 9 : HandshakeWithDaemon[i].do = "receive" => i \in { 2, 3, 7, 8, 9 }
  BY SMT DEF HandshakeWithDaemon, Send, Receive
<1>5. state["proxy"] = "run" /\ step["proxy"] \in { 14, 15, 19, 20, 21 }
  BY <1>1, <1>2, <1>3, <1>4, ProxyAt, SMT
<1>6. /\ HandshakeWithDaemon[2].word.kind = DaemonWords[1].kind
      /\ HandshakeWithDaemon[3].word.kind = DaemonWords[2].kind
      /\ HandshakeWithDaemon[7].word.kind = DaemonWords[3].kind
      /\ HandshakeWithDaemon[8].word.kind = DaemonWords[4].kind
      /\ HandshakeWithDaemon[9].word.kind = DaemonWords[5].kind
  BY SMT DEF HandshakeWithDaemon, DaemonWords, Receive, Word
<1>7. QED
  BY <1>1, <1>5, <1>6, ProxyAt, SMT DEF HeardFromDaemon

LEMMA ClientAt ==
    ASSUME Typed, Progress, Running("client")
    PROVE  /\ state["client"] = "run" /\ step["client"] \in 0 .. 8
           /\ Current("client") = ClientProgram(self["client"])[step["client"] + 1]
<1>1. step["client"] \in Nat /\ step["client"] <= 9
  <2>1. step["client"] \in Nat
    BY SMT DEF Typed, Parties
  <2>2. QED
    BY <2>1, Zenon DEF Progress
<1>2. Program("client") = ClientProgram(self["client"])
  BY SMT DEF Program
<1>3. Len(ClientProgram(self["client"])) = 9
  BY SMT DEF ClientProgram
<1>4. step["client"] # 9 /\ state["client"] = "run"
  BY <1>2, <1>3, Zenon DEF Running, Done
<1>5. Current("client") = ClientProgram(self["client"])[step["client"] + 1]
  BY <1>2, Zenon DEF Current
<1>6. QED
  BY <1>1, <1>4, <1>5, SMT

LEMMA DaemonAt ==
    ASSUME Typed, Progress, Running("daemon")
    PROVE  /\ state["daemon"] = "run" /\ step["daemon"] \in 0 .. 8
           /\ Current("daemon") = DaemonProgram(self["daemon"])[step["daemon"] + 1]
<1>1. step["daemon"] \in Nat /\ step["daemon"] <= 9
  <2>1. step["daemon"] \in Nat
    BY SMT DEF Typed, Parties
  <2>2. QED
    BY <2>1, Zenon DEF Progress
<1>2. Program("daemon") = DaemonProgram(self["daemon"])
  BY SMT DEF Program
<1>3. Len(DaemonProgram(self["daemon"])) = 9
  BY SMT DEF DaemonProgram
<1>4. step["daemon"] # 9 /\ state["daemon"] = "run"
  BY <1>2, <1>3, Zenon DEF Running, Done
<1>5. Current("daemon") = DaemonProgram(self["daemon"])[step["daemon"] + 1]
  BY <1>2, Zenon DEF Current
<1>6. QED
  BY <1>1, <1>4, <1>5, SMT

LEMMA ClientSays ==
    ASSUME Typed, Progress, Is("client", "send", "proxy")
    PROVE  /\ state["client"] = "run" /\ step["client"] \in { 0, 3, 4, 5 }
           /\ Current("client").word = ClientWords[SaidByClient(step["client"]) + 1]
<1>1. Running("client") /\ Current("client").do = "send"
  BY Zenon DEF Is
<1>2. \A i \in 1 .. 9 : ClientProgram(self["client"])[i].do = "send" => i \in { 1, 4, 5, 6 }
  BY SMT DEF ClientProgram, Send, Receive
<1>3. state["client"] = "run" /\ step["client"] \in { 0, 3, 4, 5 }
  BY <1>1, <1>2, ClientAt, SMT
<1>4. /\ ClientProgram(self["client"])[1].word = ClientWords[1]
      /\ ClientProgram(self["client"])[4].word = ClientWords[2]
      /\ ClientProgram(self["client"])[5].word = ClientWords[3]
      /\ ClientProgram(self["client"])[6].word = ClientWords[4]
  BY SMT DEF ClientProgram, ClientWords, Send
<1>5. QED
  BY <1>1, <1>3, <1>4, ClientAt, SMT DEF SaidByClient

LEMMA ClientHears ==
    ASSUME Typed, Progress, Is("client", "receive", "proxy")
    PROVE  /\ state["client"] = "run" /\ step["client"] \in { 1, 2, 6, 7, 8 }
           /\ Current("client").word.kind = WordsForClient[HeardByClient(step["client"]) + 1].kind
<1>1. Running("client") /\ Current("client").do = "receive"
  BY Zenon DEF Is
<1>2. \A i \in 1 .. 9 : ClientProgram(self["client"])[i].do = "receive" => i \in { 2, 3, 7, 8, 9 }
  BY SMT DEF ClientProgram, Send, Receive
<1>3. state["client"] = "run" /\ step["client"] \in { 1, 2, 6, 7, 8 }
  BY <1>1, <1>2, ClientAt, SMT
<1>4. /\ ClientProgram(self["client"])[2].word.kind = WordsForClient[1].kind
      /\ ClientProgram(self["client"])[3].word.kind = WordsForClient[2].kind
      /\ ClientProgram(self["client"])[7].word.kind = WordsForClient[3].kind
      /\ ClientProgram(self["client"])[8].word.kind = WordsForClient[4].kind
      /\ ClientProgram(self["client"])[9].word.kind = WordsForClient[5].kind
  BY SMT DEF ClientProgram, WordsForClient, Receive, Word
<1>5. QED
  BY <1>1, <1>3, <1>4, ClientAt, SMT DEF HeardByClient

LEMMA DaemonSays ==
    ASSUME Typed, Progress, Is("daemon", "send", "proxy")
    PROVE  /\ state["daemon"] = "run" /\ step["daemon"] \in { 1, 2, 6, 7, 8 }
           /\ Current("daemon").word = DaemonWords[SaidByDaemon(step["daemon"]) + 1]
<1>1. Running("daemon") /\ Current("daemon").do = "send"
  BY Zenon DEF Is
<1>2. \A i \in 1 .. 9 : DaemonProgram(self["daemon"])[i].do = "send" => i \in { 2, 3, 7, 8, 9 }
  BY SMT DEF DaemonProgram, Send, Receive
<1>3. state["daemon"] = "run" /\ step["daemon"] \in { 1, 2, 6, 7, 8 }
  BY <1>1, <1>2, DaemonAt, SMT
<1>4. /\ DaemonProgram(self["daemon"])[2].word = DaemonWords[1]
      /\ DaemonProgram(self["daemon"])[3].word = DaemonWords[2]
      /\ DaemonProgram(self["daemon"])[7].word = DaemonWords[3]
      /\ DaemonProgram(self["daemon"])[8].word = DaemonWords[4]
      /\ DaemonProgram(self["daemon"])[9].word = DaemonWords[5]
  BY SMT DEF DaemonProgram, DaemonWords, Send
<1>5. QED
  BY <1>1, <1>3, <1>4, DaemonAt, SMT DEF SaidByDaemon

LEMMA DaemonHears ==
    ASSUME Typed, Progress, Is("daemon", "receive", "proxy")
    PROVE  /\ state["daemon"] = "run" /\ step["daemon"] \in { 0, 3, 4, 5 }
           /\ Current("daemon").word.kind = WordsForDaemon[HeardByDaemon(step["daemon"]) + 1].kind
<1>1. Running("daemon") /\ Current("daemon").do = "receive"
  BY Zenon DEF Is
<1>2. \A i \in 1 .. 9 : DaemonProgram(self["daemon"])[i].do = "receive" => i \in { 1, 4, 5, 6 }
  BY SMT DEF DaemonProgram, Send, Receive
<1>3. state["daemon"] = "run" /\ step["daemon"] \in { 0, 3, 4, 5 }
  BY <1>1, <1>2, DaemonAt, SMT
<1>4. /\ DaemonProgram(self["daemon"])[1].word.kind = WordsForDaemon[1].kind
      /\ DaemonProgram(self["daemon"])[4].word.kind = WordsForDaemon[2].kind
      /\ DaemonProgram(self["daemon"])[5].word.kind = WordsForDaemon[3].kind
      /\ DaemonProgram(self["daemon"])[6].word.kind = WordsForDaemon[4].kind
  BY SMT DEF DaemonProgram, WordsForDaemon, Receive, Word
<1>5. QED
  BY <1>1, <1>3, <1>4, DaemonAt, SMT DEF HeardByDaemon

LEMMA WordsAreWords ==
    ASSUME Typed
    PROVE  /\ \A i \in 1 .. 4 : ClientWords[i] \in Words /\ WordsForDaemon[i] \in Words
           /\ \A i \in 1 .. 5 : DaemonWords[i] \in Words /\ WordsForClient[i] \in Words
           /\ Message \in Words
<1>1. /\ self["client"].magic \in Nat /\ self["client"].version \in Nat
      /\ self["daemon"].magic \in Nat /\ self["daemon"].version \in Nat
  BY PeerAssumption, SMT DEF Typed
<1>2. \A kind \in Kinds, value \in Nat : Word(kind, value) \in Words
  BY SMT DEF Word, Words
<1>3. \A i \in 1 .. 4 : ClientWords[i] \in Words
  BY <1>1, <1>2, SMT DEF ClientWords, Kinds
<1>4. \A i \in 1 .. 4 : WordsForDaemon[i] \in Words
  BY <1>2, Numbers, SMT DEF WordsForDaemon, Kinds
<1>5. \A i \in 1 .. 5 : DaemonWords[i] \in Words
  BY <1>1, <1>2, SMT DEF DaemonWords, Kinds
<1>6. \A i \in 1 .. 5 : WordsForClient[i] \in Words
  BY <1>2, Numbers, SMT DEF WordsForClient, Kinds
<1>7. Message \in Words
  BY <1>2, SMT DEF Message, Kinds
<1>8. QED
  BY <1>3, <1>4, <1>5, <1>6, <1>7, Zenon

-----------------------------------------------------------------------------
\* What saying, hearing and flushing do to what a pipe holds.

LEMMA Said ==
    ASSUME NEW s \in Seq(Words), NEW words, NEW heard \in Nat, NEW said \in Nat,
           Holds(s, words, heard, said), words[said + 1] \in Words
    PROVE  /\ Append(s, words[said + 1]) \in Seq(Words)
           /\ Holds(Append(s, words[said + 1]), words, heard, said + 1)
<1> DEFINE x == words[said + 1]
<1>1. x \in Words
  OBVIOUS
<1> HIDE DEF x
<1>2. /\ Append(s, x) \in Seq(Words) /\ Len(Append(s, x)) = Len(s) + 1
      /\ Append(s, x)[Len(s) + 1] = x
      /\ \A i \in 1 .. Len(s) : Append(s, x)[i] = s[i]
  BY <1>1, AppendProperties, SMT
<1>3. Len(s) \in Nat
  OBVIOUS
<1>4. x = words[said + 1]
  BY DEF x
<1> DEFINE t == Append(s, x)
<1>5. Len(t) = Len(s) + 1
  BY <1>2, Zenon
<1>6. t[Len(s) + 1] = x /\ \A i \in 1 .. Len(s) : t[i] = s[i]
  BY <1>2, Zenon
<1> HIDE DEF t
<1>7. Len(s) = said - heard
  BY Zenon DEF Holds
<1>8. \A i \in 1 .. Len(s) : s[i] = words[heard + i]
  BY Zenon DEF Holds
<1>9. Len(t) = said + 1 - heard
  BY <1>3, <1>5, <1>7, SMT
<1>10. ASSUME NEW i \in 1 .. Len(t)
       PROVE  t[i] = words[heard + i]
  <2>1. CASE i \in 1 .. Len(s)
    BY <2>1, <1>6, <1>8, Zenon
  <2>2. CASE i = Len(s) + 1
    <3>1. heard + i = said + 1
      BY <2>2, <1>3, <1>7, SMT
    <3>2. QED
      BY <2>2, <3>1, <1>4, <1>6, Zenon
  <2>3. i \in 1 .. Len(s) \/ i = Len(s) + 1
    BY <1>3, <1>5, SMT
  <2>4. QED
    BY <2>1, <2>2, <2>3
<1>11. Holds(t, words, heard, said + 1)
  BY <1>9, <1>10 DEF Holds
<1>12. QED
  BY <1>2, <1>11 DEF t, x

LEMMA Heard ==
    ASSUME NEW s \in Seq(Words), NEW words, NEW heard \in Nat, NEW said \in Nat,
           Holds(s, words, heard, said), s # << >>
    PROVE  /\ Tail(s) \in Seq(Words) /\ Head(s) = words[heard + 1]
           /\ heard < said /\ Holds(Tail(s), words, heard + 1, said)
<1>1. /\ Head(s) = s[1] /\ Tail(s) \in Seq(Words) /\ Len(Tail(s)) = Len(s) - 1
      /\ \A i \in 1 .. Len(Tail(s)) : Tail(s)[i] = s[i + 1]
      /\ Len(s) \in Nat \ { 0 }
  BY HeadTailProperties, EmptySeq, SMT
<1>2. QED
  BY <1>1, SMT DEF Holds

LEMMA Flushed ==
    ASSUME NEW s \in Seq(Words), NEW t \in Seq(Words), NEW words,
           NEW heard \in Nat, NEW flushed \in Nat, NEW said \in Nat,
           Holds(s, words, heard, flushed), Holds(t, words, flushed, said)
    PROVE  s \o t \in Seq(Words) /\ Holds(s \o t, words, heard, said)
<1>1. s \o t \in Seq(Words) /\ Len(s \o t) = Len(s) + Len(t)
  BY ConcatProperties, Zenon
<1>2. ASSUME NEW i \in 1 .. Len(s \o t)
      PROVE  (s \o t)[i] = words[heard + i]
  <2>1. i \in 1 .. Len(s) + Len(t)
    BY <1>1, Zenon
  <2>2. (s \o t)[i] = IF i <= Len(s) THEN s[i] ELSE t[i - Len(s)]
    BY <2>1, ConcatProperties, Zenon
  <2> DEFINE x == (s \o t)[i]
  <2> HIDE DEF x
  <2>3. x = IF i <= Len(s) THEN s[i] ELSE t[i - Len(s)]
    BY <2>2, Zenon DEF x
  <2>4. x = words[heard + i]
    BY <2>1, <2>3, SMT DEF Holds
  <2>5. QED
    BY <2>4, Zenon DEF x
<1>3. Len(s) + Len(t) = said - heard
  BY SMT DEF Holds
<1>4. QED
  BY <1>1, <1>2, <1>3, Zenon DEF Holds

\* The same where there are messages.

LEMMA SaidAmongLogs ==
    ASSUME NEW s \in Seq(Words), NEW words, NEW heard \in 0 .. 5, NEW said \in 0 .. 4,
           HoldsLogs(s, words, heard, said), NEW x \in Words,
           x = words[said + 1] 
    PROVE  Append(s, x) \in Seq(Words) /\ HoldsLogs(Append(s, x), words, heard, said + 1)
<1> DEFINE t == Append(s, x)
<1>1. /\ t \in Seq(Words) /\ Len(t) = Len(s) + 1 /\ t[Len(s) + 1] = x
      /\ \A i \in 1 .. Len(s) : t[i] = s[i]
  BY AppendProperties, SMT
<1> HIDE DEF t
<1>2. t \in Seq(Words) /\ Len(t) = Len(s) + 1
  BY <1>1, Zenon
<1>3. t[Len(s) + 1] = x /\ \A i \in 1 .. Len(s) : t[i] = s[i]
  BY <1>1, Zenon
<1>4. /\ heard <= said /\ said - heard <= Len(s)
      /\ said < 4 \/ heard = 5 => Len(s) = said - heard
  BY Zenon DEF HoldsLogs
<1>5. /\ heard <= said + 1 /\ said + 1 - heard <= Len(t)
      /\ said + 1 < 4 \/ heard = 5 => Len(t) = said + 1 - heard
  BY <1>2, <1>4, SMT
<1>6. ASSUME NEW i \in 1 .. Len(t)
      PROVE  t[i] = IF heard + i <= 4 THEN words[heard + i]
                    ELSE IF said + 1 = 5 /\ i = Len(t) THEN words[5]
                    ELSE Message
  <2>1. CASE i \in 1 .. Len(s)
    <3>1. t[i] = IF heard + i <= 4 THEN words[heard + i]
                 ELSE IF said = 5 /\ i = Len(s) THEN words[5] ELSE Message
      BY <2>1, <1>3 DEF HoldsLogs
    <3>2. said # 5 /\ i # Len(t)
      BY <2>1, <1>2, SMT
    <3>3. QED
      BY <3>1, <3>2
  <2>2. CASE i = Len(s) + 1
    <3>1. t[i] = words[said + 1] /\ i = Len(t)
      BY <2>2, <1>2, <1>3
    <3>2. IF said < 4 THEN heard + i = said + 1 ELSE said + 1 = 5 /\ heard + i > 4
      BY <2>2, <1>4, SMT
    <3>3. QED
      BY <3>1, <3>2
  <2>3. i \in 1 .. Len(s) \/ i = Len(s) + 1
    BY <1>2, SMT
  <2>4. QED
    BY <2>1, <2>2, <2>3
<1>7. HoldsLogs(t, words, heard, said + 1)
  BY <1>5, <1>6 DEF HoldsLogs
<1>8. QED
  BY <1>2, <1>7 DEF t

LEMMA LoggedAmongLogs ==
    ASSUME NEW s \in Seq(Words), NEW words, NEW heard \in 0 .. 5, Message \in Words,
           HoldsLogs(s, words, heard, 4)
    PROVE  Append(s, Message) \in Seq(Words) /\ HoldsLogs(Append(s, Message), words, heard, 4)
<1> DEFINE t == Append(s, Message)
<1>1. /\ t \in Seq(Words) /\ Len(t) = Len(s) + 1 /\ t[Len(s) + 1] = Message
      /\ \A i \in 1 .. Len(s) : t[i] = s[i]
  BY AppendProperties, SMT
<1> HIDE DEF t
<1>2. t \in Seq(Words) /\ Len(t) = Len(s) + 1
  BY <1>1, Zenon
<1>3. heard <= 4 /\ 4 - heard <= Len(s)
  BY Zenon DEF HoldsLogs
<1>4. heard <= 4 /\ 4 - heard <= Len(t) /\ ~ (4 < 4 \/ heard = 5)
  BY <1>2, <1>3, SMT
<1>5. ASSUME NEW i \in 1 .. Len(t)
      PROVE  t[i] = IF heard + i <= 4 THEN words[heard + i] ELSE Message
  <2>1. CASE i \in 1 .. Len(s)
    <3>1. t[i] = IF heard + i <= 4 THEN words[heard + i]
                 ELSE IF 4 = 5 /\ i = Len(s) THEN words[5] ELSE Message
      BY <2>1, <1>1 DEF HoldsLogs
    <3>2. QED
      BY <3>1
  <2>2. CASE i = Len(s) + 1
    <3>1. t[i] = Message
      BY <2>2, <1>1
    <3>2. heard + i > 4
      BY <2>2, <1>3, SMT
    <3>3. QED
      BY <3>1, <3>2
  <2>3. i \in 1 .. Len(s) \/ i = Len(s) + 1
    BY <1>2, SMT
  <2>4. QED
    BY <2>1, <2>2, <2>3
<1>6. HoldsLogs(t, words, heard, 4)
  BY <1>4, <1>5 DEF HoldsLogs
<1>7. QED
  BY <1>2, <1>6 DEF t

\* What is heard is the next word; the last one may have to wait for messages.
LEMMA HeardAmongLogs ==
    ASSUME NEW s \in Seq(Words), NEW words, NEW heard \in 0 .. 4, NEW said \in 0 .. 5,
           HoldsLogs(s, words, heard, said), words[5] # Message, s # << >>
    PROVE  /\ Tail(s) \in Seq(Words)
           /\ Head(s) = words[heard + 1] \/ (heard = 4 /\ Head(s) = Message)
           /\ IF heard = 4 /\ Head(s) = Message
                THEN HoldsLogs(Tail(s), words, heard, said)
                ELSE HoldsLogs(Tail(s), words, heard + 1, said)
<1> DEFINE t == Tail(s)
<1>1. /\ Head(s) = s[1] /\ t \in Seq(Words) /\ Len(t) = Len(s) - 1
      /\ \A i \in 1 .. Len(t) : t[i] = s[i + 1]
      /\ Len(s) \in Nat \ { 0 } /\ Len(t) \in Nat
  BY HeadTailProperties, EmptySeq, SMT
<1> HIDE DEF t
<1>2. Len(t) = Len(s) - 1 /\ Len(s) \in Nat \ { 0 } /\ Len(t) \in Nat
  BY <1>1, Zenon
<1>3. \A i \in 1 .. Len(t) : t[i] = s[i + 1]
  BY <1>1, Zenon
<1>4. /\ heard <= said /\ said - heard <= Len(s)
      /\ said < 4 \/ heard = 5 => Len(s) = said - heard
  BY Zenon DEF HoldsLogs
<1>5. ASSUME NEW i \in 1 .. Len(s)
      PROVE  s[i] = IF heard + i <= 4 THEN words[heard + i]
                    ELSE IF said = 5 /\ i = Len(s) THEN words[5] ELSE Message
  BY Zenon DEF HoldsLogs
<1>6. s[1] = IF heard < 4 THEN words[heard + 1]
             ELSE IF said = 5 /\ Len(s) = 1 THEN words[5] ELSE Message
  <2>1. 1 \in 1 .. Len(s) /\ (heard + 1 <= 4 <=> heard < 4)
    BY <1>2, SMT
  <2>2. QED
    BY <1>5, <2>1
<1>7. CASE heard < 4
  <2>1. s[1] = words[heard + 1]
    BY <1>6, <1>7
  <2>2. /\ heard + 1 <= said /\ said - (heard + 1) <= Len(t)
        /\ said < 4 \/ heard + 1 = 5 => Len(t) = said - (heard + 1)
    BY <1>2, <1>4, <1>7, SMT
  <2>3. ASSUME NEW i \in 1 .. Len(t)
        PROVE  t[i] = IF heard + 1 + i <= 4 THEN words[heard + 1 + i]
                      ELSE IF said = 5 /\ i = Len(t) THEN words[5] ELSE Message
    <3>1. /\ i + 1 \in 1 .. Len(s) /\ heard + (i + 1) = heard + 1 + i
          /\ i = Len(t) <=> i + 1 = Len(s)
      BY <1>2, SMT
    <3>2. s[i + 1] = IF heard + (i + 1) <= 4 THEN words[heard + (i + 1)]
                     ELSE IF said = 5 /\ i + 1 = Len(s) THEN words[5] ELSE Message
      BY <3>1, <1>5
    <3>3. QED
      BY <3>1, <3>2, <1>3
  <2>4. HoldsLogs(t, words, heard + 1, said)
    BY <2>2, <2>3 DEF HoldsLogs
  <2>5. QED
    BY <1>1, <1>7, <2>1, <2>4 DEF t
<1>8. CASE heard = 4 /\ s[1] = Message
  <2>1. ~ (said = 5 /\ Len(s) = 1)
    BY <1>6, <1>8
  <2>2. /\ heard <= said /\ said - heard <= Len(t)
        /\ ~ (said < 4 \/ heard = 5)
    BY <1>2, <1>4, <1>8, <2>1, SMT
  <2>3. ASSUME NEW i \in 1 .. Len(t)
        PROVE  t[i] = IF said = 5 /\ i = Len(t) THEN words[5] ELSE Message
    <3>1. /\ i + 1 \in 1 .. Len(s) /\ ~ (heard + (i + 1) <= 4)
          /\ i = Len(t) <=> i + 1 = Len(s)
      BY <1>2, <1>8, SMT
    <3>2. QED
      BY <3>1, <1>3, <1>5
  <2>4. \A i \in 1 .. Len(t) : ~ (heard + i <= 4)
    BY <1>2, <1>8, SMT
  <2>5. HoldsLogs(t, words, heard, said)
    BY <2>2, <2>3, <2>4 DEF HoldsLogs
  <2>6. QED
    BY <1>1, <1>8, <2>5 DEF t
<1>9. CASE heard = 4 /\ s[1] # Message
  <2>1. said = 5 /\ Len(s) = 1 /\ s[1] = words[5]
    BY <1>6, <1>9
  <2>2. Len(t) = 0 /\ heard + 1 = 5
    BY <1>2, <1>9, <2>1, SMT
  <2>3. HoldsLogs(t, words, 5, said)
    BY <2>1, <2>2, SMT DEF HoldsLogs
  <2>4. QED
    BY <1>1, <1>9, <2>1, <2>2, <2>3 DEF t
<1>10. QED
  BY <1>7, <1>8, <1>9

-----------------------------------------------------------------------------
\* The steps.

LEMMA Advanced ==
    ASSUME Typed, NEW p \in Parties, Advance(p)
    PROVE  /\ step' \in [ Parties -> Nat ] /\ step'[p] = step[p] + 1
           /\ \A q \in Parties \ { p } : step'[q] = step[q]
  BY SMT DEF Typed, Advance

LEMMA SameWords ==
    ASSUME self' = self
    PROVE  ClientWords' = ClientWords /\ DaemonWords' = DaemonWords
  BY SMT DEF ClientWords, DaemonWords

LEMMA CountsAreNat ==
    ASSUME Typed
    PROVE  /\ step["proxy"] \in Nat /\ step["client"] \in Nat /\ step["daemon"] \in Nat
           /\ wire["c2p"] \in Seq(Words) /\ wire["p2c"] \in Seq(Words)
           /\ wire["p2d"] \in Seq(Words) /\ wire["d2p"] \in Seq(Words)
           /\ out \in Seq(Words)
  BY SMT DEF Typed, Parties, Pipes

LEMMA ProxySendClientKeeps ==
    ASSUME IInv, ProxySendClient
    PROVE  IInv'
<1>1. Typed /\ Progress /\ C2P /\ Out /\ P2C /\ P2D /\ D2P
  BY Zenon DEF IInv
<1>2. /\ state["proxy"] = "run" /\ step["proxy"] \in { 1, 2, 7, 8, 10 }
      /\ Current("proxy").word = WordsForClient[BufferedForClient(step["proxy"]) + 1]
  BY <1>1, ProxySaysToClient, Zenon DEF ProxySendClient
<1>3. /\ UNCHANGED << self, told, state, wire, logs >>
      /\ out' = Append(out, Current("proxy").word)
  BY Zenon DEF ProxySendClient
<1>4. /\ step' \in [ Parties -> Nat ] /\ step'["proxy"] = step["proxy"] + 1
      /\ step'["client"] = step["client"] /\ step'["daemon"] = step["daemon"]
  BY <1>1, Advanced, SMT DEF ProxySendClient, Parties
<1>5. /\ BufferedForClient(step["proxy"]) \in 0 .. 4
      /\ BufferedForClient(step'["proxy"]) = BufferedForClient(step["proxy"]) + 1
  BY <1>2, <1>4, SMT DEF BufferedForClient
<1>6. /\ FlushedForClient(step["proxy"]) \in 0 .. 5
      /\ FlushedForClient(step'["proxy"]) = FlushedForClient(step["proxy"])
  BY <1>2, <1>4, SMT DEF FlushedForClient
<1>7. /\ HeardFromClient(step'["proxy"]) = HeardFromClient(step["proxy"])
      /\ HeardFromDaemon(step'["proxy"]) = HeardFromDaemon(step["proxy"])
      /\ SaidToDaemon(step'["proxy"]) = SaidToDaemon(step["proxy"])
  BY <1>2, <1>4, SMT DEF HeardFromClient, HeardFromDaemon, SaidToDaemon
<1>8. out' \in Seq(Words) /\ Out'
  <2>1. Holds(out, WordsForClient, FlushedForClient(step["proxy"]),
              BufferedForClient(step["proxy"]))
    BY <1>1, <1>2, Zenon DEF Out
  <2>2. WordsForClient[BufferedForClient(step["proxy"]) + 1] \in Words
    BY <1>1, <1>5, WordsAreWords, SMT
  <2>3. /\ out \in Seq(Words) /\ FlushedForClient(step["proxy"]) \in Nat
        /\ BufferedForClient(step["proxy"]) \in Nat
    BY <1>1, <1>5, <1>6, CountsAreNat, SMT
  <2>4. out' = Append(out, WordsForClient[BufferedForClient(step["proxy"]) + 1])
    BY <1>2, <1>3, Zenon
  <2>5. /\ out' \in Seq(Words)
        /\ Holds(out', WordsForClient, FlushedForClient(step["proxy"]),
                 BufferedForClient(step["proxy"]) + 1)
    BY <2>1, <2>2, <2>3, <2>4, Said, Zenon
  <2>6. QED
    BY <1>2, <1>3, <1>5, <1>6, <2>5 DEF Out
<1>9. Typed'
  BY <1>1, <1>3, <1>4, <1>8, SMT DEF Typed
<1>10. Progress'
  BY <1>1, <1>2, <1>3, <1>4, SMT DEF Progress
<1>11. C2P' /\ P2C' /\ P2D'
  BY <1>1, <1>2, <1>3, <1>4, <1>6, <1>7, SameWords DEF C2P, P2C, P2D
<1>12. D2P'
  BY <1>1, <1>3, <1>4, <1>7, SameWords DEF D2P
<1>13. QED
  BY <1>8, <1>9, <1>10, <1>11, <1>12, Zenon DEF IInv

LEMMA Counts ==
    ASSUME Typed, Progress
    PROVE  /\ SaidByClient(step["client"]) \in Nat /\ HeardByClient(step["client"]) \in Nat
           /\ SaidByDaemon(step["daemon"]) \in Nat /\ HeardByDaemon(step["daemon"]) \in Nat
           /\ HeardFromClient(step["proxy"]) \in Nat /\ HeardFromDaemon(step["proxy"]) \in Nat
           /\ BufferedForClient(step["proxy"]) \in Nat
           /\ FlushedForClient(step["proxy"]) \in Nat
           /\ SaidToDaemon(step["proxy"]) \in Nat
<1>1. step["proxy"] \in Nat /\ step["client"] \in Nat /\ step["daemon"] \in Nat
  BY CountsAreNat
<1>2. SaidByClient(step["client"]) \in Nat /\ HeardByClient(step["client"]) \in Nat
  BY <1>1, SMT DEF SaidByClient, HeardByClient
<1>3. SaidByDaemon(step["daemon"]) \in Nat /\ HeardByDaemon(step["daemon"]) \in Nat
  BY <1>1, SMT DEF SaidByDaemon, HeardByDaemon
<1>4. HeardFromClient(step["proxy"]) \in Nat /\ HeardFromDaemon(step["proxy"]) \in Nat
  BY <1>1, SMT DEF HeardFromClient, HeardFromDaemon
<1>5. /\ BufferedForClient(step["proxy"]) \in Nat
      /\ FlushedForClient(step["proxy"]) \in Nat
      /\ SaidToDaemon(step["proxy"]) \in Nat
  BY <1>1, SMT DEF BufferedForClient, FlushedForClient, SaidToDaemon
<1>6. QED
  BY <1>2, <1>3, <1>4, <1>5, Zenon

LEMMA Piped ==
    ASSUME Typed, NEW w \in Pipes, NEW s \in Seq(Words), wire' = [wire EXCEPT ![w] = s]
    PROVE  /\ wire' \in [ Pipes -> Seq(Words) ] /\ wire'[w] = s
           /\ \A v \in Pipes \ { w } : wire'[v] = wire[v]
  BY SMT DEF Typed

LEMMA HoldsNothing ==
    ASSUME NEW words, NEW n \in Nat
    PROVE  Holds(<< >>, words, n, n)
  BY SMT DEF Holds

LEMMA ProxyFlushKeeps ==
    ASSUME IInv, ProxyFlush
    PROVE  IInv'
<1>1. Typed /\ Progress /\ C2P /\ Out /\ P2C /\ P2D /\ D2P
  BY Zenon DEF IInv
<1>2. /\ state["proxy"] = "run" /\ step["proxy"] \in { 3, 9, 11 }
      /\ state["client"] = "run"
  BY <1>1, ProxyFlushes, Zenon DEF ProxyFlush
<1>3. /\ UNCHANGED << self, told, state, logs >> /\ out' = << >>
      /\ wire' = [wire EXCEPT !["p2c"] = wire["p2c"] \o out]
  BY Zenon DEF ProxyFlush
<1>4. /\ step' \in [ Parties -> Nat ] /\ step'["proxy"] = step["proxy"] + 1
      /\ step'["client"] = step["client"] /\ step'["daemon"] = step["daemon"]
  BY <1>1, Advanced, SMT DEF ProxyFlush, Parties
<1>5. /\ BufferedForClient(step'["proxy"]) = BufferedForClient(step["proxy"])
      /\ FlushedForClient(step'["proxy"]) = BufferedForClient(step["proxy"])
  BY <1>2, <1>4, SMT DEF BufferedForClient, FlushedForClient
<1>6. /\ HeardFromClient(step'["proxy"]) = HeardFromClient(step["proxy"])
      /\ HeardFromDaemon(step'["proxy"]) = HeardFromDaemon(step["proxy"])
      /\ SaidToDaemon(step'["proxy"]) = SaidToDaemon(step["proxy"])
  BY <1>2, <1>4, SMT DEF HeardFromClient, HeardFromDaemon, SaidToDaemon
<1>7. /\ wire["p2c"] \o out \in Seq(Words)
      /\ Holds(wire["p2c"] \o out, WordsForClient, HeardByClient(step["client"]),
               BufferedForClient(step["proxy"]))
  <2>1. Holds(wire["p2c"], WordsForClient, HeardByClient(step["client"]),
              FlushedForClient(step["proxy"]))
    BY <1>1, <1>2 DEF P2C
  <2>2. Holds(out, WordsForClient, FlushedForClient(step["proxy"]),
              BufferedForClient(step["proxy"]))
    BY <1>1, <1>2, Zenon DEF Out
  <2>3. QED
    BY <1>1, <2>1, <2>2, Counts, CountsAreNat, Flushed, Zenon
<1>8. /\ wire' \in [ Pipes -> Seq(Words) ]
      /\ wire'["p2c"] = wire["p2c"] \o out
      /\ \A v \in Pipes \ { "p2c" } : wire'[v] = wire[v]
  BY <1>1, <1>3, <1>7, Piped, Zenon DEF Pipes
<1>9. Typed'
  BY <1>1, <1>3, <1>4, <1>8, SMT DEF Typed
<1>10. Progress'
  BY <1>1, <1>2, <1>3, <1>4, SMT DEF Progress
<1>11. Out'
  BY <1>1, <1>2, <1>3, <1>5, Counts, HoldsNothing DEF Out
<1>12. P2C'
  BY <1>2, <1>3, <1>4, <1>5, <1>7, <1>8, Zenon DEF P2C
<1>13. wire'["c2p"] = wire["c2p"] /\ wire'["p2d"] = wire["p2d"] /\ wire'["d2p"] = wire["d2p"]
  BY <1>8, SMT DEF Pipes
<1>14. C2P' /\ P2D'
  BY <1>1, <1>3, <1>4, <1>6, <1>13, SameWords DEF C2P, P2D
<1>15. D2P'
  BY <1>1, <1>3, <1>4, <1>6, <1>13, SameWords DEF D2P
<1>16. QED
  BY <1>9, <1>10, <1>11, <1>12, <1>14, <1>15, Zenon DEF IInv

LEMMA ProxySpawnKeeps ==
    ASSUME IInv, ProxySpawn
    PROVE  IInv'
<1>1. Typed /\ Progress /\ C2P /\ Out /\ P2C /\ P2D /\ D2P
  BY Zenon DEF IInv
<1>2. state["proxy"] = "run" /\ step["proxy"] = 12
  BY <1>1, ProxySpawns, Zenon DEF ProxySpawn
<1>3. /\ UNCHANGED << self, told, wire, out, logs >>
      /\ state' = [state EXCEPT !["daemon"] = "run"]
  BY Zenon DEF ProxySpawn
<1>4. /\ step' \in [ Parties -> Nat ] /\ step'["proxy"] = step["proxy"] + 1
      /\ step'["client"] = step["client"] /\ step'["daemon"] = step["daemon"]
  BY <1>1, Advanced, SMT DEF ProxySpawn, Parties
<1>5. /\ state' \in [ Parties -> { "run", "gone", "unborn" } ]
      /\ state'["daemon"] = "run" /\ state'["client"] = state["client"]
      /\ state'["proxy"] = "run"
  BY <1>1, <1>2, <1>3, SMT DEF Typed, Parties
<1>6. step["daemon"] = 0 /\ state["daemon"] = "unborn"
  BY <1>1, <1>2, SMT DEF Progress
<1>7. /\ BufferedForClient(step'["proxy"]) = BufferedForClient(step["proxy"])
      /\ FlushedForClient(step'["proxy"]) = FlushedForClient(step["proxy"])
      /\ HeardFromClient(step'["proxy"]) = HeardFromClient(step["proxy"])
      /\ HeardFromDaemon(step'["proxy"]) = HeardFromDaemon(step["proxy"])
      /\ SaidToDaemon(step'["proxy"]) = 0 /\ HeardByDaemon(step'["daemon"]) = 0
  BY <1>2, <1>4, <1>6, SMT DEF BufferedForClient, FlushedForClient, HeardFromClient,
     HeardFromDaemon, SaidToDaemon, HeardByDaemon
<1>8. Typed'
  BY <1>1, <1>3, <1>4, <1>5, SMT DEF Typed
<1>9. Progress'
  BY <1>1, <1>2, <1>3, <1>4, <1>5, <1>6, SMT DEF Progress
<1>10. P2D'
  BY <1>1, <1>3, <1>5, <1>6, <1>7, HoldsNothing DEF P2D
<1>11. C2P' /\ P2C' /\ Out'
  BY <1>1, <1>2, <1>3, <1>4, <1>5, <1>7, SameWords DEF C2P, P2C, Out
<1>12. D2P'
  BY <1>1, <1>3, <1>4, <1>7, SameWords DEF D2P
<1>13. QED
  BY <1>8, <1>9, <1>10, <1>11, <1>12, Zenon DEF IInv

LEMMA ProxySendDaemonKeeps ==
    ASSUME IInv, ProxySendDaemon
    PROVE  IInv'
<1>1. Typed /\ Progress /\ C2P /\ Out /\ P2C /\ P2D /\ D2P
  BY Zenon DEF IInv
<1>2. /\ state["proxy"] = "run" /\ step["proxy"] \in { 13, 16, 17, 18 }
      /\ state["daemon"] = "run"
      /\ Current("proxy").word = WordsForDaemon[SaidToDaemon(step["proxy"]) + 1]
  BY <1>1, ProxySaysToDaemon, Zenon DEF ProxySendDaemon
<1>3. /\ UNCHANGED << self, told, state, out, logs >>
      /\ wire' = [wire EXCEPT !["p2d"] = Append(wire["p2d"], Current("proxy").word)]
  BY Zenon DEF ProxySendDaemon
<1>4. /\ step' \in [ Parties -> Nat ] /\ step'["proxy"] = step["proxy"] + 1
      /\ step'["client"] = step["client"] /\ step'["daemon"] = step["daemon"]
  BY <1>1, Advanced, SMT DEF ProxySendDaemon, Parties
<1>5. /\ SaidToDaemon(step["proxy"]) \in 0 .. 3
      /\ SaidToDaemon(step'["proxy"]) = SaidToDaemon(step["proxy"]) + 1
  BY <1>2, <1>4, SMT DEF SaidToDaemon
<1>6. /\ BufferedForClient(step'["proxy"]) = BufferedForClient(step["proxy"])
      /\ FlushedForClient(step'["proxy"]) = FlushedForClient(step["proxy"])
      /\ HeardFromClient(step'["proxy"]) = HeardFromClient(step["proxy"])
      /\ HeardFromDaemon(step'["proxy"]) = HeardFromDaemon(step["proxy"])
  BY <1>2, <1>4, SMT DEF BufferedForClient, FlushedForClient, HeardFromClient,
     HeardFromDaemon
<1> DEFINE said == Append(wire["p2d"], WordsForDaemon[SaidToDaemon(step["proxy"]) + 1])
<1>7. /\ said \in Seq(Words)
      /\ Holds(said, WordsForDaemon, HeardByDaemon(step["daemon"]),
               SaidToDaemon(step["proxy"]) + 1)
  <2>1. Holds(wire["p2d"], WordsForDaemon, HeardByDaemon(step["daemon"]),
              SaidToDaemon(step["proxy"]))
    BY <1>1, <1>2, Zenon DEF P2D
  <2>2. WordsForDaemon[SaidToDaemon(step["proxy"]) + 1] \in Words
    BY <1>1, <1>5, WordsAreWords, SMT
  <2>3. QED
    BY <1>1, <2>1, <2>2, Counts, CountsAreNat, Said, Zenon
<1>8. wire' = [wire EXCEPT !["p2d"] = said]
  BY <1>2, <1>3, Zenon
<1> HIDE DEF said
<1>9. /\ wire' \in [ Pipes -> Seq(Words) ] /\ wire'["p2d"] = said
      /\ \A v \in Pipes \ { "p2d" } : wire'[v] = wire[v]
  BY <1>1, <1>7, <1>8, Piped, Zenon DEF Pipes
<1>10. wire'["c2p"] = wire["c2p"] /\ wire'["p2c"] = wire["p2c"] /\ wire'["d2p"] = wire["d2p"]
  BY <1>9, SMT DEF Pipes
<1>11. Typed'
  BY <1>1, <1>3, <1>4, <1>9, SMT DEF Typed
<1>12. Progress'
  BY <1>1, <1>2, <1>3, <1>4, SMT DEF Progress
<1>13. P2D'
  BY <1>2, <1>3, <1>4, <1>5, <1>7, <1>9 DEF P2D
<1>14. C2P' /\ P2C' /\ Out'
  BY <1>1, <1>2, <1>3, <1>4, <1>6, <1>10, SameWords DEF C2P, P2C, Out
<1>15. D2P'
  BY <1>1, <1>3, <1>4, <1>6, <1>10, SameWords DEF D2P
<1>16. QED
  BY <1>11, <1>12, <1>13, <1>14, <1>15, Zenon DEF IInv

\* The client's words are taken for what they were sent as.
LEMMA ProxyReceiveClientKeeps ==
    ASSUME IInv, ProxyReceive("client")
    PROVE  IInv'
<1>1. Typed /\ Progress /\ C2P /\ Out /\ P2C /\ P2D /\ D2P
  BY Zenon DEF IInv
<1>2. /\ state["proxy"] = "run" /\ step["proxy"] \in { 0, 4, 5, 6 }
      /\ Current("proxy").word.kind = ClientWords[HeardFromClient(step["proxy"]) + 1].kind
  BY <1>1, ProxyHearsClient, Zenon DEF ProxyReceive
<1>3. /\ UNCHANGED << self, told, state, out, logs >>
      /\ wire["c2p"] # << >>
      /\ wire' = [wire EXCEPT !["c2p"] = Tail(wire["c2p"])]
      /\ Accepts(Current("proxy").word.kind, Head(wire["c2p"]))
  BY Zenon DEF ProxyReceive, PipeFrom
<1>4. /\ ClientWords[1].kind = "magic1" /\ ClientWords[2] = Word("version", self["client"].version)
      /\ ClientWords[3].kind = "obsolete" /\ ClientWords[4].kind = "obsolete"
  BY SMT DEF ClientWords, Word
<1>5. /\ HeardFromClient(step["proxy"]) \in 0 .. 3
      /\ step["proxy"] = 4 <=> HeardFromClient(step["proxy"]) = 1
  BY <1>2, SMT DEF HeardFromClient
<1>6. Current("proxy").word.kind # "last"
  BY <1>2, <1>4, <1>5, SMT DEF Word
<1>7. /\ step' \in [ Parties -> Nat ] /\ step'["proxy"] = step["proxy"] + 1
      /\ step'["client"] = step["client"] /\ step'["daemon"] = step["daemon"]
  <2>1. Advance("proxy")
    BY <1>6, Zenon DEF ProxyReceive
  <2>2. QED
    BY <1>1, <2>1, Advanced, SMT DEF Parties
<1>8. /\ HeardFromClient(step'["proxy"]) = HeardFromClient(step["proxy"]) + 1
      /\ BufferedForClient(step'["proxy"]) = BufferedForClient(step["proxy"])
      /\ FlushedForClient(step'["proxy"]) = FlushedForClient(step["proxy"])
      /\ HeardFromDaemon(step'["proxy"]) = HeardFromDaemon(step["proxy"])
      /\ SaidToDaemon(step'["proxy"]) = SaidToDaemon(step["proxy"])
  BY <1>2, <1>7, SMT DEF BufferedForClient, FlushedForClient, HeardFromClient,
     HeardFromDaemon, SaidToDaemon
<1>9. /\ Tail(wire["c2p"]) \in Seq(Words)
      /\ Head(wire["c2p"]) = ClientWords[HeardFromClient(step["proxy"]) + 1]
      /\ Holds(Tail(wire["c2p"]), ClientWords, HeardFromClient(step["proxy"]) + 1,
               SaidByClient(step["client"]))
  <2>1. Holds(wire["c2p"], ClientWords, HeardFromClient(step["proxy"]),
              SaidByClient(step["client"]))
    BY <1>1, Zenon DEF C2P
  <2>2. /\ HeardFromClient(step["proxy"]) \in Nat /\ SaidByClient(step["client"]) \in Nat
        /\ wire["c2p"] \in Seq(Words)
    BY <1>1, Counts, CountsAreNat, Zenon
  <2>3. QED
    BY <1>3, <2>1, <2>2, Heard, Zenon
<1>10. /\ wire' \in [ Pipes -> Seq(Words) ] /\ wire'["c2p"] = Tail(wire["c2p"])
       /\ \A v \in Pipes \ { "c2p" } : wire'[v] = wire[v]
  BY <1>1, <1>3, <1>9, Piped, Zenon DEF Pipes
<1>11. wire'["p2d"] = wire["p2d"] /\ wire'["p2c"] = wire["p2c"] /\ wire'["d2p"] = wire["d2p"]
  BY <1>10, SMT DEF Pipes
<1>12. Typed'
  BY <1>1, <1>3, <1>7, <1>10, SMT DEF Typed
<1>13. step["proxy"] = 4 => self["client"].version >= PROTOCOL_VERSION
  <2>1. SUFFICES ASSUME step["proxy"] = 4
                 PROVE  self["client"].version >= PROTOCOL_VERSION
    OBVIOUS
  <2>2. HeardFromClient(step["proxy"]) + 1 = 2
    BY <2>1, <1>5, SMT
  <2>3. Head(wire["c2p"]) = Word("version", self["client"].version)
    BY <2>2, <1>4, <1>9, Zenon
  <2>4. Current("proxy").word.kind = "version"
    BY <2>2, <1>2, <1>4, SMT DEF Word
  <2>5. QED
    BY <2>3, <2>4, <1>3, SMT DEF Accepts, Word
<1>14. Progress'
  BY <1>1, <1>2, <1>3, <1>7, <1>13, SMT DEF Progress
<1>15. C2P'
  <2>1. ClientWords' = ClientWords /\ wire'["c2p"] = Tail(wire["c2p"])
    BY <1>3, <1>10, SameWords
  <2>2. Holds(wire'["c2p"], ClientWords', HeardFromClient(step'["proxy"]),
              SaidByClient(step'["client"]))
    BY <2>1, <1>7, <1>8, <1>9, Zenon
  <2>3. QED
    BY <2>2, Zenon DEF C2P
<1>16. P2C' /\ Out' /\ P2D'
  BY <1>1, <1>2, <1>3, <1>7, <1>8, <1>11 DEF P2C, Out, P2D
<1>17. D2P'
  BY <1>1, <1>3, <1>7, <1>8, <1>11, SameWords DEF D2P
<1>18. QED
  BY <1>12, <1>14, <1>15, <1>16, <1>17, Zenon DEF IInv

\* The daemon's too, and a message is read where Last is waited for.
LEMMA ProxyReceiveDaemonKeeps ==
    ASSUME IInv, ProxyReceive("daemon")
    PROVE  IInv'
<1>1. Typed /\ Progress /\ C2P /\ Out /\ P2C /\ P2D /\ D2P
  BY Zenon DEF IInv
<1>2. /\ state["proxy"] = "run" /\ step["proxy"] \in { 14, 15, 19, 20, 21 }
      /\ Current("proxy").word.kind = DaemonWords[HeardFromDaemon(step["proxy"]) + 1].kind
  BY <1>1, ProxyHearsDaemon, Zenon DEF ProxyReceive
<1>3. /\ UNCHANGED << self, told, state, out, logs >>
      /\ wire["d2p"] # << >>
      /\ wire' = [wire EXCEPT !["d2p"] = Tail(wire["d2p"])]
      /\ Accepts(Current("proxy").word.kind, Head(wire["d2p"]))
  <2>1. PipeFrom("daemon") = "d2p"
    BY SMT DEF PipeFrom
  <2>2. QED
    BY <2>1, Zenon DEF ProxyReceive
<1>4. /\ DaemonWords[1].kind = "magic2" /\ DaemonWords[2] = Word("version", self["daemon"].version)
      /\ DaemonWords[3].kind = "name" /\ DaemonWords[4].kind = "trusted"
      /\ DaemonWords[5].kind = "last" /\ Message.kind = "message"
      /\ Word("version", self["daemon"].version).kind = "version"
  BY SMT DEF DaemonWords, Word, Message
<1>5. /\ HeardFromDaemon(step["proxy"]) \in 0 .. 4
      /\ step["proxy"] = 15 <=> HeardFromDaemon(step["proxy"]) = 1
      /\ step["proxy"] = 21 <=> HeardFromDaemon(step["proxy"]) = 4
  BY <1>2, SMT DEF HeardFromDaemon
<1>6. SaidByDaemon(step["daemon"]) \in 0 .. 5
  <2>1. step["daemon"] \in Nat /\ step["daemon"] <= 9
    BY <1>1, CountsAreNat, Zenon DEF Progress
  <2>2. QED
    BY <2>1, SMT DEF SaidByDaemon
<1>7. /\ Tail(wire["d2p"]) \in Seq(Words)
      /\ \/ Head(wire["d2p"]) = DaemonWords[HeardFromDaemon(step["proxy"]) + 1]
         \/ HeardFromDaemon(step["proxy"]) = 4 /\ Head(wire["d2p"]) = Message
      /\ IF HeardFromDaemon(step["proxy"]) = 4 /\ Head(wire["d2p"]) = Message
           THEN HoldsLogs(Tail(wire["d2p"]), DaemonWords, HeardFromDaemon(step["proxy"]),
                          SaidByDaemon(step["daemon"]))
           ELSE HoldsLogs(Tail(wire["d2p"]), DaemonWords, HeardFromDaemon(step["proxy"]) + 1,
                          SaidByDaemon(step["daemon"]))
  <2>1. HoldsLogs(wire["d2p"], DaemonWords, HeardFromDaemon(step["proxy"]),
                  SaidByDaemon(step["daemon"]))
    BY <1>1, Zenon DEF D2P
  <2>2. DaemonWords[5] # Message /\ wire["d2p"] \in Seq(Words)
    BY <1>1, <1>4, CountsAreNat
  <2>3. QED
    BY <1>3, <1>5, <1>6, <2>1, <2>2, HeardAmongLogs, Zenon
<1>8. /\ wire' \in [ Pipes -> Seq(Words) ] /\ wire'["d2p"] = Tail(wire["d2p"])
      /\ \A v \in Pipes \ { "d2p" } : wire'[v] = wire[v]
  BY <1>1, <1>3, <1>7, Piped, Zenon DEF Pipes
<1>9. wire'["p2d"] = wire["p2d"] /\ wire'["p2c"] = wire["p2c"] /\ wire'["c2p"] = wire["c2p"]
  BY <1>8, SMT DEF Pipes
<1>10. CASE HeardFromDaemon(step["proxy"]) = 4 /\ Head(wire["d2p"]) = Message
  <2>1. Current("proxy").word.kind = "last" /\ Head(wire["d2p"]).kind = "message"
    BY <1>2, <1>4, <1>10, SMT
  <2>2. step' = step
    <3>1. PipeFrom("daemon") = "d2p"
      BY SMT DEF PipeFrom
    <3>2. QED
      BY <2>1, <3>1, Zenon DEF ProxyReceive
  <2>3. Typed'
    BY <1>1, <1>3, <1>8, <2>2, SMT DEF Typed
  <2>4. Progress'
    BY <1>1, <1>3, <2>2, Zenon DEF Progress
  <2>5. C2P' /\ P2C' /\ P2D' /\ Out'
    BY <1>1, <1>3, <1>9, <2>2, SameWords DEF C2P, P2C, P2D, Out
  <2>6. D2P'
    <3>1. DaemonWords' = DaemonWords /\ wire'["d2p"] = Tail(wire["d2p"])
      BY <1>3, <1>8, SameWords
    <3>2. HoldsLogs(wire'["d2p"], DaemonWords', HeardFromDaemon(step'["proxy"]),
                    SaidByDaemon(step'["daemon"]))
      BY <1>7, <1>10, <2>2, <3>1
    <3>3. QED
      BY <3>2, Zenon DEF D2P
  <2>7. QED
    BY <2>3, <2>4, <2>5, <2>6, Zenon DEF IInv
<1>11. CASE ~ (HeardFromDaemon(step["proxy"]) = 4 /\ Head(wire["d2p"]) = Message)
  <2>1. Head(wire["d2p"]).kind # "message"
    <3>1. Head(wire["d2p"]) = DaemonWords[HeardFromDaemon(step["proxy"]) + 1]
      BY <1>7, <1>11
    <3>2. QED
      BY <3>1, <1>4, <1>5, SMT
  <2>2. /\ step' \in [ Parties -> Nat ] /\ step'["proxy"] = step["proxy"] + 1
        /\ step'["client"] = step["client"] /\ step'["daemon"] = step["daemon"]
    <3>1. PipeFrom("daemon") = "d2p"
      BY SMT DEF PipeFrom
    <3>2. Advance("proxy")
      BY <2>1, <3>1, Zenon DEF ProxyReceive
    <3>3. QED
      BY <1>1, <3>2, Advanced, SMT DEF Parties
  <2>3. /\ HeardFromDaemon(step'["proxy"]) = HeardFromDaemon(step["proxy"]) + 1
        /\ BufferedForClient(step'["proxy"]) = BufferedForClient(step["proxy"])
        /\ FlushedForClient(step'["proxy"]) = FlushedForClient(step["proxy"])
        /\ HeardFromClient(step'["proxy"]) = HeardFromClient(step["proxy"])
        /\ SaidToDaemon(step'["proxy"]) = SaidToDaemon(step["proxy"])
    BY <1>2, <2>2, SMT DEF BufferedForClient, FlushedForClient, HeardFromClient,
       HeardFromDaemon, SaidToDaemon
  <2>4. step["proxy"] = 15 => self["daemon"].version >= PROTOCOL_VERSION
    <3>1. SUFFICES ASSUME step["proxy"] = 15
                   PROVE  self["daemon"].version >= PROTOCOL_VERSION
      OBVIOUS
    <3>2. HeardFromDaemon(step["proxy"]) + 1 = 2 /\ HeardFromDaemon(step["proxy"]) # 4
      BY <3>1, <1>5, SMT
    <3>3. Head(wire["d2p"]) = Word("version", self["daemon"].version)
      BY <3>2, <1>4, <1>7
    <3>4. Current("proxy").word.kind = "version"
      BY <3>2, <1>2, <1>4, SMT
    <3>5. QED
      BY <3>3, <3>4, <1>3, SMT DEF Accepts, Word
  <2>5. Typed'
    BY <1>1, <1>3, <1>8, <2>2, SMT DEF Typed
  <2>6. Progress'
    BY <1>1, <1>2, <1>3, <2>2, <2>4, SMT DEF Progress
  <2>7. C2P' /\ P2C' /\ P2D' /\ Out'
    BY <1>1, <1>2, <1>3, <1>9, <2>2, <2>3, SameWords DEF C2P, P2C, P2D, Out
  <2>8. D2P'
    <3>1. DaemonWords' = DaemonWords /\ wire'["d2p"] = Tail(wire["d2p"])
      BY <1>3, <1>8, SameWords
    <3>2. HoldsLogs(wire'["d2p"], DaemonWords', HeardFromDaemon(step'["proxy"]),
                    SaidByDaemon(step'["daemon"]))
      BY <1>7, <1>11, <2>2, <2>3, <3>1
    <3>3. QED
      BY <3>2, Zenon DEF D2P
  <2>9. QED
    BY <2>5, <2>6, <2>7, <2>8, Zenon DEF IInv
<1>12. QED
  BY <1>10, <1>11, Zenon

\* What is in the buffer when the proxy panics is flushed as it exits.
LEMMA PanicKeeps ==
    ASSUME IInv, state["proxy"] = "run", Panic
    PROVE  IInv'
<1>1. Typed /\ Progress /\ C2P /\ Out /\ P2C /\ P2D /\ D2P
  BY Zenon DEF IInv
<1>2. /\ UNCHANGED << self, told, step, logs >> /\ out' = << >>
      /\ wire' = [wire EXCEPT !["p2c"] = wire["p2c"] \o out]
      /\ state' = [state EXCEPT !["proxy"] = "gone"]
  BY Zenon DEF Panic
<1>3. /\ state' \in [ Parties -> { "run", "gone", "unborn" } ]
      /\ state'["proxy"] = "gone" /\ state'["client"] = state["client"]
      /\ state'["daemon"] = state["daemon"]
  BY <1>1, <1>2, SMT DEF Typed, Parties
<1>4. wire["p2c"] \o out \in Seq(Words)
  BY <1>1, CountsAreNat, ConcatProperties, Zenon
<1>5. state["client"] = "run" =>
        Holds(wire["p2c"] \o out, WordsForClient, HeardByClient(step["client"]),
              BufferedForClient(step["proxy"]))
  <2>1. SUFFICES ASSUME state["client"] = "run"
                 PROVE  Holds(wire["p2c"] \o out, WordsForClient,
                              HeardByClient(step["client"]), BufferedForClient(step["proxy"]))
    OBVIOUS
  <2>2. Holds(wire["p2c"], WordsForClient, HeardByClient(step["client"]),
              FlushedForClient(step["proxy"]))
    BY <1>1, <2>1 DEF P2C
  <2>3. Holds(out, WordsForClient, FlushedForClient(step["proxy"]),
              BufferedForClient(step["proxy"]))
    BY <1>1, Zenon DEF Out
  <2>4. QED
    BY <1>1, <2>2, <2>3, Counts, CountsAreNat, Flushed, Zenon
<1>6. /\ wire' \in [ Pipes -> Seq(Words) ]
      /\ wire'["p2c"] = wire["p2c"] \o out
      /\ \A v \in Pipes \ { "p2c" } : wire'[v] = wire[v]
  BY <1>1, <1>2, <1>4, Piped, Zenon DEF Pipes
<1>7. wire'["c2p"] = wire["c2p"] /\ wire'["p2d"] = wire["p2d"] /\ wire'["d2p"] = wire["d2p"]
  BY <1>6, SMT DEF Pipes
<1>8. Typed'
  BY <1>1, <1>2, <1>3, <1>6, SMT DEF Typed
<1>9. Progress'
  BY <1>1, <1>2, <1>3, SMT DEF Progress
<1>10. Out'
  BY <1>2, <1>3, SMT DEF Out
<1>11. P2C'
  BY <1>2, <1>3, <1>5, <1>6, Zenon DEF P2C
<1>12. C2P' /\ P2D'
  BY <1>1, <1>2, <1>3, <1>7, SameWords DEF C2P, P2D
<1>13. D2P'
  BY <1>1, <1>2, <1>7, SameWords DEF D2P
<1>14. QED
  BY <1>8, <1>9, <1>10, <1>11, <1>12, <1>13, Zenon DEF IInv

LEMMA ProxyKeeps ==
    ASSUME IInv, Proxy
    PROVE  IInv'
<1>1. ASSUME NEW peer \in Peers, ProxyRefuses(peer) \/ ProxyEof(peer) \/ ProxyBrokenPipe(peer)
      PROVE  IInv'
  <2>1. Panic /\ Running("proxy")
    BY <1>1, Zenon DEF ProxyRefuses, ProxyEof, AtEof, ProxyBrokenPipe, Is
  <2>2. state["proxy"] = "run"
    BY <2>1, Zenon DEF Running
  <2>3. QED
    BY <2>1, <2>2, PanicKeeps
<1>2. ASSUME NEW peer \in Peers, ProxyReceive(peer)
      PROVE  IInv'
  <2>1. peer = "client" \/ peer = "daemon"
    BY DEF Peers
  <2>2. QED
    BY <1>2, <2>1, ProxyReceiveClientKeeps, ProxyReceiveDaemonKeeps, Zenon
<1>3. QED
  BY <1>1, <1>2, ProxySendClientKeeps, ProxyFlushKeeps, ProxySpawnKeeps,
     ProxySendDaemonKeeps, Zenon DEF Proxy

LEMMA ClientSendKeeps ==
    ASSUME IInv, PeerSend("client")
    PROVE  IInv'
<1>1. Typed /\ Progress /\ C2P /\ Out /\ P2C /\ P2D /\ D2P
  BY Zenon DEF IInv
<1>2. /\ state["client"] = "run" /\ step["client"] \in { 0, 3, 4, 5 }
      /\ Current("client").word = ClientWords[SaidByClient(step["client"]) + 1]
  BY <1>1, ClientSays, Zenon DEF PeerSend
<1>3. /\ UNCHANGED << self, told, state, out, logs >>
      /\ wire' = [wire EXCEPT !["c2p"] = Append(wire["c2p"], Current("client").word)]
  BY Zenon DEF PeerSend, PipeFrom
<1>4. /\ step' \in [ Parties -> Nat ] /\ step'["client"] = step["client"] + 1
      /\ step'["proxy"] = step["proxy"] /\ step'["daemon"] = step["daemon"]
  BY <1>1, Advanced, SMT DEF PeerSend, Parties
<1>5. /\ SaidByClient(step["client"]) \in 0 .. 3
      /\ SaidByClient(step'["client"]) = SaidByClient(step["client"]) + 1
      /\ HeardByClient(step'["client"]) = HeardByClient(step["client"])
  BY <1>2, <1>4, SMT DEF SaidByClient, HeardByClient
<1> DEFINE said == Append(wire["c2p"], ClientWords[SaidByClient(step["client"]) + 1])
<1>6. /\ said \in Seq(Words)
      /\ Holds(said, ClientWords, HeardFromClient(step["proxy"]),
               SaidByClient(step["client"]) + 1)
  <2>1. Holds(wire["c2p"], ClientWords, HeardFromClient(step["proxy"]),
              SaidByClient(step["client"]))
    BY <1>1, Zenon DEF C2P
  <2>2. ClientWords[SaidByClient(step["client"]) + 1] \in Words
    BY <1>1, <1>5, WordsAreWords, SMT
  <2>3. QED
    BY <1>1, <2>1, <2>2, Counts, CountsAreNat, Said, Zenon
<1>7. wire' = [wire EXCEPT !["c2p"] = said]
  BY <1>2, <1>3, Zenon
<1> HIDE DEF said
<1>8. /\ wire' \in [ Pipes -> Seq(Words) ] /\ wire'["c2p"] = said
      /\ \A v \in Pipes \ { "c2p" } : wire'[v] = wire[v]
  BY <1>1, <1>6, <1>7, Piped, Zenon DEF Pipes
<1>9. wire'["p2d"] = wire["p2d"] /\ wire'["p2c"] = wire["p2c"] /\ wire'["d2p"] = wire["d2p"]
  BY <1>8, SMT DEF Pipes
<1>10. Typed'
  BY <1>1, <1>3, <1>4, <1>8, SMT DEF Typed
<1>11. Progress'
  BY <1>1, <1>2, <1>3, <1>4, SMT DEF Progress
<1>12. C2P'
  BY <1>3, <1>4, <1>5, <1>6, <1>8, SameWords DEF C2P
<1>13. P2C' /\ P2D' /\ Out'
  BY <1>1, <1>3, <1>4, <1>5, <1>9 DEF P2C, P2D, Out
<1>14. D2P'
  BY <1>1, <1>3, <1>4, <1>9, SameWords DEF D2P
<1>15. QED
  BY <1>10, <1>11, <1>12, <1>13, <1>14, Zenon DEF IInv

LEMMA DaemonSendKeeps ==
    ASSUME IInv, PeerSend("daemon")
    PROVE  IInv'
<1>1. Typed /\ Progress /\ C2P /\ Out /\ P2C /\ P2D /\ D2P
  BY Zenon DEF IInv
<1>2. /\ state["daemon"] = "run" /\ step["daemon"] \in { 1, 2, 6, 7, 8 }
      /\ Current("daemon").word = DaemonWords[SaidByDaemon(step["daemon"]) + 1]
  BY <1>1, DaemonSays, Zenon DEF PeerSend
<1>3. /\ UNCHANGED << self, told, state, out, logs >>
      /\ wire' = [wire EXCEPT !["d2p"] = Append(wire["d2p"], Current("daemon").word)]
  <2>1. PipeFrom("daemon") = "d2p"
    BY SMT DEF PipeFrom
  <2>2. QED
    BY <2>1, Zenon DEF PeerSend
<1>4. /\ step' \in [ Parties -> Nat ] /\ step'["daemon"] = step["daemon"] + 1
      /\ step'["proxy"] = step["proxy"] /\ step'["client"] = step["client"]
  BY <1>1, Advanced, SMT DEF PeerSend, Parties
<1>5. /\ SaidByDaemon(step["daemon"]) \in 0 .. 4
      /\ SaidByDaemon(step'["daemon"]) = SaidByDaemon(step["daemon"]) + 1
      /\ HeardByDaemon(step'["daemon"]) = HeardByDaemon(step["daemon"])
  BY <1>2, <1>4, SMT DEF SaidByDaemon, HeardByDaemon
<1>6. HeardFromDaemon(step["proxy"]) \in 0 .. 5
  <2>1. step["proxy"] \in Nat /\ step["proxy"] <= 22
    BY <1>1, CountsAreNat, Zenon DEF Progress
  <2>2. QED
    BY <2>1, SMT DEF HeardFromDaemon
<1> DEFINE word == DaemonWords[SaidByDaemon(step["daemon"]) + 1]
           said == Append(wire["d2p"], word)
<1>7. /\ said \in Seq(Words)
      /\ HoldsLogs(said, DaemonWords, HeardFromDaemon(step["proxy"]),
                   SaidByDaemon(step["daemon"]) + 1)
  <2>1. HoldsLogs(wire["d2p"], DaemonWords, HeardFromDaemon(step["proxy"]),
                  SaidByDaemon(step["daemon"]))
    BY <1>1, Zenon DEF D2P
  <2>2. word \in Words
    BY <1>1, <1>5, WordsAreWords, SMT
  <2>3. wire["d2p"] \in Seq(Words)
    BY <1>1, CountsAreNat
  <2>4. QED
    BY <1>5, <1>6, <2>1, <2>2, <2>3, SaidAmongLogs, Zenon
<1>8. wire' = [wire EXCEPT !["d2p"] = said]
  BY <1>2, <1>3, Zenon
<1> HIDE DEF said
<1>9. /\ wire' \in [ Pipes -> Seq(Words) ] /\ wire'["d2p"] = said
      /\ \A v \in Pipes \ { "d2p" } : wire'[v] = wire[v]
  BY <1>1, <1>7, <1>8, Piped, Zenon DEF Pipes
<1>10. wire'["p2d"] = wire["p2d"] /\ wire'["p2c"] = wire["p2c"] /\ wire'["c2p"] = wire["c2p"]
  BY <1>9, SMT DEF Pipes
<1>11. Typed'
  BY <1>1, <1>3, <1>4, <1>9, SMT DEF Typed
<1>12. Progress'
  BY <1>1, <1>2, <1>3, <1>4, SMT DEF Progress
<1>13. D2P'
  BY <1>3, <1>4, <1>5, <1>7, <1>9, SameWords DEF D2P
<1>14. C2P' /\ P2C' /\ P2D' /\ Out'
  BY <1>1, <1>3, <1>4, <1>5, <1>10, SameWords DEF C2P, P2C, P2D, Out
<1>15. QED
  BY <1>11, <1>12, <1>13, <1>14, Zenon DEF IInv

LEMMA DaemonLogKeeps ==
    ASSUME IInv, DaemonLog
    PROVE  IInv'
<1>1. Typed /\ Progress /\ C2P /\ Out /\ P2C /\ P2D /\ D2P
  BY Zenon DEF IInv
<1>2. /\ step["daemon"] \in { 1, 2, 6, 7, 8 }
      /\ Current("daemon").word = DaemonWords[SaidByDaemon(step["daemon"]) + 1]
      /\ Current("daemon").word.kind = "last"
  BY <1>1, DaemonSays, Zenon DEF DaemonLog
<1>3. /\ UNCHANGED << self, told, step, state, out >>
      /\ wire' = [wire EXCEPT !["d2p"] = Append(wire["d2p"], Message)]
      /\ logs < MaxLogs /\ logs' = logs + 1
  BY Zenon DEF DaemonLog, Message
<1>4. SaidByDaemon(step["daemon"]) = 4
  <2>1. SaidByDaemon(step["daemon"]) \in { 0, 1, 2, 3, 4 }
    BY <1>2, SMT DEF SaidByDaemon
  <2>2. \A i \in { 1, 2, 3, 4 } : DaemonWords[i].kind # "last"
    BY SMT DEF DaemonWords, Word
  <2>3. QED
    BY <1>2, <2>1, <2>2, SMT
<1>5. HeardFromDaemon(step["proxy"]) \in 0 .. 5
  <2>1. step["proxy"] \in Nat /\ step["proxy"] <= 22
    BY <1>1, CountsAreNat, Zenon DEF Progress
  <2>2. QED
    BY <2>1, SMT DEF HeardFromDaemon
<1> DEFINE said == Append(wire["d2p"], Message)
<1>6. /\ said \in Seq(Words)
      /\ HoldsLogs(said, DaemonWords, HeardFromDaemon(step["proxy"]), 4)
  <2>1. HoldsLogs(wire["d2p"], DaemonWords, HeardFromDaemon(step["proxy"]), 4)
    BY <1>1, <1>4 DEF D2P
  <2>2. wire["d2p"] \in Seq(Words) /\ Message \in Words
    BY <1>1, CountsAreNat, WordsAreWords
  <2>3. QED
    BY <1>5, <2>1, <2>2, LoggedAmongLogs, Zenon
<1>7. wire' = [wire EXCEPT !["d2p"] = said]
  BY <1>3, Zenon
<1> HIDE DEF said
<1>8. /\ wire' \in [ Pipes -> Seq(Words) ] /\ wire'["d2p"] = said
      /\ \A v \in Pipes \ { "d2p" } : wire'[v] = wire[v]
  BY <1>1, <1>6, <1>7, Piped, Zenon DEF Pipes
<1>9. wire'["p2d"] = wire["p2d"] /\ wire'["p2c"] = wire["p2c"] /\ wire'["c2p"] = wire["c2p"]
  BY <1>8, SMT DEF Pipes
<1>10. Typed'
  <2>1. logs' \in 0 .. MaxLogs
    BY <1>1, <1>3, LogAssumption, SMT DEF Typed
  <2>2. QED
    BY <1>1, <1>3, <1>8, <2>1, SMT DEF Typed
<1>11. Progress'
  BY <1>1, <1>3, Zenon DEF Progress
<1>12. D2P'
  BY <1>3, <1>4, <1>6, <1>8, SameWords DEF D2P
<1>13. C2P' /\ P2C' /\ P2D' /\ Out'
  BY <1>1, <1>3, <1>9, SameWords DEF C2P, P2C, P2D, Out
<1>14. QED
  BY <1>10, <1>11, <1>12, <1>13, Zenon DEF IInv

LEMMA ClientReceiveKeeps ==
    ASSUME IInv, PeerReceive("client")
    PROVE  IInv'
<1>1. Typed /\ Progress /\ C2P /\ Out /\ P2C /\ P2D /\ D2P
  BY Zenon DEF IInv
<1>2. /\ state["client"] = "run" /\ step["client"] \in { 1, 2, 6, 7, 8 }
      /\ Current("client").word.kind = WordsForClient[HeardByClient(step["client"]) + 1].kind
  BY <1>1, ClientHears, Zenon DEF PeerReceive
<1>3. /\ UNCHANGED << self, state, out, logs >> /\ wire["p2c"] # << >>
      /\ wire' = [wire EXCEPT !["p2c"] = Tail(wire["p2c"])]
      /\ told' = IF Current("client").word.kind = "version"
                   THEN [told EXCEPT !["client"] = Head(wire["p2c"]).value] ELSE told
  BY Zenon DEF PeerReceive, PipeTo
<1>4. /\ step' \in [ Parties -> Nat ] /\ step'["client"] = step["client"] + 1
      /\ step'["proxy"] = step["proxy"] /\ step'["daemon"] = step["daemon"]
  BY <1>1, Advanced, SMT DEF PeerReceive, Parties
<1>5. /\ HeardByClient(step["client"]) \in 0 .. 4
      /\ step["client"] = 2 <=> HeardByClient(step["client"]) = 1
      /\ HeardByClient(step'["client"]) = HeardByClient(step["client"]) + 1
      /\ SaidByClient(step'["client"]) = SaidByClient(step["client"])
  BY <1>2, <1>4, SMT DEF SaidByClient, HeardByClient
<1> DEFINE sent == IF state["proxy"] = "run" THEN FlushedForClient(step["proxy"])
                   ELSE BufferedForClient(step["proxy"])
<1>6. /\ Tail(wire["p2c"]) \in Seq(Words)
      /\ Head(wire["p2c"]) = WordsForClient[HeardByClient(step["client"]) + 1]
      /\ Holds(Tail(wire["p2c"]), WordsForClient, HeardByClient(step["client"]) + 1, sent)
  <2>1. Holds(wire["p2c"], WordsForClient, HeardByClient(step["client"]), sent)
    BY <1>1, <1>2, Zenon DEF P2C
  <2>2. FlushedForClient(step["proxy"]) \in Nat /\ BufferedForClient(step["proxy"]) \in Nat
    BY <1>1, Counts, Zenon
  <2>3. sent \in Nat
    BY <2>2, Zenon
  <2>4. HeardByClient(step["client"]) \in Nat /\ wire["p2c"] \in Seq(Words)
    BY <1>1, Counts, CountsAreNat, Zenon
  <2> HIDE DEF sent
  <2>5. QED
    BY <1>3, <2>1, <2>3, <2>4, Heard, Zenon
<1>7. /\ wire' \in [ Pipes -> Seq(Words) ] /\ wire'["p2c"] = Tail(wire["p2c"])
      /\ \A v \in Pipes \ { "p2c" } : wire'[v] = wire[v]
  BY <1>1, <1>3, <1>6, Piped, Zenon DEF Pipes
<1>8. wire'["p2d"] = wire["p2d"] /\ wire'["c2p"] = wire["c2p"] /\ wire'["d2p"] = wire["d2p"]
  BY <1>7, SMT DEF Pipes
<1>9. /\ WordsForClient[2] = Word("version", PROTOCOL_VERSION)
      /\ \A i \in { 1, 3, 4, 5 } : WordsForClient[i].kind # "version"
  BY SMT DEF WordsForClient, Word
<1>10. /\ told' \in [ Peers -> Nat ] /\ told'["daemon"] = told["daemon"]
       /\ told'["client"] = IF step["client"] = 2 THEN PROTOCOL_VERSION ELSE told["client"]
  <2>1. told \in [ Peers -> Nat ]
    BY <1>1, Zenon DEF Typed
  <2>2. CASE step["client"] = 2
    <3>1. HeardByClient(step["client"]) + 1 = 2
      BY <2>2, <1>5, SMT
    <3>2. Head(wire["p2c"]).value = PROTOCOL_VERSION /\ Current("client").word.kind = "version"
      BY <3>1, <1>2, <1>6, <1>9, SMT DEF Word
    <3>3. told' = [told EXCEPT !["client"] = PROTOCOL_VERSION]
      BY <3>2, <1>3, Zenon
    <3>4. QED
      BY <2>1, <2>2, <3>3, Numbers, SMT DEF Peers
  <2>3. CASE step["client"] # 2
    <3>1. HeardByClient(step["client"]) + 1 \in { 1, 3, 4, 5 }
      BY <2>3, <1>5, SMT
    <3>2. told' = told
      BY <3>1, <1>2, <1>3, <1>9, Zenon
    <3>3. QED
      BY <2>1, <2>3, <3>2, Zenon
  <2>4. QED
    BY <2>2, <2>3, Zenon
<1>11. Typed'
  BY <1>1, <1>3, <1>4, <1>7, <1>10, SMT DEF Typed
<1>12. Progress'
  BY <1>1, <1>2, <1>3, <1>4, <1>10, SMT DEF Progress
<1>13. P2C'
  <2>1. Holds(wire'["p2c"], WordsForClient, HeardByClient(step'["client"]), sent)
    BY <1>5, <1>6, <1>7, Zenon
  <2>2. QED
    BY <1>3, <1>4, <2>1, Zenon DEF P2C
<1>14. C2P' /\ P2D' /\ Out'
  BY <1>1, <1>3, <1>4, <1>5, <1>8, SameWords DEF C2P, P2D, Out
<1>15. D2P'
  BY <1>1, <1>3, <1>4, <1>8, SameWords DEF D2P
<1>16. QED
  BY <1>11, <1>12, <1>13, <1>14, <1>15, Zenon DEF IInv

LEMMA DaemonReceiveKeeps ==
    ASSUME IInv, PeerReceive("daemon")
    PROVE  IInv'
<1>1. Typed /\ Progress /\ C2P /\ Out /\ P2C /\ P2D /\ D2P
  BY Zenon DEF IInv
<1>2. /\ state["daemon"] = "run" /\ step["daemon"] \in { 0, 3, 4, 5 }
      /\ Current("daemon").word.kind = WordsForDaemon[HeardByDaemon(step["daemon"]) + 1].kind
  BY <1>1, DaemonHears, Zenon DEF PeerReceive
<1>3. /\ UNCHANGED << self, state, out, logs >> /\ wire["p2d"] # << >>
      /\ wire' = [wire EXCEPT !["p2d"] = Tail(wire["p2d"])]
      /\ told' = IF Current("daemon").word.kind = "version"
                   THEN [told EXCEPT !["daemon"] = Head(wire["p2d"]).value] ELSE told
  <2>1. PipeTo("daemon") = "p2d"
    BY SMT DEF PipeTo
  <2>2. QED
    BY <2>1, Zenon DEF PeerReceive
<1>4. /\ step' \in [ Parties -> Nat ] /\ step'["daemon"] = step["daemon"] + 1
      /\ step'["proxy"] = step["proxy"] /\ step'["client"] = step["client"]
  BY <1>1, Advanced, SMT DEF PeerReceive, Parties
<1>5. /\ HeardByDaemon(step["daemon"]) \in 0 .. 3
      /\ step["daemon"] = 3 <=> HeardByDaemon(step["daemon"]) = 1
      /\ HeardByDaemon(step'["daemon"]) = HeardByDaemon(step["daemon"]) + 1
      /\ SaidByDaemon(step'["daemon"]) = SaidByDaemon(step["daemon"])
  BY <1>2, <1>4, SMT DEF SaidByDaemon, HeardByDaemon
<1>6. /\ Tail(wire["p2d"]) \in Seq(Words)
      /\ Head(wire["p2d"]) = WordsForDaemon[HeardByDaemon(step["daemon"]) + 1]
      /\ Holds(Tail(wire["p2d"]), WordsForDaemon, HeardByDaemon(step["daemon"]) + 1,
               SaidToDaemon(step["proxy"]))
  <2>1. Holds(wire["p2d"], WordsForDaemon, HeardByDaemon(step["daemon"]),
              SaidToDaemon(step["proxy"]))
    BY <1>1, <1>2, Zenon DEF P2D
  <2>2. /\ HeardByDaemon(step["daemon"]) \in Nat /\ SaidToDaemon(step["proxy"]) \in Nat
        /\ wire["p2d"] \in Seq(Words)
    BY <1>1, Counts, CountsAreNat, Zenon
  <2>3. QED
    BY <1>3, <2>1, <2>2, Heard, Zenon
<1>7. /\ wire' \in [ Pipes -> Seq(Words) ] /\ wire'["p2d"] = Tail(wire["p2d"])
      /\ \A v \in Pipes \ { "p2d" } : wire'[v] = wire[v]
  BY <1>1, <1>3, <1>6, Piped, Zenon DEF Pipes
<1>8. wire'["p2c"] = wire["p2c"] /\ wire'["c2p"] = wire["c2p"] /\ wire'["d2p"] = wire["d2p"]
  BY <1>7, SMT DEF Pipes
<1>9. /\ WordsForDaemon[2] = Word("version", PROTOCOL_VERSION)
      /\ \A i \in { 1, 3, 4 } : WordsForDaemon[i].kind # "version"
  BY SMT DEF WordsForDaemon, Word
<1>10. /\ told' \in [ Peers -> Nat ] /\ told'["client"] = told["client"]
       /\ told'["daemon"] = IF step["daemon"] = 3 THEN PROTOCOL_VERSION ELSE told["daemon"]
  <2>1. told \in [ Peers -> Nat ]
    BY <1>1, Zenon DEF Typed
  <2>2. CASE step["daemon"] = 3
    <3>1. HeardByDaemon(step["daemon"]) + 1 = 2
      BY <2>2, <1>5, SMT
    <3>2. Head(wire["p2d"]).value = PROTOCOL_VERSION /\ Current("daemon").word.kind = "version"
      BY <3>1, <1>2, <1>6, <1>9, SMT DEF Word
    <3>3. told' = [told EXCEPT !["daemon"] = PROTOCOL_VERSION]
      BY <3>2, <1>3, Zenon
    <3>4. QED
      BY <2>1, <2>2, <3>3, Numbers, SMT DEF Peers
  <2>3. CASE step["daemon"] # 3
    <3>1. HeardByDaemon(step["daemon"]) + 1 \in { 1, 3, 4 }
      BY <2>3, <1>5, SMT
    <3>2. told' = told
      BY <3>1, <1>2, <1>3, <1>9, Zenon
    <3>3. QED
      BY <2>1, <2>3, <3>2, Zenon
  <2>4. QED
    BY <2>2, <2>3, Zenon
<1>11. Typed'
  BY <1>1, <1>3, <1>4, <1>7, <1>10, SMT DEF Typed
<1>12. Progress'
  BY <1>1, <1>2, <1>3, <1>4, <1>10, SMT DEF Progress
<1>13. P2D'
  <2>1. Holds(wire'["p2d"], WordsForDaemon, HeardByDaemon(step'["daemon"]),
              SaidToDaemon(step'["proxy"]))
    BY <1>4, <1>5, <1>6, <1>7, Zenon
  <2>2. QED
    BY <1>2, <1>3, <2>1, Zenon DEF P2D
<1>14. C2P' /\ P2C' /\ Out'
  BY <1>1, <1>3, <1>4, <1>5, <1>8, SameWords DEF C2P, P2C, Out
<1>15. D2P'
  BY <1>1, <1>3, <1>4, <1>5, <1>8, SameWords DEF D2P
<1>16. QED
  BY <1>11, <1>12, <1>13, <1>14, <1>15, Zenon DEF IInv

\* Nobody reads what was on its way to a peer that is gone.
LEMMA PeerGoneKeeps ==
    ASSUME IInv, NEW peer \in Peers, PeerGone(peer)
    PROVE  IInv'
<1>1. Typed /\ Progress /\ C2P /\ Out /\ P2C /\ P2D /\ D2P
  BY Zenon DEF IInv
<1>2. /\ UNCHANGED << self, told, step, out, logs >> /\ state[peer] = "run"
      /\ state' = [state EXCEPT ![peer] = "gone"]
      /\ wire' = [wire EXCEPT ![PipeTo(peer)] = << >>]
  BY Zenon DEF PeerGone
<1>3. /\ state' \in [ Parties -> { "run", "gone", "unborn" } ] /\ state'[peer] = "gone"
      /\ \A p \in Parties \ { peer } : state'[p] = state[p]
  BY <1>1, <1>2, SMT DEF Typed, Parties, Peers
<1>4. PipeTo(peer) = IF peer = "client" THEN "p2c" ELSE "p2d"
  BY Zenon DEF PipeTo
<1>5. /\ wire' \in [ Pipes -> Seq(Words) ] /\ wire'[PipeTo(peer)] = << >>
      /\ \A v \in Pipes \ { PipeTo(peer) } : wire'[v] = wire[v]
  <2>1. PipeTo(peer) \in Pipes /\ wire \in [ Pipes -> Seq(Words) ]
    BY <1>1, <1>4, SMT DEF Pipes, Typed
  <2>2. << >> \in Seq(Words)
    BY EmptySeq, Zenon
  <2>3. QED
    BY <1>2, <2>1, <2>2, SMT
<1>6. wire'["c2p"] = wire["c2p"] /\ wire'["d2p"] = wire["d2p"]
  BY <1>4, <1>5, SMT DEF Pipes
<1>7. state'["proxy"] = state["proxy"]
  BY <1>3, SMT DEF Parties, Peers
<1>8. Typed'
  BY <1>1, <1>2, <1>3, <1>5, SMT DEF Typed
<1>9. C2P' /\ D2P' /\ Out'
  BY <1>1, <1>2, <1>6, <1>7, SameWords DEF C2P, D2P, Out
<1>10. CASE peer = "client"
  <2>1. /\ state'["daemon"] = state["daemon"] /\ state'["client"] = "gone"
        /\ wire'["p2d"] = wire["p2d"]
    BY <1>3, <1>4, <1>5, <1>10, SMT DEF Parties, Pipes
  <2>2. Progress'
    BY <1>1, <1>2, <1>7, <2>1, SMT DEF Progress
  <2>3. P2C' /\ P2D'
    BY <1>1, <1>2, <2>1 DEF P2C, P2D
  <2>4. QED
    BY <1>8, <1>9, <2>2, <2>3, Zenon DEF IInv
<1>11. CASE peer = "daemon"
  <2>1. /\ state'["client"] = state["client"] /\ state'["daemon"] = "gone"
        /\ wire'["p2c"] = wire["p2c"] /\ wire'["p2d"] = << >>
    BY <1>3, <1>4, <1>5, <1>11, SMT DEF Parties, Pipes
  <2>2. Progress'
    BY <1>1, <1>2, <1>7, <1>11, <2>1, SMT DEF Progress
  <2>3. P2C' /\ P2D'
    BY <1>1, <1>2, <1>7, <2>1 DEF P2C, P2D
  <2>4. QED
    BY <1>8, <1>9, <2>2, <2>3, Zenon DEF IInv
<1>12. QED
  BY <1>10, <1>11, SMT DEF Peers

LEMMA StutterKeeps ==
    ASSUME IInv, UNCHANGED vars
    PROVE  IInv'
<1>1. UNCHANGED << self, told, step, state, wire, out, logs >>
  BY Zenon DEF vars
<1>2. Typed /\ Progress /\ C2P /\ Out /\ P2C /\ P2D /\ D2P
  BY Zenon DEF IInv
<1>3. Typed' /\ Progress'
  BY <1>1, <1>2 DEF Typed, Progress
<1>4. C2P' /\ Out' /\ P2C' /\ P2D' /\ D2P'
  BY <1>1, <1>2, SameWords DEF C2P, Out, P2C, P2D, D2P
<1>5. QED
  BY <1>3, <1>4, Zenon DEF IInv

LEMMA NextKeeps ==
    ASSUME IInv, [Next]_vars
    PROVE  IInv'
<1>1. ASSUME NEW peer \in Peers, PeerStep(peer)
      PROVE  IInv'
  <2>1. peer = "client" \/ peer = "daemon"
    BY DEF Peers
  <2>2. QED
    BY <1>1, <2>1, ClientSendKeeps, ClientReceiveKeeps, DaemonSendKeeps,
       DaemonReceiveKeeps, DaemonLogKeeps, Zenon DEF PeerStep
<1>2. CASE Rest
  BY <1>2, StutterKeeps, Zenon DEF Rest
<1>3. QED
  BY <1>1, <1>2, ProxyKeeps, PeerGoneKeeps, StutterKeeps, Zenon DEF Next

LEMMA InitHolds ==
    ASSUME Init
    PROVE  IInv
<1>1. Typed
  <2>1. self \in [client : Clients, daemon : Daemons]
    BY SMT DEF Init
  <2>2. /\ told \in [ Peers -> Nat ] /\ step \in [ Parties -> Nat ]
        /\ state \in [ Parties -> { "run", "gone", "unborn" } ]
    BY SMT DEF Init, Peers, Parties
  <2>3. wire \in [ Pipes -> Seq(Words) ] /\ out \in Seq(Words)
    BY EmptySeq, SMT DEF Init
  <2>4. logs \in 0 .. MaxLogs
    BY LogAssumption, SMT DEF Init
  <2>5. QED
    BY <2>1, <2>2, <2>3, <2>4, Zenon DEF Typed
<1>2. /\ step["proxy"] = 0 /\ step["client"] = 0 /\ step["daemon"] = 0
      /\ told["client"] = 0 /\ told["daemon"] = 0
      /\ state["proxy"] = "run" /\ state["client"] = "run" /\ state["daemon"] = "unborn"
      /\ wire["c2p"] = << >> /\ wire["p2c"] = << >>
      /\ wire["p2d"] = << >> /\ wire["d2p"] = << >> /\ out = << >>
  BY SMT DEF Init, Parties, Peers, Pipes
<1>3. Progress
  BY <1>2, SMT DEF Progress
<1>4. /\ SaidByClient(0) = 0 /\ HeardFromClient(0) = 0 /\ HeardByClient(0) = 0
      /\ BufferedForClient(0) = 0 /\ FlushedForClient(0) = 0
      /\ SaidByDaemon(0) = 0 /\ HeardFromDaemon(0) = 0
  BY SMT DEF SaidByClient, HeardFromClient, HeardByClient, BufferedForClient,
     FlushedForClient, SaidByDaemon, HeardFromDaemon
<1>5. C2P /\ Out /\ P2C /\ P2D
  <2>1. \A words : Holds(<< >>, words, 0, 0)
    BY HoldsNothing
  <2>2. QED
    BY <1>2, <1>4, <2>1, Zenon DEF C2P, Out, P2C, P2D
<1>6. D2P
  <2>1. HoldsLogs(<< >>, DaemonWords, 0, 0)
    BY SMT DEF HoldsLogs
  <2>2. QED
    BY <1>2, <1>4, <2>1, Zenon DEF D2P
<1>7. QED
  BY <1>1, <1>3, <1>5, <1>6, Zenon DEF IInv

\* What is in each pipe and in the proxy's buffer is what one end has said and
\* the other has not heard, whatever the peers are and whenever they die; with
\* it the versions each party has seen.  The invariant of the other theorems.
THEOREM IInvInductive == Spec => []IInv
<1>1. Init => IInv
  BY InitHolds
<1>2. IInv /\ [Next]_vars => IInv'
  BY NextKeeps
<1>3. QED
  BY <1>1, <1>2, PTL DEF Spec

-----------------------------------------------------------------------------
\* What follows.

LEMMA FollowsTypeOK ==
    ASSUME IInv
    PROVE  TypeOK
<1>1. Typed /\ Progress /\ Out
  BY Zenon DEF IInv
<1>2. \A p \in Parties : step[p] <= Len(Program(p))
  <2>1. Len(Program("proxy")) = 22
    BY ProxyProgramIs, SMT DEF Program
  <2>2. Len(Program("client")) = 9 /\ Len(Program("daemon")) = 9
    BY SMT DEF Program, ClientProgram, DaemonProgram
  <2>3. step["proxy"] <= 22 /\ step["client"] <= 9 /\ step["daemon"] <= 9
    BY <1>1, Zenon DEF Progress
  <2>4. /\ step["proxy"] <= Len(Program("proxy"))
        /\ step["client"] <= Len(Program("client"))
        /\ step["daemon"] <= Len(Program("daemon"))
    BY <2>1, <2>2, <2>3, Zenon
  <2>5. QED
    BY <2>4, Zenon DEF Parties
<1>3. \A w \in Pipes : \A i \in 1 .. Len(wire[w]) : wire[w][i] \in [kind : Kinds, value : Nat]
  <2>1. \A w \in Pipes : wire[w] \in Seq(Words)
    BY <1>1, SMT DEF Typed
  <2>2. \A w \in Pipes : \A i \in 1 .. Len(wire[w]) : wire[w][i] \in Words
    BY <2>1, ElementOfSeq, SMT
  <2>3. QED
    BY <2>2, Zenon DEF Words
<1>4. Len(out) <= 2
  <2>1. CASE state["proxy"] = "run"
    <3>1. Len(out) = BufferedForClient(step["proxy"]) - FlushedForClient(step["proxy"])
      BY <1>1, <2>1, Zenon DEF Out, Holds
    <3>2. step["proxy"] \in Nat
      BY <1>1, CountsAreNat
    <3>3. QED
      BY <3>1, <3>2, SMT DEF BufferedForClient, FlushedForClient
  <2>2. CASE state["proxy"] # "run"
    BY <1>1, <2>2, SMT DEF Out
  <2>3. QED
    BY <2>1, <2>2
<1>5. QED
  BY <1>1, <1>2, <1>3, <1>4, Zenon DEF Typed, TypeOK

\* Each variable holds a value of its kind, nobody runs past its last step, and
\* the proxy never has more than two words in its buffer.
THEOREM TypeCorrect == Spec => []TypeOK
<1>1. IInv => TypeOK
  BY FollowsTypeOK
<1>2. QED
  BY <1>1, IInvInductive, PTL

LEMMA FollowsNoMisread ==
    ASSUME IInv
    PROVE  NoMisread
<1>1. Typed /\ Progress /\ C2P /\ Out /\ P2C /\ P2D /\ D2P
  BY Zenon DEF IInv
<1>2. PipeFrom("client") = "c2p" /\ PipeFrom("daemon") = "d2p"
  BY SMT DEF PipeFrom
<1>3. PipeTo("client") = "p2c" /\ PipeTo("daemon") = "p2d"
  BY SMT DEF PipeTo
<1>4. Is("proxy", "receive", "client") => ~ Misread("proxy", "c2p")
  <2>1. SUFFICES ASSUME Is("proxy", "receive", "client"), wire["c2p"] # << >>
                 PROVE  Current("proxy").word.kind = Head(wire["c2p"]).kind
    BY Zenon DEF Misread
  <2>2. Current("proxy").word.kind = ClientWords[HeardFromClient(step["proxy"]) + 1].kind
    BY <1>1, <2>1, ProxyHearsClient, Zenon
  <2>3. Holds(wire["c2p"], ClientWords, HeardFromClient(step["proxy"]),
              SaidByClient(step["client"]))
    BY <1>1, Zenon DEF C2P
  <2>4. /\ HeardFromClient(step["proxy"]) \in Nat /\ SaidByClient(step["client"]) \in Nat
        /\ wire["c2p"] \in Seq(Words)
    BY <1>1, Counts, CountsAreNat, Zenon
  <2>5. Head(wire["c2p"]) = ClientWords[HeardFromClient(step["proxy"]) + 1]
    BY <2>1, <2>3, <2>4, Heard, Zenon
  <2>6. QED
    BY <2>2, <2>5, Zenon
<1>5. Is("proxy", "receive", "daemon") => ~ Misread("proxy", "d2p")
  <2>1. SUFFICES ASSUME Is("proxy", "receive", "daemon"), wire["d2p"] # << >>
                 PROVE  \/ Current("proxy").word.kind = Head(wire["d2p"]).kind
                        \/ /\ Current("proxy").word.kind = "last"
                           /\ Head(wire["d2p"]).kind = "message"
    BY Zenon DEF Misread
  <2>2. /\ Current("proxy").word.kind = DaemonWords[HeardFromDaemon(step["proxy"]) + 1].kind
        /\ step["proxy"] \in { 14, 15, 19, 20, 21 }
    BY <1>1, <2>1, ProxyHearsDaemon, Zenon
  <2>3. HoldsLogs(wire["d2p"], DaemonWords, HeardFromDaemon(step["proxy"]),
                  SaidByDaemon(step["daemon"]))
    BY <1>1, Zenon DEF D2P
  <2>4. /\ HeardFromDaemon(step["proxy"]) \in 0 .. 4
        /\ wire["d2p"] \in Seq(Words)
    BY <1>1, <2>2, CountsAreNat, SMT DEF HeardFromDaemon
  <2>5. SaidByDaemon(step["daemon"]) \in 0 .. 5
    <3>1. step["daemon"] \in Nat /\ step["daemon"] <= 9
      BY <1>1, CountsAreNat, Zenon DEF Progress
    <3>2. QED
      BY <3>1, SMT DEF SaidByDaemon
  <2>6. /\ DaemonWords[5] # Message /\ DaemonWords[5].kind = "last" /\ Message.kind = "message"
    BY SMT DEF DaemonWords, Message, Word
  <2>7. \/ Head(wire["d2p"]) = DaemonWords[HeardFromDaemon(step["proxy"]) + 1]
        \/ HeardFromDaemon(step["proxy"]) = 4 /\ Head(wire["d2p"]) = Message
    BY <2>1, <2>3, <2>4, <2>5, <2>6, HeardAmongLogs, Zenon
  <2>8. CASE Head(wire["d2p"]) = DaemonWords[HeardFromDaemon(step["proxy"]) + 1]
    BY <2>2, <2>8, Zenon
  <2>9. CASE HeardFromDaemon(step["proxy"]) = 4 /\ Head(wire["d2p"]) = Message
    <3>1. HeardFromDaemon(step["proxy"]) + 1 = 5
      BY <2>9, SMT
    <3>2. QED
      BY <2>2, <2>6, <2>9, <3>1, Zenon
  <2>10. QED
    BY <2>7, <2>8, <2>9, Zenon
<1>6. Is("client", "receive", "proxy") => ~ Misread("client", "p2c")
  <2>1. SUFFICES ASSUME Is("client", "receive", "proxy"), wire["p2c"] # << >>
                 PROVE  Current("client").word.kind = Head(wire["p2c"]).kind
    BY Zenon DEF Misread
  <2>2. /\ Current("client").word.kind = WordsForClient[HeardByClient(step["client"]) + 1].kind
        /\ state["client"] = "run"
    BY <1>1, <2>1, ClientHears, Zenon
  <2>3. PICK sent \in Nat : Holds(wire["p2c"], WordsForClient, HeardByClient(step["client"]), sent)
    BY <1>1, <2>2, Counts DEF P2C
  <2>4. HeardByClient(step["client"]) \in Nat /\ wire["p2c"] \in Seq(Words)
    BY <1>1, Counts, CountsAreNat, Zenon
  <2>5. Head(wire["p2c"]) = WordsForClient[HeardByClient(step["client"]) + 1]
    BY <2>1, <2>3, <2>4, Heard, Zenon
  <2>6. QED
    BY <2>2, <2>5, Zenon
<1>7. Is("daemon", "receive", "proxy") => ~ Misread("daemon", "p2d")
  <2>1. SUFFICES ASSUME Is("daemon", "receive", "proxy"), wire["p2d"] # << >>
                 PROVE  Current("daemon").word.kind = Head(wire["p2d"]).kind
    BY Zenon DEF Misread
  <2>2. /\ Current("daemon").word.kind = WordsForDaemon[HeardByDaemon(step["daemon"]) + 1].kind
        /\ state["daemon"] = "run"
    BY <1>1, <2>1, DaemonHears, Zenon
  <2>3. Holds(wire["p2d"], WordsForDaemon, HeardByDaemon(step["daemon"]),
              SaidToDaemon(step["proxy"]))
    BY <1>1, <2>2, Zenon DEF P2D
  <2>4. /\ HeardByDaemon(step["daemon"]) \in Nat /\ SaidToDaemon(step["proxy"]) \in Nat
        /\ wire["p2d"] \in Seq(Words)
    BY <1>1, Counts, CountsAreNat, Zenon
  <2>5. Head(wire["p2d"]) = WordsForDaemon[HeardByDaemon(step["daemon"]) + 1]
    BY <2>1, <2>3, <2>4, Heard, Zenon
  <2>6. QED
    BY <2>2, <2>5, Zenon
<1>8. \A peer \in Peers : peer = "client" \/ peer = "daemon"
  BY DEF Peers
<1>9. QED
  BY <1>2, <1>3, <1>4, <1>5, <1>6, <1>7, <1>8, Zenon DEF NoMisread

\* Neither handshake says what kind of word it sends or checks what kind it
\* reads: the two constructors of the proxy and the peers take each other's
\* words for what they are only because the programs mirror each other.
THEOREM NothingIsMisread == Spec => []NoMisread
<1>1. IInv => NoMisread
  BY FollowsNoMisread
<1>2. QED
  BY <1>1, IInvInductive, PTL

LEMMA FollowsNothingHeldBack ==
    ASSUME IInv
    PROVE  NothingHeldBack
<1>1. Typed /\ Progress /\ Out /\ out \in Seq(Words)
  BY CountsAreNat, Zenon DEF IInv
<1>2. Len(HandshakeWithClient) = 12
  BY SMT DEF HandshakeWithClient
<1>3. ASSUME step["proxy"] \in { 0, 4, 5, 6 } \/ step["proxy"] >= 12
      PROVE  out = << >>
  <2>1. CASE state["proxy"] = "run"
    <3>1. Len(out) = BufferedForClient(step["proxy"]) - FlushedForClient(step["proxy"])
      BY <1>1, <2>1, Zenon DEF Out, Holds
    <3>2. step["proxy"] \in Nat
      BY <1>1, CountsAreNat
    <3>3. Len(out) = 0
      BY <1>3, <3>1, <3>2, SMT DEF BufferedForClient, FlushedForClient
    <3>4. QED
      BY <1>1, <3>3, EmptySeq, Zenon
  <2>2. CASE state["proxy"] # "run"
    BY <1>1, <2>2, Zenon DEF Out
  <2>3. QED
    BY <2>1, <2>2
<1>4. Is("proxy", "receive", "client") => out = << >>
  BY <1>1, <1>3, ProxyHearsClient, Zenon
<1>5. QED
  BY <1>2, <1>3, <1>4, Zenon DEF NothingHeldBack

\* The proxy flushes stdout before each read that the client answers only after
\* it has what is in the buffer, and before it turns to the daemon.
THEOREM NothingIsHeldBack == Spec => []NothingHeldBack
<1>1. IInv => NothingHeldBack
  BY FollowsNothingHeldBack
<1>2. QED
  BY <1>1, IInvInductive, PTL

\* How far the peers are when the proxy enters its loop.
LEMMA AtTheLoop ==
    ASSUME IInv, Done("proxy")
    PROVE  /\ step["proxy"] = 22 /\ step["client"] >= 6 /\ step["daemon"] = 9
           /\ wire["c2p"] = << >> /\ wire["d2p"] = << >> /\ wire["p2d"] = << >>
<1>1. Typed /\ Progress /\ C2P /\ P2D /\ D2P
  BY Zenon DEF IInv
<1>2. /\ step["client"] \in Nat /\ step["daemon"] \in Nat
      /\ wire["c2p"] \in Seq(Words) /\ wire["d2p"] \in Seq(Words) /\ wire["p2d"] \in Seq(Words)
  BY <1>1, CountsAreNat, Zenon
<1>3. step["proxy"] = 22
  <2>1. Program("proxy") = ProxyProgram
    BY SMT DEF Program
  <2>2. QED
    BY <2>1, ProxyProgramIs, Zenon DEF Done
<1>4. step["client"] <= 9 /\ step["daemon"] <= 9
  BY <1>1, Zenon DEF Progress
<1>5. /\ HeardFromClient(step["proxy"]) = 4 /\ HeardFromDaemon(step["proxy"]) = 5
      /\ SaidToDaemon(step["proxy"]) = 4
  BY <1>3, SMT DEF HeardFromClient, HeardFromDaemon, SaidToDaemon
<1>6. Len(wire["c2p"]) = SaidByClient(step["client"]) - 4
  BY <1>1, <1>5, Zenon DEF C2P, Holds
<1>7. Len(wire["c2p"]) \in Nat /\ Len(wire["p2d"]) \in Nat /\ Len(wire["d2p"]) \in Nat
  BY <1>2, LenProperties, Zenon
<1>8. step["client"] >= 6 /\ Len(wire["c2p"]) = 0
  BY <1>2, <1>6, <1>7, SMT DEF SaidByClient
<1>9. 5 <= SaidByDaemon(step["daemon"]) /\ Len(wire["d2p"]) = SaidByDaemon(step["daemon"]) - 5
  BY <1>1, <1>5, Zenon DEF D2P, HoldsLogs
<1>10. step["daemon"] = 9 /\ Len(wire["d2p"]) = 0
  BY <1>2, <1>4, <1>9, SMT DEF SaidByDaemon
<1>11. wire["p2d"] = << >>
  <2>1. CASE state["daemon"] = "run"
    <3>1. Len(wire["p2d"]) = 4 - HeardByDaemon(9)
      BY <1>1, <1>5, <1>10, <2>1, Zenon DEF P2D, Holds
    <3>2. Len(wire["p2d"]) = 0
      BY <3>1, SMT DEF HeardByDaemon
    <3>3. QED
      BY <1>2, <3>2, EmptySeq, Zenon
  <2>2. CASE state["daemon"] # "run"
    BY <1>1, <2>2, Zenon DEF P2D
  <2>3. QED
    BY <2>1, <2>2
<1>12. wire["c2p"] = << >> /\ wire["d2p"] = << >>
  BY <1>2, <1>8, <1>10, EmptySeq, Zenon
<1>13. QED
  BY <1>3, <1>8, <1>10, <1>11, <1>12

LEMMA FollowsCleanStart ==
    ASSUME IInv
    PROVE  CleanStart
<1>1. Done("daemon") <=> step["daemon"] = 9
  BY SMT DEF Done, Program, DaemonProgram
<1>2. QED
  BY <1>1, AtTheLoop, Zenon DEF CleanStart

\* Nothing of the handshakes is left for the first operation or its answer to
\* be read after, and a daemon that is there waits for the first operation.
THEOREM StartsClean == Spec => []CleanStart
<1>1. IInv => CleanStart
  BY FollowsCleanStart
<1>2. QED
  BY <1>1, IInvInductive, PTL

LEMMA FollowsOneVersion ==
    ASSUME IInv
    PROVE  OneVersion
<1>1. SUFFICES ASSUME Done("proxy"), NEW peer \in Peers
               PROVE  Settled(peer) = PROTOCOL_VERSION
  BY Zenon DEF OneVersion
<1>2. Typed /\ Progress
  BY Zenon DEF IInv
<1>3. step["proxy"] = 22 /\ step["client"] >= 6 /\ step["daemon"] = 9
  BY <1>1, AtTheLoop, Zenon
<1>4. step["client"] \in Nat
  BY <1>2, CountsAreNat
<1>5. /\ step["proxy"] >= 5 /\ step["proxy"] >= 16
      /\ ~ (step["client"] < 3) /\ ~ (step["daemon"] < 4)
  BY <1>3, <1>4, SMT
<1>6. /\ told["client"] = PROTOCOL_VERSION /\ told["daemon"] = PROTOCOL_VERSION
      /\ self["client"].version >= PROTOCOL_VERSION
      /\ self["daemon"].version >= PROTOCOL_VERSION
  BY <1>2, <1>5, Zenon DEF Progress
<1>7. self["client"].version \in Nat /\ self["daemon"].version \in Nat
  BY <1>2, PeerAssumption, SMT DEF Typed
<1>8. /\ ~ (self["client"].version < PROTOCOL_VERSION)
      /\ ~ (self["daemon"].version < PROTOCOL_VERSION)
  BY <1>6, <1>7, Numbers, SMT
<1>9. peer = "client" \/ peer = "daemon"
  BY DEF Peers
<1>10. QED
  BY <1>6, <1>8, <1>9, Zenon DEF Settled

\* Peers of any version get the proxy into its loop only if both take the
\* proxy's own version for the session, so that what it forwards word for word
\* means the same on its two sides.
THEOREM OneVersionOnly == Spec => []OneVersion
<1>1. IInv => OneVersion
  BY FollowsOneVersion
<1>2. QED
  BY <1>1, IInvInductive, PTL
=============================================================================
