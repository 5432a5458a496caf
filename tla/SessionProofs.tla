--------------------------- MODULE SessionProofs ---------------------------
(***************************************************************************)
(* Theorems about Session.tla for every value of its constants.            *)
(***************************************************************************)
EXTENDS Session, SequenceTheorems, TLAPS

LEMMA Appended ==
    ASSUME NEW s \in Seq(Nat), NEW x \in Nat
    PROVE  /\ Append(s, x) \in Seq(Nat)
           /\ Len(Append(s, x)) = Len(s) + 1
           /\ Append(s, x) # << >>
  BY AppendProperties

LEMMA HeadAndTail ==
    ASSUME NEW s \in Seq(Nat), s # << >>
    PROVE  /\ Head(s) \in Nat
           /\ Tail(s) \in Seq(Nat)
           /\ Len(Tail(s)) = Len(s) - 1
           /\ Len(s) = 1 <=> Tail(s) = << >>
<1>1. Head(s) \in Nat /\ Tail(s) \in Seq(Nat) /\ Len(Tail(s)) = Len(s) - 1
  BY HeadTailProperties
<1>2. \A t \in Seq(Nat) : t = << >> <=> Len(t) = 0
  BY EmptySeq, Z3
<1>3. Len(s) \in Nat
  OBVIOUS
<1>4. Len(s) = 1 <=> Len(Tail(s)) = 0
  BY <1>1, <1>3
<1>5. QED
  BY <1>1, <1>2, <1>4, Zenon

LEMMA StructsAreSeqs ==
    /\ SetOptions \in Seq(Kind)
    /\ AddToStore \in Seq(Kind)
    /\ BuildPaths \in Seq(Kind)
    /\ CollectGarbage \in Seq(Kind)
    /\ AddToStoreNar \in Seq(Kind)
    /\ Derivation \in Seq(Kind)
    /\ BuildDerivation \in Seq(Kind)
    /\ AddMultipleToStore \in Seq(Kind)
    /\ VerifyStore \in Seq(Kind)
    /\ QueryValidPaths \in Seq(Kind)
    /\ AddSignatures \in Seq(Kind)
<1>1. SetOptions \in Seq(Kind)
  BY DEF Kind, SetOptions
<1>2. AddToStore \in Seq(Kind) /\ BuildPaths \in Seq(Kind)
  BY DEF Kind, AddToStore, BuildPaths
<1>3. CollectGarbage \in Seq(Kind) /\ AddToStoreNar \in Seq(Kind)
  BY DEF Kind, CollectGarbage, AddToStoreNar
<1>4. Derivation \in Seq(Kind)
  BY DEF Kind, Derivation
<1>5. BuildDerivation \in Seq(Kind)
  BY <1>4 DEF Kind, BuildDerivation
<1>6. AddMultipleToStore \in Seq(Kind) /\ VerifyStore \in Seq(Kind)
  BY DEF Kind, AddMultipleToStore, VerifyStore
<1>7. QueryValidPaths \in Seq(Kind) /\ AddSignatures \in Seq(Kind)
  BY DEF Kind, QueryValidPaths, AddSignatures
<1>8. QED
  BY <1>1, <1>2, <1>3, <1>4, <1>5, <1>6, <1>7

\* The fields of every operation are a finite sequence.
LEMMA BodyIsSeq == \A o \in WorkerOp : Body(o) \in Seq(Kind)
<1>1. /\ << >> \in Seq(Kind)
      /\ << "path" >> \in Seq(Kind)
      /\ << "string" >> \in Seq(Kind)
      /\ << "set" >> \in Seq(Kind)
      /\ << "paths" >> \in Seq(Kind)
      /\ << "realisation" >> \in Seq(Kind)
      /\ << "set", "bool" >> \in Seq(Kind)
      /\ << "path", "set" >> \in Seq(Kind)
  BY DEF Kind
<1>2. ASSUME NEW t, NEW b \in Seq(Kind), NEW a
      PROVE  /\ Plain(t, b, a).body \in Seq(Kind)
             /\ WithFramedSource(t, b, a).body \in Seq(Kind)
  BY DEF Plain, WithFramedSource
<1>3. \A r \in WorkerOpTable : r.body \in Seq(Kind)
  BY <1>1, <1>2, StructsAreSeqs, Zenon DEF WorkerOpTable
<1>4. \A o \in WorkerOp : OpOf(o) \in WorkerOpTable
  BY DEF WorkerOp, OpOf
<1>5. QED
  BY <1>3, <1>4 DEF Body
-----------------------------------------------------------------------------
\* The daemon has something left to read while it reads fields or a frame, and
\* an operation in hand unless it waits for one.
DaemonFits ==
    /\ dpc \in { "args", "framedata" } => dneed # 0
    /\ dpc # "op" => dop \in WorkerOp

\* TypeOK is not inductive: subtracting from left and dneed and taking the head
\* of held stay within their types only because of HeldFits and DaemonFits.
IInv == TypeOK /\ HeldFits /\ DaemonFits

LEMMA InitIInv == Init => IInv
<1> SUFFICES ASSUME Init PROVE IInv
  OBVIOUS
<1>1. script \in Seq(Nat)
  BY ScriptAssumption DEF Init
<1>2. TypeOK
  <2>1. { clientWr, clientRd, daemonUp, failed } \subseteq BOOLEAN
    BY Zenon DEF Init, ProxyInit
  <2>2. QED
    BY <1>1, <2>1 DEF Init, ProxyInit, TypeOK, Steps, Reading, NoOp
<1>3. HeldFits /\ DaemonFits
  BY DEF Init, ProxyInit, HeldFits, DaemonFits, ToDaemon, ToClient
<1>4. QED
  BY <1>2, <1>3 DEF IInv

\* What the proxy leaves alone when it acts on its own.
USE DEF pipes, ends, proxyVars, clientVars, daemonVars

LEMMA PanicIInv ==
    ASSUME IInv, Panic, UNCHANGED << clientVars, daemonVars >>
    PROVE  IInv'
<1>1. TypeOK'
  BY DEF IInv, TypeOK, Panic, Steps, NoOp
<1>2. HeldFits' /\ DaemonFits'
  BY DEF IInv, HeldFits, DaemonFits, Panic, ToDaemon, ToClient
<1>3. QED
  BY <1>1, <1>2 DEF IInv

LEMMA FromClientIInv ==
    ASSUME IInv, FromClient, due = 0, UNCHANGED << clientVars, daemonVars >>
    PROVE  IInv'
<1> USE DEF Steps, Reading, ToDaemon, ToClient
<1>1. CASE ReceiveTag
  <2>1. TypeOK'
    BY <1>1 DEF IInv, TypeOK, ReceiveTag
  <2>2. HeldFits' /\ DaemonFits'
    BY <1>1 DEF IInv, TypeOK, HeldFits, DaemonFits, ReceiveTag
  <2>3. QED
    BY <2>1, <2>2 DEF IInv
<1>2. CASE ReceiveField
  <2>1. Reencoded(Body(op)[Len(held)], Head(c2p)) \in Nat
    BY <1>2 DEF IInv, TypeOK, ReceiveField, Reencoded
  <2>2. TypeOK'
    BY <1>2, <2>1 DEF IInv, TypeOK, ReceiveField
  <2>3. held' # << >>
    BY <1>2, <2>1, Appended DEF IInv, TypeOK, ReceiveField
  <2>4. HeldFits' /\ DaemonFits'
    BY <1>2, <2>3 DEF IInv, HeldFits, DaemonFits, ReceiveField
  <2>5. QED
    BY <2>2, <2>4 DEF IInv
<1>3. CASE ReceiveUndecodable \/ ReceiveEof
  <2>1. TypeOK'
    <3>1. failed' \in BOOLEAN
      BY <1>3, Zenon DEF ReceiveUndecodable, ReceiveEof, ReceiveFailed
    <3>2. c2p' \in Seq(Nat)
      BY <1>3, HeadAndTail DEF IInv, TypeOK, ReceiveUndecodable, ReceiveEof
    <3>3. ReceiveFailed
      BY <1>3, Zenon DEF ReceiveUndecodable, ReceiveEof
    <3>4. QED
      BY <3>1, <3>2, <3>3 DEF IInv, TypeOK, ReceiveFailed
  <2>2. HeldFits' /\ DaemonFits'
    BY <1>3 DEF IInv, HeldFits, DaemonFits, ReceiveUndecodable, ReceiveEof, ReceiveFailed
  <2>3. QED
    BY <2>1, <2>2 DEF IInv
<1>4. CASE StreamingLength
  <2>1. TypeOK'
    BY <1>4 DEF IInv, TypeOK, StreamingLength
  <2>2. HeldFits' /\ DaemonFits'
    BY <1>4 DEF IInv, TypeOK, HeldFits, DaemonFits, StreamingLength
  <2>3. QED
    BY <2>1, <2>2 DEF IInv
<1>5. CASE GetStream
  <2>1. TypeOK'
    BY <1>5 DEF IInv, TypeOK, GetStream
  <2>2. ChunkLen \in Nat /\ ChunkLen <= left /\ ChunkLen' = ChunkLen
    BY <1>5, CapacityAssumption DEF IInv, TypeOK, ChunkLen, GetStream
  <2>3. Len(held) \in Nat /\ Len(held') = Len(held) + 1 /\ held' # << >>
    <3>1. held \in Seq(Nat) /\ Head(c2p) \in Nat
      BY <1>5, HeadAndTail DEF IInv, TypeOK, GetStream
    <3>2. QED
      BY <1>5, <3>1, Appended DEF GetStream
  <2>4. HeldFits'
    BY <1>5, <2>2, <2>3 DEF IInv, HeldFits, GetStream
  <2>5. DaemonFits'
    BY <1>5 DEF IInv, DaemonFits, GetStream
  <2>6. QED
    BY <2>1, <2>4, <2>5 DEF IInv
<1>6. CASE StreamEof
  BY <1>6, PanicIInv DEF StreamEof
<1>7. QED
  BY <1>1, <1>2, <1>3, <1>4, <1>5, <1>6 DEF FromClient

\* A write to the daemon moves the first of what is held to its pipe.
LEMMA Written ==
    ASSUME TypeOK, held # << >>, NEW next, WriteDaemon(next)
    PROVE  /\ p2d' \in Seq(Nat)
           /\ held' \in Seq(Nat)
           /\ Len(held) \in Nat /\ Len(held') = Len(held) - 1
           /\ IF held' = << >> THEN pc' = next ELSE pc' = pc
<1>1. /\ Head(held) \in Nat /\ Tail(held) \in Seq(Nat)
      /\ Len(Tail(held)) = Len(held) - 1
      /\ Len(held) = 1 <=> Tail(held) = << >>
  BY HeadAndTail DEF TypeOK
<1>2. p2d' \in Seq(Nat)
  BY <1>1, Appended DEF TypeOK, WriteDaemon
<1>3. Len(held) \in Nat
  BY DEF TypeOK
<1>4. QED
  BY <1>1, <1>2, <1>3 DEF WriteDaemon

LEMMA IntoDaemonIInv ==
    ASSUME IInv, IntoDaemon, due = 0, UNCHANGED << clientVars, daemonVars >>
    PROVE  IInv'
<1> USE DEF Steps, Reading, ToDaemon, ToClient
<1>1. CASE SendWorkerOp
  <2> DEFINE next == IF RequiresStreaming(op) THEN "framelen" ELSE "msg"
  <2>1. /\ p2d' \in Seq(Nat) /\ held' \in Seq(Nat)
        /\ IF held' = << >> THEN pc' = next ELSE pc' = pc
    BY <1>1, Written DEF IInv, HeldFits, SendWorkerOp
  <2>2. TypeOK'
    BY <1>1, <2>1 DEF IInv, TypeOK, SendWorkerOp, WriteDaemon
  <2>3. HeldFits' /\ DaemonFits'
    BY <1>1, <2>1 DEF IInv, HeldFits, DaemonFits, SendWorkerOp
  <2>4. QED
    BY <2>2, <2>3 DEF IInv
<1>2. CASE StreamingWriteLen
  <2> DEFINE next == IF left = 0 THEN "msg" ELSE "framedata"
  <2>1. /\ p2d' \in Seq(Nat) /\ held' \in Seq(Nat)
        /\ IF held' = << >> THEN pc' = next ELSE pc' = pc
    BY <1>2, Written DEF IInv, HeldFits, StreamingWriteLen
  <2>2. TypeOK'
    BY <1>2, <2>1 DEF IInv, TypeOK, StreamingWriteLen, WriteDaemon
  <2>3. left' = left /\ (left # 0 => 0 < ChunkLen')
    BY <1>2, CapacityAssumption DEF IInv, TypeOK, StreamingWriteLen, ChunkLen
  <2>4. HeldFits'
    BY <1>2, <2>1, <2>3 DEF IInv, HeldFits, StreamingWriteLen
  <2>5. DaemonFits'
    BY DEF IInv, DaemonFits
  <2>6. QED
    BY <2>2, <2>4, <2>5 DEF IInv
<1>3. CASE StreamingWriteBuff
  <2> DEFINE next == IF left = 1 THEN "framelen" ELSE "framedata"
  <2>1. /\ p2d' \in Seq(Nat) /\ held' \in Seq(Nat)
        /\ Len(held) \in Nat /\ Len(held') = Len(held) - 1
        /\ IF held' = << >> THEN pc' = next ELSE pc' = pc
    BY <1>3, Written DEF IInv, HeldFits, StreamingWriteBuff
  <2>2. left \in Nat /\ left' = left - 1 /\ Len(held) <= left
    BY <1>3 DEF IInv, TypeOK, HeldFits, StreamingWriteBuff
  <2>3. Len(held') \in Nat
    BY <2>1
  <2>4. left' \in Nat
    BY <2>1, <2>2, <2>3
  <2>5. TypeOK'
    BY <1>3, <2>1, <2>4 DEF IInv, TypeOK, StreamingWriteBuff, WriteDaemon
  <2>6. left # 1 => 0 < ChunkLen'
    BY <2>2, <2>4, CapacityAssumption DEF ChunkLen
  <2>7. HeldFits'
    BY <1>3, <2>1, <2>2, <2>6 DEF IInv, HeldFits, StreamingWriteBuff
  <2>8. DaemonFits'
    BY DEF IInv, DaemonFits
  <2>9. QED
    BY <2>5, <2>7, <2>8 DEF IInv
<1>4. CASE DaemonPipeBroken
  BY <1>4, PanicIInv DEF DaemonPipeBroken
<1>5. QED
  BY <1>1, <1>2, <1>3, <1>4 DEF IntoDaemon

LEMMA FromDaemonIInv ==
    ASSUME IInv, FromDaemon, due = 0, UNCHANGED << clientVars, daemonVars >>
    PROVE  IInv'
<1> USE DEF Steps, Reading, ToDaemon, ToClient
<1>1. CASE ReadErrorMsg
  <2>1. Head(d2p) \in Nat /\ d2p' \in Seq(Nat)
    BY <1>1, HeadAndTail DEF IInv, TypeOK, ReadErrorMsg
  <2>2. held' \in Seq(Nat) /\ held' # << >>
    BY <1>1, <2>1, Appended DEF IInv, TypeOK, ReadErrorMsg
  <2>3. pc = "msg" /\ pc' \in { "msg", "sendlast", "sendmsg" }
    BY <1>1, Zenon DEF ReadErrorMsg
  <2>4. TypeOK'
    BY <1>1, <2>1, <2>2, <2>3 DEF IInv, TypeOK, ReadErrorMsg
  <2>5. HeldFits' /\ DaemonFits'
    BY <2>2, <2>3 DEF IInv, HeldFits, DaemonFits
  <2>6. QED
    BY <2>4, <2>5 DEF IInv
<1>2. CASE ReadBuildResponse
  <2>1. Head(d2p) \in Nat /\ d2p' \in Seq(Nat)
    BY <1>2, HeadAndTail DEF IInv, TypeOK, ReadBuildResponse
  <2>2. Reencoded(Reply(op)[Len(held) + 1], Head(d2p)) \in Nat
    BY <2>1 DEF Reencoded
  <2>3. held' \in Seq(Nat) /\ held' # << >>
    BY <1>2, <2>2, Appended DEF IInv, TypeOK, ReadBuildResponse
  <2>4. pc' \in { "reply", "sendreply" }
    BY <1>2, Zenon DEF ReadBuildResponse
  <2>5. TypeOK'
    BY <1>2, <2>1, <2>3, <2>4 DEF IInv, TypeOK, ReadBuildResponse
  <2>6. HeldFits' /\ DaemonFits'
    BY <2>3, <2>4 DEF IInv, HeldFits, DaemonFits
  <2>7. QED
    BY <2>5, <2>6 DEF IInv
<1>3. CASE ResponseUndecodable
  BY <1>3, PanicIInv DEF ResponseUndecodable
<1>4. CASE StreamNar
  <2>1. TypeOK'
    BY <1>4 DEF IInv, TypeOK, StreamNar
  <2>2. HeldFits' /\ DaemonFits'
    BY <1>4 DEF IInv, HeldFits, DaemonFits, StreamNar
  <2>3. QED
    BY <2>1, <2>2 DEF IInv
<1>5. CASE DaemonEof
  <2>1. CASE Panic
    BY <2>1, PanicIInv
  <2>2. CASE pc' = "spin" /\ UNCHANGED << pipes, ends, op, held, left, out, due, failed >>
    <3>1. TypeOK'
      BY <2>2 DEF IInv, TypeOK
    <3>2. HeldFits' /\ DaemonFits'
      BY <2>2 DEF IInv, HeldFits, DaemonFits
    <3>3. QED
      BY <3>1, <3>2 DEF IInv
  <2>3. QED
    BY <1>5, <2>1, <2>2 DEF DaemonEof
<1>6. QED
  BY <1>1, <1>2, <1>3, <1>4, <1>5 DEF FromDaemon

\* A write to the client moves the first of what is held to the buffer, and may
\* set part of the buffer going.
LEMMA Buffered ==
    ASSUME TypeOK, held # << >>, NEW next, WriteClient(next)
    PROVE  /\ out' \in Seq(Nat)
           /\ held' \in Seq(Nat)
           /\ due' \in 0 .. Len(out')
           /\ IF held' = << >> THEN pc' = next ELSE pc' = pc
<1>1. /\ Head(held) \in Nat /\ Tail(held) \in Seq(Nat)
      /\ Len(held) = 1 <=> Tail(held) = << >>
  BY HeadAndTail DEF TypeOK
<1>2. out' \in Seq(Nat) /\ Len(out') = Len(out) + 1
  BY <1>1, Appended DEF TypeOK, WriteClient
<1>3. Len(out) \in Nat
  BY DEF TypeOK
<1>4. due' \in { Len(out), Len(out) + 1, 0 }
  BY DEF WriteClient
<1>5. due' \in 0 .. Len(out')
  BY <1>2, <1>3, <1>4
<1>6. QED
  BY <1>1, <1>2, <1>5 DEF WriteClient

LEMMA IntoClientIInv ==
    ASSUME IInv, IntoClient, due = 0, UNCHANGED << clientVars, daemonVars >>
    PROVE  IInv'
<1> USE DEF Steps, Reading, ToDaemon, ToClient
<1>1. CASE SendErrorToClient \/ WriteBuildResponse \/ WriteNar
  <2>1. PICK next \in { "msg", "nar", "flush", "reply" } :
          WriteClient(next) /\ pc \in ToClient
    BY <1>1, Zenon DEF SendErrorToClient, WriteBuildResponse, WriteNar, ToReply
  <2>2. /\ out' \in Seq(Nat) /\ held' \in Seq(Nat) /\ due' \in 0 .. Len(out')
        /\ IF held' = << >> THEN pc' = next ELSE pc' = pc
    BY <2>1, Buffered DEF IInv, HeldFits
  <2>3. TypeOK'
    BY <2>1, <2>2 DEF IInv, TypeOK, WriteClient
  <2>4. HeldFits' /\ DaemonFits'
    BY <2>1, <2>2 DEF IInv, HeldFits, DaemonFits
  <2>5. QED
    BY <2>3, <2>4 DEF IInv
<1>2. CASE Spill \/ FlushTxToClient
  <2>1. due' \in 0 .. Len(out')
    BY <1>2 DEF IInv, TypeOK, Spill, FlushTxToClient
  <2>2. TypeOK'
    BY <1>2, <2>1 DEF IInv, TypeOK, Spill, FlushTxToClient
  <2>3. HeldFits' /\ DaemonFits'
    BY <1>2 DEF IInv, HeldFits, DaemonFits, Spill, FlushTxToClient, ChunkLen
  <2>4. QED
    BY <2>2, <2>3 DEF IInv
<1>3. CASE NextRound
  <2>1. TypeOK'
    BY <1>3 DEF IInv, TypeOK, NextRound
  <2>2. HeldFits' /\ DaemonFits'
    BY <1>3 DEF IInv, HeldFits, DaemonFits, NextRound
  <2>3. QED
    BY <2>1, <2>2 DEF IInv
<1>4. QED
  BY <1>1, <1>2, <1>3 DEF IntoClient

LEMMA WriteOutIInv ==
    ASSUME IInv, WriteOut, due > 0, UNCHANGED << clientVars, daemonVars >>
    PROVE  IInv'
<1> USE DEF Steps, Reading, ToDaemon, ToClient
<1>1. out # << >> /\ due \in Nat /\ due <= Len(out)
  BY DEF IInv, TypeOK
<1>2. CASE Drain
  <2>1. Head(out) \in Nat /\ Tail(out) \in Seq(Nat) /\ Len(Tail(out)) = Len(out) - 1
    BY <1>1, HeadAndTail DEF IInv, TypeOK
  <2>2. p2c' \in Seq(Nat)
    BY <1>2, <2>1, Appended DEF IInv, TypeOK, Drain
  <2>3. due' \in 0 .. Len(out')
    BY <1>1, <1>2, <2>1 DEF IInv, TypeOK, Drain
  <2>4. TypeOK'
    BY <1>2, <2>1, <2>2, <2>3 DEF IInv, TypeOK, Drain
  <2>5. HeldFits' /\ DaemonFits'
    BY <1>2 DEF IInv, HeldFits, DaemonFits, Drain, ChunkLen
  <2>6. QED
    BY <2>4, <2>5 DEF IInv
<1>3. CASE ClientPipeBroken
  <2>1. TypeOK'
    BY <1>3 DEF IInv, TypeOK, ClientPipeBroken
  <2>2. HeldFits' /\ DaemonFits'
    BY <1>3 DEF IInv, HeldFits, DaemonFits, ClientPipeBroken
  <2>3. QED
    BY <2>1, <2>2 DEF IInv
<1>4. QED
  BY <1>2, <1>3 DEF WriteOut

LEMMA ProxyIInv == IInv /\ Proxy => IInv'
<1> SUFFICES ASSUME IInv, Proxy PROVE IInv'
  OBVIOUS
<1>1. ProxyNext /\ UNCHANGED << clientVars, daemonVars >>
  BY DEF Proxy
<1>2. CASE due = 0 /\ (FromClient \/ IntoDaemon \/ FromDaemon \/ IntoClient)
  BY <1>1, <1>2, FromClientIInv, IntoDaemonIInv, FromDaemonIInv, IntoClientIInv
<1>3. CASE due > 0 /\ WriteOut
  BY <1>1, <1>3, WriteOutIInv
<1>4. QED
  BY <1>1, <1>2, <1>3 DEF ProxyNext

LEMMA ClientIInv == IInv /\ Client => IInv'
<1> SUFFICES ASSUME IInv, Client PROVE IInv'
  OBVIOUS
<1> USE DEF ChunkLen
<1>1. CASE ClientSend
  <2>1. Head(script) \in Nat /\ script' \in Seq(Nat)
    BY <1>1, HeadAndTail DEF IInv, TypeOK, ClientSend
  <2>2. c2p' \in Seq(Nat)
    BY <1>1, <2>1, Appended DEF IInv, TypeOK, ClientSend
  <2>3. TypeOK'
    BY <1>1, <2>1, <2>2 DEF IInv, TypeOK, ClientSend
  <2>4. HeldFits' /\ DaemonFits'
    BY <1>1 DEF IInv, HeldFits, DaemonFits, ClientSend
  <2>5. QED
    BY <2>3, <2>4 DEF IInv
<1>2. CASE ClientRead
  <2>1. TypeOK'
    BY <1>2 DEF IInv, TypeOK, ClientRead
  <2>2. HeldFits' /\ DaemonFits'
    BY <1>2 DEF IInv, HeldFits, DaemonFits, ClientRead
  <2>3. QED
    BY <2>1, <2>2 DEF IInv
<1>3. CASE ClientDone \/ ClientGone
  <2>1. clientWr' \in BOOLEAN /\ clientRd' \in BOOLEAN
    BY <1>3, Zenon DEF IInv, TypeOK, ClientDone, ClientGone
  <2>2. p2c' \in Seq(Nat) /\ script' \in Seq(Nat)
    <3>1. CASE ClientDone
      BY <3>1 DEF IInv, TypeOK, ClientDone
    <3>2. CASE ClientGone
      BY <3>2 DEF IInv, TypeOK, ClientGone
    <3>3. QED
      BY <1>3, <3>1, <3>2
  <2>3. UNCHANGED << c2p, p2d, d2p, daemonUp, proxyVars, answered, daemonVars >>
    BY <1>3, Zenon DEF ClientDone, ClientGone
  <2>4. TypeOK'
    BY <2>1, <2>2, <2>3 DEF IInv, TypeOK
  <2>5. HeldFits' /\ DaemonFits'
    BY <2>3 DEF IInv, HeldFits, DaemonFits
  <2>6. QED
    BY <2>4, <2>5 DEF IInv
<1>4. QED
  BY <1>1, <1>2, <1>3 DEF Client

LEMMA DaemonIInv == IInv /\ Daemon => IInv'
<1> SUFFICES ASSUME IInv, Daemon PROVE IInv'
  OBVIOUS
<1>1. CASE DaemonReadTag
  <2>1. Len(Body(dop')) \in Nat /\ dop' \in WorkerOp
    BY <1>1, BodyIsSeq, LenProperties DEF DaemonReadTag
  <2>2. dneed' \in Nat /\ p2d' \in Seq(Nat) /\ dread' \in Nat
    BY <1>1, <2>1 DEF IInv, TypeOK, DaemonReadTag
  <2>3. dpc' \in { "work", "framelen", "args" } /\ (dneed' = 0 => dpc' # "args")
    BY <1>1 DEF DaemonReadTag, AfterFields
  <2>4. TypeOK'
    BY <1>1, <2>1, <2>2, <2>3 DEF IInv, TypeOK, DaemonReadTag
  <2>5. HeldFits' /\ DaemonFits'
    BY <1>1, <2>3 DEF IInv, HeldFits, DaemonFits, DaemonReadTag, ChunkLen
  <2>6. QED
    BY <2>4, <2>5 DEF IInv
<1>2. CASE DaemonReadField
  <2>1. p2d' \in Seq(Nat) /\ dread' \in Nat /\ dneed' \in Nat
    BY <1>2 DEF IInv, TypeOK, DaemonFits, DaemonReadField
  <2>2. dpc' \in { "work", "framelen", "args" }
    BY <1>2 DEF DaemonReadField, AfterFields
  <2>3. TypeOK'
    BY <1>2, <2>1, <2>2 DEF IInv, TypeOK, DaemonReadField
  <2>4. DaemonFits'
    BY <1>2 DEF IInv, TypeOK, DaemonFits, DaemonReadField, AfterFields
  <2>5. HeldFits'
    BY <1>2 DEF IInv, HeldFits, DaemonReadField, ChunkLen
  <2>6. QED
    BY <2>3, <2>4, <2>5 DEF IInv
<1>3. CASE DaemonReadLength
  <2>1. p2d' \in Seq(Nat) /\ dread' \in Nat /\ dneed' \in Nat
    BY <1>3, HeadAndTail DEF IInv, TypeOK, DaemonReadLength
  <2>2. TypeOK'
    BY <1>3, <2>1 DEF IInv, TypeOK, DaemonReadLength
  <2>3. DaemonFits'
    BY <1>3 DEF IInv, TypeOK, DaemonFits, DaemonReadLength
  <2>4. HeldFits'
    BY <1>3 DEF IInv, HeldFits, DaemonReadLength, ChunkLen
  <2>5. QED
    BY <2>2, <2>3, <2>4 DEF IInv
<1>4. CASE DaemonReadByte
  <2>1. p2d' \in Seq(Nat) /\ dread' \in Nat /\ dneed' \in Nat
    BY <1>4 DEF IInv, TypeOK, DaemonFits, DaemonReadByte
  <2>2. TypeOK'
    BY <1>4, <2>1 DEF IInv, TypeOK, DaemonReadByte
  <2>3. DaemonFits'
    BY <1>4 DEF IInv, TypeOK, DaemonFits, DaemonReadByte
  <2>4. HeldFits'
    BY <1>4 DEF IInv, HeldFits, DaemonReadByte, ChunkLen
  <2>5. QED
    BY <2>2, <2>3, <2>4 DEF IInv
<1>5. CASE DaemonLog
  <2>1. dtodo' \in Seq(Nat)
    BY <1>5, LogAssumption DEF DaemonLog
  <2>2. TypeOK'
    BY <1>5, <2>1 DEF IInv, TypeOK, DaemonLog
  <2>3. HeldFits' /\ DaemonFits'
    BY <1>5 DEF IInv, HeldFits, DaemonFits, DaemonLog, ChunkLen
  <2>4. QED
    BY <2>2, <2>3 DEF IInv
<1>6. CASE DaemonAnswer
  <2>1. DaemonFits'
    BY <1>6 DEF DaemonFits, DaemonAnswer
  <2>2. dtodo' \in Seq(Nat)
    <3>1. PICK a \in Answers(dop) : dtodo' = << Last >> \o a
      BY <1>6 DEF DaemonAnswer
    <3>2. dop \in WorkerOp
      BY <1>6 DEF IInv, DaemonFits, DaemonAnswer
    <3>3. a \in Seq(Nat)
      BY <3>2, AnswerAssumption
    <3>4. << Last >> \in Seq(Nat)
      BY DEF Last
    <3>5. QED
      BY <3>1, <3>3, <3>4, ConcatProperties
  <2>3. TypeOK'
    BY <1>6, <2>2 DEF IInv, TypeOK, DaemonAnswer, NoOp
  <2>4. HeldFits'
    BY <1>6 DEF IInv, HeldFits, DaemonAnswer, ChunkLen
  <2>5. QED
    BY <2>1, <2>3, <2>4 DEF IInv
<1>7. CASE DaemonWrite
  <2>1. Head(dtodo) \in Nat /\ dtodo' \in Seq(Nat)
    BY <1>7, HeadAndTail DEF IInv, TypeOK, DaemonWrite
  <2>2. d2p' \in Seq(Nat)
    BY <1>7, <2>1, Appended DEF IInv, TypeOK, DaemonWrite
  <2>3. TypeOK'
    BY <1>7, <2>1, <2>2 DEF IInv, TypeOK, DaemonWrite
  <2>4. HeldFits' /\ DaemonFits'
    BY <1>7 DEF IInv, HeldFits, DaemonFits, DaemonWrite, ChunkLen
  <2>5. QED
    BY <2>3, <2>4 DEF IInv
<1>8. CASE DaemonGone
  <2>1. daemonUp' \in BOOLEAN
    BY <1>8, Zenon DEF DaemonGone
  <2>2. TypeOK'
    BY <1>8, <2>1 DEF IInv, TypeOK, DaemonGone
  <2>3. HeldFits' /\ DaemonFits'
    BY <1>8 DEF IInv, HeldFits, DaemonFits, DaemonGone, ChunkLen
  <2>4. QED
    BY <2>2, <2>3 DEF IInv
<1>9. QED
  BY <1>1, <1>2, <1>3, <1>4, <1>5, <1>6, <1>7, <1>8 DEF Daemon

LEMMA StutterIInv == IInv /\ UNCHANGED vars => IInv'
  BY DEF vars, IInv, TypeOK, HeldFits, DaemonFits, ChunkLen

THEOREM IInvInductive == IInv /\ [Next]_vars => IInv'
  BY ProxyIInv, ClientIInv, DaemonIInv, StutterIInv DEF Next, Rest

\* Every variable keeps to its type, for every script, every choice of answers
\* and logs, every capacity, and whoever dies.
THEOREM TypeCorrect == Spec => []TypeOK
<1>1. Init => IInv
  BY InitIInv
<1>2. IInv /\ [Next]_vars => IInv'
  BY IInvInductive
<1>3. IInv => TypeOK
  BY DEF IInv
<1>4. QED
  BY <1>1, <1>2, <1>3, PTL DEF Spec

\* The proxy never writes from an empty hand, never starts a read with something
\* still to write, and never counts a frame below zero.
THEOREM HeldAlwaysFits == Spec => []HeldFits
<1>1. Init => IInv
  BY InitIInv
<1>2. IInv /\ [Next]_vars => IInv'
  BY IInvInductive
<1>3. IInv => HeldFits
  BY DEF IInv
<1>4. QED
  BY <1>1, <1>2, <1>3, PTL DEF Spec

-----------------------------------------------------------------------------
\* Only the client's side of the loop writes to the buffer, and the way back to
\* the other side, NextRound, waits for it to be empty.
LEMMA NextNotStranded == TypeOK /\ NoStrandedAnswer /\ [Next]_vars => NoStrandedAnswer'
<1> SUFFICES ASSUME TypeOK, NoStrandedAnswer, [Next]_vars PROVE NoStrandedAnswer'
  OBVIOUS
<1> USE DEF NoStrandedAnswer, WaitsForClient, ToDaemon, ToClient
<1>1. CASE FromClient
  <2>1. CASE StreamEof
    BY <2>1 DEF StreamEof, Panic
  <2>2. CASE ReceiveUndecodable \/ ReceiveEof
    BY <2>2 DEF ReceiveUndecodable, ReceiveEof, ReceiveFailed
  <2>3. CASE ReceiveTag \/ ReceiveField \/ StreamingLength \/ GetStream
    BY <2>3 DEF ReceiveTag, ReceiveField, StreamingLength, GetStream
  <2>4. QED
    BY <1>1, <2>1, <2>2, <2>3 DEF FromClient
<1>2. CASE IntoDaemon
  BY <1>2 DEF IntoDaemon, SendWorkerOp, StreamingWriteLen, StreamingWriteBuff,
     WriteDaemon, DaemonPipeBroken, Panic
<1>3. CASE FromDaemon
  <2>1. pc' \in { "msg", "sendlast", "sendmsg", "reply", "sendreply", "sendnar",
                  "spin", "dead" }
    BY <1>3, Zenon DEF FromDaemon, ReadErrorMsg, ReadBuildResponse,
       ResponseUndecodable, StreamNar, DaemonEof, Panic
  <2>2. QED
    BY <2>1
<1>4. CASE IntoClient
  <2>1. CASE NextRound
    BY <2>1 DEF NextRound
  <2>2. CASE Spill \/ FlushTxToClient
    BY <2>2 DEF Spill, FlushTxToClient
  <2>3. CASE SendErrorToClient \/ WriteBuildResponse \/ WriteNar
    <3>1. PICK next \in { "msg", "nar", "flush", "reply" } :
            WriteClient(next) /\ pc \in ToClient
      BY <2>3, Zenon DEF SendErrorToClient, WriteBuildResponse, WriteNar, ToReply
    <3>2. pc' = next \/ pc' = pc
      BY <3>1 DEF WriteClient
    <3>3. QED
      BY <3>1, <3>2
  <2>4. QED
    BY <1>4, <2>1, <2>2, <2>3 DEF IntoClient
<1>5. CASE due > 0 /\ WriteOut
  <2>1. out # << >>
    BY <1>5 DEF TypeOK
  <2>2. pc' = pc \/ pc' = "dead"
    BY <1>5 DEF WriteOut, Drain, ClientPipeBroken
  <2>3. QED
    BY <2>1, <2>2
<1>6. CASE Client \/ Daemon \/ Rest \/ UNCHANGED vars
  <2>1. UNCHANGED proxyVars
    BY <1>6, Zenon DEF Client, ClientSend, ClientRead, ClientDone, ClientGone,
       Daemon, DaemonReadTag, DaemonReadField, DaemonReadLength, DaemonReadByte,
       DaemonLog, DaemonAnswer, DaemonWrite, DaemonGone, Rest, vars
  <2>2. QED
    BY <2>1
<1>7. QED
  BY <1>1, <1>2, <1>3, <1>4, <1>5, <1>6 DEF Next, Proxy, ProxyNext

\* No answer is ever kept in the buffer while the proxy waits for its client.
THEOREM AnswersNotStranded == Spec => []NoStrandedAnswer
<1>1. Init => NoStrandedAnswer
  BY DEF Init, ProxyInit, NoStrandedAnswer
<1>2. TypeOK /\ NoStrandedAnswer /\ [Next]_vars => NoStrandedAnswer'
  BY NextNotStranded
<1>3. QED
  BY <1>1, <1>2, TypeCorrect, PTL DEF Spec
=============================================================================
