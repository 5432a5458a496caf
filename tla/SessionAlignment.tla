-------------------------- MODULE SessionAlignment -------------------------
(***************************************************************************)
(* The streams between proxy and daemon carry no message boundaries: each  *)
(* end knows where a message ends only from what it has read.  This module *)
(* proves that the two ends agree, for every script a client may send.     *)
(*                                                                         *)
(* A reader is somewhere in an operation or in an answer, and each number  *)
(* it reads takes it further.  The invariant says that what is on its way  *)
(* takes the reader to where the writer is.                                *)
(***************************************************************************)
EXTENDS SessionProofs

USE DEF pipes, ends, proxyVars, clientVars, daemonVars

-----------------------------------------------------------------------------
\* Where a reader is: in what part, of which operation, and how much of the
\* part is left.

Parts == { "op", "args", "framelen", "framedata", "work", "msg", "reply", "nar", "done", "lost" }

At(part, o, n) == [part |-> part, op |-> o, left |-> n]

Places == [part : Parts, op : WorkerOp \cup { NoOp }, left : Nat]

Move(R, a, w, b) == << a, w, b >> \in R

\* The reader of an operation.
AfterTag(o) ==
    IF Body(o) = << >> THEN At(AfterFields(o), o, 0) ELSE At("args", o, Len(Body(o)))

Asking ==
    { t \in Places \X Nat \X Places :
        LET a == t[1]
            w == t[2]
            b == t[3]
        IN  \/ a.part = "op" /\ w = a.op /\ w \in WorkerOp /\ b = AfterTag(w)
            \/ a.part = "args" /\ b = IF a.left = 1 THEN At(AfterFields(a.op), a.op, 0)
                                      ELSE At("args", a.op, a.left - 1)
            \/ a.part = "framelen" /\ b = IF w = 0 THEN At("work", a.op, 0)
                                          ELSE At("framedata", a.op, w)
            \/ a.part = "framedata" /\ b = IF a.left = 1 THEN At("framelen", a.op, 0)
                                           ELSE At("framedata", a.op, a.left - 1) }

\* The reader of messages before the last.  It is lost after an opcode it does
\* not know.
Logging ==
    { t \in Places \X Nat \X Places :
        LET a == t[1]
            w == t[2]
            b == t[3]
        IN  \/ /\ a.part = "msg" /\ a.left = 0 /\ w # Last
               /\ b = IF w \in Msg THEN At("msg", a.op, MsgFields(w)) ELSE At("lost", a.op, 0)
            \/ a.part = "msg" /\ a.left > 0 /\ b = At("msg", a.op, a.left - 1)
            \/ a.part = "lost" /\ b = a }

AfterLast(o) ==
    IF o = NarFromPath THEN At("nar", o, 0)
    ELSE IF Reply(o) = << >> THEN At("done", o, 0) ELSE At("reply", o, Len(Reply(o)))

\* The reader of the messages, Last and the answer.
Answering ==
    { t \in Places \X Nat \X Places :
        LET a == t[1]
            w == t[2]
            b == t[3]
            kind == Reply(a.op)[Len(Reply(a.op)) + 1 - a.left]
        IN  \/ t \in Logging
            \/ a.part = "msg" /\ a.left = 0 /\ w = Last /\ b = AfterLast(a.op)
            \/ /\ a.part = "reply" /\ (BoolsConform /\ kind = "bool" => w \in { 0, 1 })
               /\ b = IF a.left = 1 THEN At("done", a.op, 0) ELSE At("reply", a.op, a.left - 1)
            \/ a.part = "nar" /\ b = IF w = NarEnd THEN At("done", a.op, 0) ELSE a }

\* Reading s takes a reader from a to b.
Reads(R, a, s, b) ==
    \E f \in [ 0 .. Len(s) -> Places ] :
        /\ f[0] = a /\ f[Len(s)] = b
        /\ \A i \in 1 .. Len(s) : Move(R, f[i - 1], s[i], f[i])

\* The same for s and then t.
ReadsBoth(R, a, s, t, b) == \E m \in Places : Reads(R, a, s, m) /\ Reads(R, m, t, b)

-----------------------------------------------------------------------------
\* Where the readers are, and where the writers are.

\* The daemon, in the operation it reads or is about to be sent.
DaemonAt == At(dpc, op, IF dpc \in { "args", "framedata" } THEN dneed ELSE 0)

\* The proxy, once it has written to the daemon what it holds for it.
AskedAt ==
    CASE pc = "op"        -> At("op", op, 0)
      [] pc = "args"      -> At("args", op, Len(Body(op)) + 1 - Len(held))
      [] pc = "sendop"    -> At(AfterFields(op), op, 0)
      [] pc = "framelen"  -> At("framelen", op, 0)
      [] pc = "sendlen"   -> IF left = 0 THEN At("work", op, 0) ELSE At("framedata", op, left)
      [] pc = "framedata" -> At("framedata", op, left - Len(held))
      [] pc = "senddata"  -> IF left = Len(held) THEN At("framelen", op, 0)
                             ELSE At("framedata", op, left - Len(held))
      [] OTHER            -> At("work", op, 0)

\* The proxy, in what it reads from the daemon.
ReadAt ==
    CASE pc = "msg" /\ held # << >> -> At("msg", op, MsgFields(Head(held)) + 1 - Len(held))
      [] pc = "sendlast"            -> AfterLast(op)
      [] pc = "reply"               -> At("reply", op, Len(Reply(op)) - Len(held))
      [] pc = "nar"                 -> At("nar", op, 0)
      [] pc = "sendnar"             -> IF Head(held) = NarEnd THEN At("done", op, 0)
                                       ELSE At("nar", op, 0)
      [] pc \in { "sendreply", "flush" } -> At("done", op, 0)
      [] OTHER                      -> At("msg", op, 0)

-----------------------------------------------------------------------------
\* The invariant.

\* What the proxy holds is part of what it is reading.
InHand ==
    /\ pc \notin { "op", "dead" } => op \in WorkerOp
    /\ pc = "args" => held # << >> /\ Len(held) <= Len(Body(op))
    /\ pc = "msg" /\ held # << >> => Head(held) \in Msg /\ Len(held) <= MsgFields(Head(held))
    /\ pc = "reply" => Len(held) < Len(Reply(op))
    /\ pc = "sendnar" => Len(held) = 1

\* What is on its way to a daemon that dies is lost, and what it had to write.
Gone == ~ daemonUp => p2d = << >> /\ dtodo = << >>

\* What is on its way to the daemon takes it to where the proxy is.
Sent == daemonUp => ReadsBoth(Asking, DaemonAt, p2d, heldUp, AskedAt)

\* What is on its way to the proxy is messages before the last.  Of a daemon
\* that died it is only said that there was a rest, now lost.
Logged ==
    \E rest \in Seq(Nat), part \in { "msg", "lost" } :
        /\ daemonUp => rest = dtodo
        /\ ReadsBoth(Logging, ReadAt, d2p, rest, At(part, op, 0))

\* It is messages, Last and the answer.
Told ==
    \E rest \in Seq(Nat), part \in { "done", "lost" } :
        /\ daemonUp => rest = dtodo
        /\ ReadsBoth(Answering, ReadAt, d2p, rest, At(part, op, 0))

\* The daemon has not answered: it is to read what is left of the operation, and
\* the proxy is to read nothing but messages.
Asked ==
    /\ pc \in WaitsForClient \cup { "msg", "sendmsg" }
    /\ dpc # "op" => dop = op
    /\ pc \in { "op", "args" } => dpc = "op" /\ p2d = << >>
    /\ dpc = "op" => d2p = << >> /\ dtodo = << >>
    /\ Sent
    /\ Logged

\* The daemon has answered, and the proxy is to read it.
Answered ==
    /\ pc \in ToClient \cup { "msg", "reply", "nar", "flush" }
    /\ dpc = "op"
    /\ p2d = << >>
    /\ Told

Agree ==
    CASE pc = "dead" -> TRUE
      [] pc = "spin" -> dpc = "op" /\ ~ daemonUp
      [] OTHER       -> Asked \/ Answered

InStep == InHand /\ Gone /\ Agree

-----------------------------------------------------------------------------
\* Reading, whatever the reader.

LEMMA ReadsNothing ==
    ASSUME NEW R, NEW a \in Places
    PROVE  /\ Reads(R, a, << >>, a)
           /\ \A b : Reads(R, a, << >>, b) => b = a
<1> DEFINE f == [ i \in 0 .. Len(<< >>) |-> a ]
<1>1. f \in [ 0 .. Len(<< >>) -> Places ] /\ f[0] = a /\ f[Len(<< >>)] = a
  BY SMT
<1>2. \A i \in 1 .. Len(<< >>) : FALSE
  BY SMT
<1>3. Reads(R, a, << >>, a)
  BY <1>1, <1>2, Zenon DEF Reads
<1>4. Len(<< >>) = 0
  BY EmptySeq, Zenon
<1>5. QED
  BY <1>3, <1>4, Zenon DEF Reads

LEMMA ReadsFirst ==
    ASSUME NEW R, NEW a, NEW b, NEW s \in Seq(Nat), s # << >>, Reads(R, a, s, b)
    PROVE  \E m \in Places : Move(R, a, Head(s), m) /\ Reads(R, m, Tail(s), b)
<1>1. PICK f \in [ 0 .. Len(s) -> Places ] :
        /\ f[0] = a /\ f[Len(s)] = b
        /\ \A i \in 1 .. Len(s) : Move(R, f[i - 1], s[i], f[i])
  BY Zenon DEF Reads
<1>2. /\ Head(s) = s[1] /\ Len(Tail(s)) = Len(s) - 1
      /\ \A i \in 1 .. Len(Tail(s)) : Tail(s)[i] = s[i + 1]
      /\ Len(s) \in Nat \ { 0 }
  BY HeadTailProperties, EmptySeq, SMT
<1> DEFINE t == Tail(s)
           g == [ i \in 0 .. Len(t) |-> f[i + 1] ]
<1>3. Len(t) = Len(s) - 1 /\ \A i \in 1 .. Len(t) : t[i] = s[i + 1]
  BY <1>2, Zenon
<1> HIDE DEF t
<1>4. f[1] \in Places /\ Move(R, a, Head(s), f[1])
  <2>1. 1 \in 1 .. Len(s) /\ 1 - 1 = 0 /\ 1 \in 0 .. Len(s)
    BY <1>2, SMT
  <2>2. Move(R, f[1 - 1], s[1], f[1])
    BY <1>1, <2>1, Zenon
  <2>3. QED
    BY <1>1, <1>2, <2>1, <2>2
<1>5. g \in [ 0 .. Len(t) -> Places ] /\ g[0] = f[1] /\ g[Len(t)] = b
  BY <1>1, <1>2, <1>3, SMT
<1>6. ASSUME NEW i \in 1 .. Len(t)
      PROVE  Move(R, g[i - 1], t[i], g[i])
  <2>1. i + 1 \in 1 .. Len(s) /\ t[i] = s[i + 1]
    BY <1>2, <1>3, SMT
  <2>2. g[i - 1] = f[(i + 1) - 1] /\ g[i] = f[i + 1]
    BY <1>2, <1>3, SMT
  <2>3. Move(R, f[(i + 1) - 1], s[i + 1], f[i + 1])
    BY <1>1, <2>1, Zenon
  <2> HIDE DEF g
  <2>4. QED
    BY <2>1, <2>2, <2>3, Zenon
<1> HIDE DEF g
<1>7. Reads(R, f[1], t, b)
  BY <1>5, <1>6, Zenon DEF Reads
<1>8. QED
  BY <1>4, <1>7, Zenon DEF t

LEMMA ReadsMore ==
    ASSUME NEW R, NEW a, NEW b, NEW c \in Places, NEW s \in Seq(Nat), NEW x \in Nat,
           Reads(R, a, s, b), Move(R, b, x, c)
    PROVE  Reads(R, a, Append(s, x), c)
<1>1. PICK f \in [ 0 .. Len(s) -> Places ] :
        /\ f[0] = a /\ f[Len(s)] = b
        /\ \A i \in 1 .. Len(s) : Move(R, f[i - 1], s[i], f[i])
  BY Zenon DEF Reads
<1> DEFINE t == Append(s, x)
<1>2. /\ Len(t) = Len(s) + 1 /\ t[Len(s) + 1] = x
      /\ \A i \in 1 .. Len(s) : t[i] = s[i]
  BY AppendProperties, SMT
<1>3. Len(s) \in Nat
  BY LenProperties, Zenon
<1> HIDE DEF t
<1>4. Len(t) = Len(s) + 1
  BY <1>2, Zenon
<1> DEFINE g == [ i \in 0 .. Len(t) |-> IF i = Len(t) THEN c ELSE f[i] ]
<1>5. g \in [ 0 .. Len(t) -> Places ] /\ g[0] = a /\ g[Len(t)] = c
  BY <1>1, <1>3, <1>4, SMT
<1>6. ASSUME NEW i \in 1 .. Len(t)
      PROVE  Move(R, g[i - 1], t[i], g[i])
  <2>1. CASE i \in 1 .. Len(s)
    <3>1. g[i - 1] = f[i - 1] /\ g[i] = f[i]
      BY <2>1, <1>3, <1>4, SMT
    <3>2. Move(R, f[i - 1], t[i], f[i])
      BY <2>1, <1>1, <1>2
    <3> HIDE DEF g
    <3>3. QED
      BY <3>1, <3>2, Zenon
  <2>2. CASE i = Len(s) + 1
    <3>1. g[i - 1] = b /\ g[i] = c
      BY <2>2, <1>1, <1>3, <1>4, SMT
    <3>2. t[i] = x
      BY <2>2, <1>2, Zenon
    <3> HIDE DEF g
    <3>3. QED
      BY <3>1, <3>2, Zenon
  <2>3. i \in 1 .. Len(s) \/ i = Len(s) + 1
    BY <1>3, <1>4, SMT
  <2>4. QED
    BY <2>1, <2>2, <2>3
<1> HIDE DEF g
<1>7. Reads(R, a, t, c)
  BY <1>5, <1>6, Zenon DEF Reads
<1>8. QED
  BY <1>7, Zenon DEF t

LEMMA ReadsEnds ==
    ASSUME NEW R, NEW a, NEW b, NEW s \in Seq(Nat), Reads(R, a, s, b)
    PROVE  a \in Places /\ b \in Places
<1>1. PICK f \in [ 0 .. Len(s) -> Places ] : f[0] = a /\ f[Len(s)] = b
  BY Zenon DEF Reads
<1>2. Len(s) \in Nat
  BY LenProperties, Zenon
<1>3. QED
  BY <1>1, <1>2, SMT

LEMMA ReadsWider ==
    ASSUME NEW R, NEW S, NEW a, NEW b, NEW s, Reads(R, a, s, b),
           \A m, w, n : Move(R, m, w, n) => Move(S, m, w, n)
    PROVE  Reads(S, a, s, b)
  BY Zenon DEF Reads

\* A reader that cannot move has read all there is.
LEMMA ReadsStuck ==
    ASSUME NEW R, NEW a, NEW b, NEW s \in Seq(Nat), Reads(R, a, s, b),
           \A w, m : ~ Move(R, a, w, m)
    PROVE  s = << >> /\ b = a
<1>1. s = << >>
  BY ReadsFirst, Zenon
<1>2. a \in Places
  BY ReadsEnds, Zenon
<1>3. QED
  BY <1>1, <1>2, ReadsNothing, Zenon

\* What was to be written is written.
LEMMA BothPass ==
    ASSUME NEW R, NEW a, NEW b, NEW s \in Seq(Nat), NEW t \in Seq(Nat), t # << >>,
           ReadsBoth(R, a, s, t, b)
    PROVE  ReadsBoth(R, a, Append(s, Head(t)), Tail(t), b)
<1>1. PICK m \in Places : Reads(R, a, s, m) /\ Reads(R, m, t, b)
  BY Zenon DEF ReadsBoth
<1>2. PICK n \in Places : Move(R, m, Head(t), n) /\ Reads(R, n, Tail(t), b)
  BY <1>1, ReadsFirst, Zenon
<1>3. Head(t) \in Nat
  BY HeadAndTail
<1>4. Reads(R, a, Append(s, Head(t)), n)
  BY <1>1, <1>2, <1>3, ReadsMore, Zenon
<1>5. QED
  BY <1>2, <1>4, Zenon DEF ReadsBoth

\* What was on its way is read.
LEMMA BothFirst ==
    ASSUME NEW R, NEW a, NEW b, NEW s \in Seq(Nat), NEW t, s # << >>,
           ReadsBoth(R, a, s, t, b)
    PROVE  \E m \in Places : Move(R, a, Head(s), m) /\ ReadsBoth(R, m, Tail(s), t, b)
<1>1. PICK m \in Places : Reads(R, a, s, m) /\ Reads(R, m, t, b)
  BY Zenon DEF ReadsBoth
<1>2. PICK n \in Places : Move(R, a, Head(s), n) /\ Reads(R, n, Tail(s), m)
  BY <1>1, ReadsFirst, Zenon
<1>3. QED
  BY <1>1, <1>2, Zenon DEF ReadsBoth

\* There is more to write.
LEMMA BothMore ==
    ASSUME NEW R, NEW a, NEW b, NEW s, NEW t \in Seq(Nat), NEW x \in Nat, NEW c \in Places,
           ReadsBoth(R, a, s, t, b), Move(R, b, x, c)
    PROVE  ReadsBoth(R, a, s, Append(t, x), c)
<1>1. PICK m \in Places : Reads(R, a, s, m) /\ Reads(R, m, t, b)
  BY Zenon DEF ReadsBoth
<1>2. Reads(R, m, Append(t, x), c)
  BY <1>1, ReadsMore, Zenon
<1>3. QED
  BY <1>1, <1>2, Zenon DEF ReadsBoth

LEMMA BothNothing ==
    ASSUME NEW R, NEW a \in Places
    PROVE  /\ ReadsBoth(R, a, << >>, << >>, a)
           /\ \A t, b : ReadsBoth(R, a, << >>, t, b) <=> Reads(R, a, t, b)
<1>1. Reads(R, a, << >>, a) /\ \A b : Reads(R, a, << >>, b) => b = a
  BY ReadsNothing, Zenon
<1>2. QED
  BY <1>1, Zenon DEF ReadsBoth

LEMMA BothEnd ==
    ASSUME NEW R, NEW a, NEW b, NEW s, ReadsBoth(R, a, s, << >>, b)
    PROVE  Reads(R, a, s, b)
<1>1. PICK m \in Places : Reads(R, a, s, m) /\ Reads(R, m, << >>, b)
  BY Zenon DEF ReadsBoth
<1>2. b = m
  BY <1>1, ReadsNothing, Zenon
<1>3. QED
  BY <1>1, <1>2, Zenon

LEMMA BothStuck ==
    ASSUME NEW R, NEW a, NEW b, NEW s \in Seq(Nat), NEW t \in Seq(Nat), ReadsBoth(R, a, s, t, b),
           \A w, m : ~ Move(R, a, w, m)
    PROVE  s = << >> /\ t = << >> /\ b = a
<1>1. PICK m \in Places : Reads(R, a, s, m) /\ Reads(R, m, t, b)
  BY Zenon DEF ReadsBoth
<1>2. s = << >> /\ m = a
  BY <1>1, ReadsStuck, Zenon
<1>3. QED
  BY <1>1, <1>2, ReadsStuck, Zenon

-----------------------------------------------------------------------------
\* Reading, reader by reader.

LEMMA Atoms ==
    ASSUME NEW part \in Parts, NEW o \in WorkerOp \cup { NoOp }, NEW n \in Nat
    PROVE  /\ At(part, o, n) \in Places
           /\ At(part, o, n).part = part /\ At(part, o, n).op = o /\ At(part, o, n).left = n
  BY SMT DEF At, Places

LEMMA MovesBetween ==
    ASSUME NEW R \in { Asking, Logging, Answering }, NEW a, NEW w, NEW b, Move(R, a, w, b)
    PROVE  a \in Places /\ w \in Nat /\ b \in Places
<1>1. R \subseteq Places \X Nat \X Places
  BY Zenon DEF Asking, Logging, Answering
<1>2. << a, w, b >> \in Places \X Nat \X Places
  BY <1>1, Zenon DEF Move
<1>3. QED
  BY <1>2

LEMMA Triple ==
    ASSUME NEW a \in Places, NEW w \in Nat, NEW b \in Places
    PROVE  /\ << a, w, b >> \in Places \X Nat \X Places
           /\ << a, w, b >>[1] = a /\ << a, w, b >>[2] = w /\ << a, w, b >>[3] = b
  OBVIOUS

LEMMA MovesInAsking ==
    ASSUME NEW a \in Places, NEW w \in Nat, NEW b \in Places
    PROVE  Move(Asking, a, w, b) <=>
              \/ a.part = "op" /\ w = a.op /\ w \in WorkerOp /\ b = AfterTag(w)
              \/ a.part = "args" /\ b = IF a.left = 1 THEN At(AfterFields(a.op), a.op, 0)
                                        ELSE At("args", a.op, a.left - 1)
              \/ a.part = "framelen" /\ b = IF w = 0 THEN At("work", a.op, 0)
                                            ELSE At("framedata", a.op, w)
              \/ a.part = "framedata" /\ b = IF a.left = 1 THEN At("framelen", a.op, 0)
                                             ELSE At("framedata", a.op, a.left - 1)
  BY Triple, Zenon DEF Move, Asking

LEMMA MovesInLogging ==
    ASSUME NEW a \in Places, NEW w \in Nat, NEW b \in Places
    PROVE  Move(Logging, a, w, b) <=>
              \/ /\ a.part = "msg" /\ a.left = 0 /\ w # Last
                 /\ b = IF w \in Msg THEN At("msg", a.op, MsgFields(w)) ELSE At("lost", a.op, 0)
              \/ a.part = "msg" /\ a.left > 0 /\ b = At("msg", a.op, a.left - 1)
              \/ a.part = "lost" /\ b = a
  BY Triple, Zenon DEF Move, Logging

LEMMA MovesInAnswering ==
    ASSUME NEW a \in Places, NEW w \in Nat, NEW b \in Places
    PROVE  Move(Answering, a, w, b) <=>
              \/ Move(Logging, a, w, b)
              \/ a.part = "msg" /\ a.left = 0 /\ w = Last /\ b = AfterLast(a.op)
              \/ /\ a.part = "reply"
                 /\ BoolsConform /\ Reply(a.op)[Len(Reply(a.op)) + 1 - a.left] = "bool"
                      => w \in { 0, 1 }
                 /\ b = IF a.left = 1 THEN At("done", a.op, 0) ELSE At("reply", a.op, a.left - 1)
              \/ a.part = "nar" /\ b = IF w = NarEnd THEN At("done", a.op, 0) ELSE a
  BY Triple, Zenon DEF Move, Answering

\* The fields of every answer are a finite sequence.
LEMMA ReplyIsSeq == \A o \in WorkerOp : Reply(o) \in Seq(Kind)
<1>1. /\ << >> \in Seq(Kind)
      /\ << "bool" >> \in Seq(Kind)
      /\ << "set" >> \in Seq(Kind)
      /\ << "u64" >> \in Seq(Kind)
      /\ << "map" >> \in Seq(Kind)
      /\ << "option" >> \in Seq(Kind)
      /\ << "path" >> \in Seq(Kind)
      /\ << "nar" >> \in Seq(Kind)
      /\ << "results" >> \in Seq(Kind)
  BY DEF Kind
<1>2. /\ ValidPathInfoWithPath \in Seq(Kind) /\ CollectGarbageResponse \in Seq(Kind)
      /\ BuildResult \in Seq(Kind) /\ QueryMissingResponse \in Seq(Kind)
  <2>1. ValidPathInfo \in Seq(Kind) /\ CollectGarbageResponse \in Seq(Kind)
    BY DEF Kind, ValidPathInfo, CollectGarbageResponse
  <2>2. BuildResult \in Seq(Kind) /\ QueryMissingResponse \in Seq(Kind)
    BY DEF Kind, BuildResult, QueryMissingResponse
  <2>3. << "path" >> \in Seq(Kind)
    BY DEF Kind
  <2>4. ValidPathInfoWithPath \in Seq(Kind)
    BY <2>1, <2>3, ConcatProperties, Zenon DEF ValidPathInfoWithPath
  <2>5. QED
    BY <2>1, <2>2, <2>4
<1>3. ASSUME NEW t, NEW b, NEW a \in Seq(Kind)
      PROVE  /\ Plain(t, b, a).reply \in Seq(Kind)
             /\ WithFramedSource(t, b, a).reply \in Seq(Kind)
  BY DEF Plain, WithFramedSource
<1>4. \A r \in WorkerOpTable : r.reply \in Seq(Kind)
  BY <1>1, <1>2, <1>3, Zenon DEF WorkerOpTable
<1>5. \A o \in WorkerOp : OpOf(o) \in WorkerOpTable
  BY DEF WorkerOp, OpOf
<1>6. QED
  BY <1>4, <1>5 DEF Reply

LEMMA FieldsOfMessages ==
    /\ Last \in Msg /\ MsgFields(Last) = 0
    /\ \A w \in Msg : MsgFields(w) \in Nat
<1>1. Last \in Msg
  BY SMT DEF Msg, MsgTable
<1>2. \A w \in Msg : \E r \in MsgTable : r.tag = w
  BY Zenon DEF Msg
<1>3. \A r \in MsgTable : Len(r.body) \in Nat
  BY SMT DEF MsgTable
<1>4. \A w \in Msg : (CHOOSE r \in MsgTable : r.tag = w) \in MsgTable
  BY <1>2
<1>5. \A r \in MsgTable : r.tag = Last => r.body = << >>
  BY SMT DEF MsgTable, Write, Error, Next_, StartActivity, StopActivity, Result, Last
<1>6. (CHOOSE r \in MsgTable : r.tag = Last).body = << >>
  BY <1>1, <1>2, <1>5
<1>7. QED
  BY <1>1, <1>3, <1>4, <1>6, EmptySeq DEF MsgFields, MsgBody

LEMMA Framing == \A o : AfterFields(o) \in { "framelen", "work" }
  BY DEF AfterFields

LEMMA LogIsAnswer ==
    ASSUME NEW a, NEW b, NEW s, Reads(Logging, a, s, b)
    PROVE  Reads(Answering, a, s, b)
<1>1. \A m, w, n : Move(Logging, m, w, n) => Move(Answering, m, w, n)
  BY MovesBetween, MovesInAnswering, Zenon
<1>2. QED
  BY <1>1, ReadsWider, Zenon

LEMMA ReadsLost ==
    ASSUME NEW o \in WorkerOp, NEW s \in Seq(Nat)
    PROVE  Reads(Logging, At("lost", o, 0), s, At("lost", o, 0))
<1> DEFINE lost == At("lost", o, 0)
           f == [ i \in 0 .. Len(s) |-> lost ]
<1>1. lost \in Places /\ lost.part = "lost"
  BY Atoms, SMT DEF Parts
<1> HIDE DEF lost
<1>2. Len(s) \in Nat
  BY LenProperties, Zenon
<1>3. \A i \in 1 .. Len(s) : s[i] \in Nat /\ i \in 0 .. Len(s) /\ i - 1 \in 0 .. Len(s)
  BY <1>2, ElementOfSeq, SMT
<1>4. f \in [ 0 .. Len(s) -> Places ] /\ f[0] = lost /\ f[Len(s)] = lost
  BY <1>1, <1>2, SMT
<1>5. \A i \in 1 .. Len(s) : f[i - 1] = lost /\ f[i] = lost
  BY <1>3, SMT
<1> HIDE DEF f
<1>6. \A w \in Nat : Move(Logging, lost, w, lost)
  BY <1>1, MovesInLogging, Zenon
<1>7. \A i \in 1 .. Len(s) : Move(Logging, f[i - 1], s[i], f[i])
  BY <1>3, <1>5, <1>6, Zenon
<1>8. QED
  BY <1>4, <1>7, Zenon DEF Reads, lost

\* A message takes the reader of messages to the start of the next.
LEMMA ReadsLog ==
    ASSUME NEW o \in WorkerOp, NEW l \in Seq(Nat), LogConforms(l)
    PROVE  \E part \in { "msg", "lost" } : Reads(Logging, At("msg", o, 0), l, At(part, o, 0))
<1>1. /\ l # << >> /\ Head(l) # Last
      /\ Head(l) \in Msg => Len(l) = MsgFields(Head(l)) + 1
  BY Zenon DEF LogConforms
<1>2. /\ Head(l) = l[1] /\ Head(l) \in Nat /\ Len(l) \in Nat \ { 0 }
  BY <1>1, HeadTailProperties, EmptySeq, SMT
<1>3. \A i \in 1 .. Len(l) : l[i] \in Nat
  BY ElementOfSeq, Zenon
<1> DEFINE start == At("msg", o, 0)
           lost  == At("lost", o, 0)
<1>4. /\ start \in Places /\ start.part = "msg" /\ start.op = o /\ start.left = 0
      /\ lost \in Places /\ lost.part = "lost" /\ lost.op = o
  BY Atoms, SMT DEF Parts
<1>5. CASE Head(l) \in Msg
  <2> DEFINE n == MsgFields(Head(l))
             f == [ i \in 0 .. Len(l) |-> IF i = 0 THEN start ELSE At("msg", o, n + 1 - i) ]
  <2>1. n \in Nat /\ Len(l) = n + 1
    BY <1>1, <1>5, FieldsOfMessages, Zenon
  <2> HIDE DEF n
  <2>2. ASSUME NEW i \in 1 .. Len(l)
        PROVE  /\ At("msg", o, n + 1 - i) \in Places
               /\ At("msg", o, n + 1 - i).part = "msg" /\ At("msg", o, n + 1 - i).op = o
               /\ At("msg", o, n + 1 - i).left = n + 1 - i
    <3>1. n + 1 - i \in Nat /\ "msg" \in Parts /\ o \in WorkerOp \cup { NoOp }
      BY <2>1, SMT DEF Parts
    <3> DEFINE k == n + 1 - i
    <3> HIDE DEF k
    <3>2. k \in Nat
      BY <3>1, Zenon DEF k
    <3>3. /\ At("msg", o, k) \in Places
          /\ At("msg", o, k).part = "msg" /\ At("msg", o, k).op = o /\ At("msg", o, k).left = k
      BY <3>1, <3>2, SMT DEF At, Places
    <3>4. QED
      BY <3>3, Zenon DEF k
  <2> HIDE DEF start
  <2>3. f[0] = start /\ \A i \in 1 .. Len(l) : f[i] = At("msg", o, n + 1 - i)
    BY <2>1, SMT
  <2>4. f \in [ 0 .. Len(l) -> Places ]
    BY <1>4, <2>1, <2>2, SMT
  <2>5. f[Len(l)] = At("msg", o, 0)
    <3>1. Len(l) \in 1 .. Len(l) /\ n + 1 - Len(l) = 0
      BY <2>1, SMT
    <3>2. QED
      BY <2>3, <3>1, Zenon
  <2> HIDE DEF f
  <2>6. ASSUME NEW i \in 1 .. Len(l)
        PROVE  Move(Logging, f[i - 1], l[i], f[i])
    <3>1. f[i - 1] \in Places /\ f[i] \in Places /\ l[i] \in Nat
      BY <1>3, <2>1, <2>4, SMT
    <3>2. CASE i = 1
      <4>1. i - 1 = 0 /\ n + 1 - i = n
        BY <3>2, <2>1, SMT
      <4>2. f[i - 1] = start /\ l[i] = Head(l) /\ f[i] = At("msg", o, n)
        BY <3>2, <4>1, <1>2, <2>3, Zenon
      <4>3. At("msg", o, n) \in Places
        BY <3>1, <4>2, Zenon
      <4>4. Move(Logging, start, Head(l), At("msg", o, n))
        BY <4>3, <1>1, <1>2, <1>4, <1>5, MovesInLogging, Zenon DEF n
      <4>5. QED
        BY <4>2, <4>4, Zenon
    <3>3. CASE i # 1
      <4>1. i - 1 \in 1 .. Len(l) /\ n + 1 - (i - 1) > 0 /\ n + 1 - (i - 1) - 1 = n + 1 - i
        BY <3>3, <2>1, SMT
      <4>2. f[i - 1] = At("msg", o, n + 1 - (i - 1)) /\ f[i] = At("msg", o, n + 1 - i)
        BY <4>1, <2>3, Zenon
      <4> DEFINE a == f[i - 1]
                 b == f[i]
                 w == l[i]
      <4>3. a.part = "msg" /\ a.op = o /\ a.left = n + 1 - (i - 1)
        BY <4>1, <4>2, <2>2, Zenon
      <4>4. a \in Places /\ b \in Places /\ w \in Nat
        BY <3>1, Zenon
      <4>5. b = At("msg", o, n + 1 - i)
        BY <4>2, Zenon
      <4> DEFINE k == n + 1 - (i - 1)
      <4>6. a.left = k /\ k > 0 /\ k - 1 = n + 1 - i
        <5>1. a.left = k
          BY <4>3, Zenon
        <5>2. k > 0 /\ k - 1 = n + 1 - i
          BY <2>1, <3>3, SMT
        <5>3. QED
          BY <5>1, <5>2
      <4> HIDE DEF a, b, w, k
      <4>7. b = At("msg", a.op, a.left - 1)
        BY <4>3, <4>5, <4>6, Zenon
      <4>8. a.left > 0
        BY <4>6, Zenon
      <4>9. Move(Logging, a, w, b)
        BY <4>3, <4>4, <4>7, <4>8, MovesInLogging, Zenon
      <4>10. QED
        BY <4>9, Zenon DEF a, b, w
    <3>4. QED
      BY <3>2, <3>3
  <2>7. Reads(Logging, start, l, At("msg", o, 0))
    BY <2>3, <2>4, <2>5, <2>6, Zenon DEF Reads
  <2>8. QED
    BY <2>7, Zenon DEF start
<1>6. CASE Head(l) \notin Msg
  <2> DEFINE g == [ i \in 0 .. Len(l) |-> IF i = 0 THEN start ELSE lost ]
  <2> HIDE DEF start, lost
  <2>1. /\ g \in [ 0 .. Len(l) -> Places ] /\ g[0] = start /\ g[Len(l)] = lost
        /\ \A i \in 1 .. Len(l) : g[i] = lost /\ g[i - 1] = IF i = 1 THEN start ELSE lost
    BY <1>2, <1>4, SMT
  <2> HIDE DEF g
  <2>2. Move(Logging, start, Head(l), lost)
    BY <1>1, <1>2, <1>4, <1>6, MovesInLogging, Zenon DEF lost
  <2>3. \A w \in Nat : Move(Logging, lost, w, lost)
    BY <1>4, MovesInLogging, Zenon
  <2>4. \A i \in 1 .. Len(l) : Move(Logging, g[i - 1], l[i], g[i])
    BY <1>2, <1>3, <2>1, <2>2, <2>3, Zenon
  <2>5. Reads(Logging, start, l, lost)
    BY <2>1, <2>4, Zenon DEF Reads
  <2>6. QED
    BY <2>5, Zenon DEF start, lost
<1>7. QED
  BY <1>5, <1>6

LEMMA ReadsCons ==
    ASSUME NEW R, NEW a \in Places, NEW x \in Nat, NEW m, NEW b, NEW t \in Seq(Nat),
           Move(R, a, x, m), Reads(R, m, t, b)
    PROVE  Reads(R, a, << x >> \o t, b)
<1>1. PICK f \in [ 0 .. Len(t) -> Places ] :
        /\ f[0] = m /\ f[Len(t)] = b
        /\ \A i \in 1 .. Len(t) : Move(R, f[i - 1], t[i], f[i])
  BY Zenon DEF Reads
<1> DEFINE s == << x >> \o t
<1>2. << x >> \in Seq(Nat) /\ Len(<< x >>) = 1 /\ << x >>[1] = x
  OBVIOUS
<1>3. /\ Len(s) = Len(<< x >>) + Len(t)
      /\ \A i \in 1 .. Len(<< x >>) + Len(t) :
           s[i] = IF i <= Len(<< x >>) THEN << x >>[i] ELSE t[i - Len(<< x >>)]
  BY <1>2, ConcatProperties, Zenon
<1>4. Len(t) \in Nat
  BY LenProperties, Zenon
<1> HIDE DEF s
<1>5. /\ Len(s) = 1 + Len(t) /\ s[1] = x
      /\ \A i \in 2 .. Len(s) : s[i] = t[i - 1]
  BY <1>2, <1>3, <1>4, SMT
<1> DEFINE g == [ i \in 0 .. Len(s) |-> IF i = 0 THEN a ELSE f[i - 1] ]
<1>6. g \in [ 0 .. Len(s) -> Places ] /\ g[0] = a /\ g[Len(s)] = b
  BY <1>1, <1>4, <1>5, SMT
<1>7. ASSUME NEW i \in 1 .. Len(s)
      PROVE  Move(R, g[i - 1], s[i], g[i])
  <2>1. CASE i = 1
    <3>1. g[i - 1] = a /\ g[i] = m /\ s[i] = x
      BY <2>1, <1>1, <1>4, <1>5, SMT
    <3> HIDE DEF g
    <3>2. QED
      BY <3>1, Zenon
  <2>2. CASE i # 1
    <3> DEFINE j == i - 1
    <3>1. j \in 1 .. Len(t) /\ i \in 2 .. Len(s)
      BY <2>2, <1>4, <1>5, SMT
    <3>2. g[i - 1] = f[j - 1] /\ g[i] = f[j]
      BY <2>2, <1>4, <1>5, SMT
    <3>3. s[i] = t[j]
      BY <3>1, <1>5, Zenon
    <3> HIDE DEF g, j
    <3>4. QED
      BY <3>1, <3>2, <3>3, <1>1, Zenon
  <2>3. QED
    BY <2>1, <2>2
<1> HIDE DEF g
<1>8. Reads(R, a, s, b)
  BY <1>6, <1>7, Zenon DEF Reads
<1>9. QED
  BY <1>8, Zenon DEF s

\* The reader moves through the fields of an answer.
LEMMA MovesInReply ==
    ASSUME NEW o \in WorkerOp, NEW a \in Answers(o), NEW i \in 1 .. Len(a),
           a \in Seq(Nat), Len(a) = Len(Reply(o))
    PROVE  Move(Answering, At("reply", o, Len(a) + 1 - i), a[i],
                IF i = Len(a) THEN At("done", o, 0) ELSE At("reply", o, Len(a) - i))
<1> DEFINE k == Len(a) + 1 - i
           m == At("reply", o, k)
           done == At("done", o, 0)
           l == Len(a) - i
           n == At("reply", o, l)
<1>1. Len(a) \in Nat /\ k \in Nat /\ l \in Nat /\ (i = Len(a) <=> k = 1) /\ k - 1 = l
  BY LenProperties, SMT
<1>2. "reply" \in Parts /\ "done" \in Parts /\ o \in WorkerOp \cup { NoOp } /\ a[i] \in Nat
  BY ElementOfSeq, SMT DEF Parts
<1>3. Len(Reply(o)) + 1 - k = i
  BY <1>1, SMT
<1>4. BoolsConform /\ Reply(o)[i] = "bool" => a[i] \in { 0, 1 }
  <2>1. i <= Len(Reply(o))
    BY <1>1, SMT
  <2>2. QED
    BY <2>1, Zenon DEF BoolsConform
<1> HIDE DEF k, l
<1>5. m \in Places /\ m.part = "reply" /\ m.op = o /\ m.left = k
  BY <1>1, <1>2, SMT DEF At, Places
<1>6. n \in Places /\ done \in Places
  BY <1>1, <1>2, SMT DEF At, Places
<1> HIDE DEF m
<1> DEFINE b == IF i = Len(a) THEN done ELSE n
<1>7. b \in Places
  BY <1>6, Zenon
<1>8. b = IF m.left = 1 THEN At("done", m.op, 0) ELSE At("reply", m.op, m.left - 1)
  BY <1>1, <1>5, Zenon
<1>9. BoolsConform /\ Reply(m.op)[Len(Reply(m.op)) + 1 - m.left] = "bool" => a[i] \in { 0, 1 }
  BY <1>3, <1>4, <1>5, Zenon
<1> HIDE DEF b
<1>10. Move(Answering, m, a[i], b)
  BY <1>2, <1>5, <1>7, <1>8, <1>9, MovesInAnswering, Zenon
<1>11. QED
  BY <1>10, Zenon DEF m, b, k, l

LEMMA ReadsReply ==
    ASSUME NEW o \in WorkerOp, NEW a \in Answers(o)
    PROVE  a \in Seq(Nat) /\ Reads(Answering, AfterLast(o), a, At("done", o, 0))
<1>1. a \in Seq(Nat) /\ AnswerConforms(o, a)
  BY AnswerAssumption, DaemonAssumption, Zenon
<1>2. Len(a) \in Nat /\ \A i \in 1 .. Len(a) : a[i] \in Nat
  BY <1>1, LenProperties, ElementOfSeq, Zenon
<1> DEFINE done == At("done", o, 0)
           nar  == At("nar", o, 0)
<1>3. /\ done \in Places /\ nar \in Places
      /\ nar.part = "nar" /\ nar.op = o
  BY Atoms, SMT DEF Parts
<1>4. CASE o = NarFromPath
  <2>1. a # << >> /\ \A i \in 1 .. Len(a) : a[i] = NarEnd <=> i = Len(a)
    BY <1>1, <1>4, Zenon DEF AnswerConforms
  <2>2. Len(a) > 0
    BY <1>1, <2>1, EmptySeq, SMT
  <2>3. AfterLast(o) = nar
    BY <1>4, Zenon DEF AfterLast
  <2> HIDE DEF done, nar
  <2> DEFINE f == [ i \in 0 .. Len(a) |-> IF i = Len(a) THEN done ELSE nar ]
  <2>4. f \in [ 0 .. Len(a) -> Places ] /\ f[0] = nar /\ f[Len(a)] = done
    BY <1>2, <1>3, <2>2, SMT
  <2>5. \A i \in 1 .. Len(a) : f[i - 1] = nar /\ f[i] = IF i = Len(a) THEN done ELSE nar
    BY <1>2, SMT
  <2> HIDE DEF f
  <2>6. \A w \in Nat : Move(Answering, nar, w, IF w = NarEnd THEN done ELSE nar)
    BY <1>3, MovesInAnswering, Zenon DEF done
  <2>7. \A i \in 1 .. Len(a) : Move(Answering, f[i - 1], a[i], f[i])
    BY <1>2, <2>1, <2>5, <2>6, Zenon
  <2>8. QED
    BY <1>1, <2>3, <2>4, <2>7, Zenon DEF Reads, done
<1>5. CASE o # NarFromPath
  <2>1. Len(a) = Len(Reply(o))
    BY <1>1, <1>5, Zenon DEF AnswerConforms
  <2>2. AfterLast(o) = IF Len(a) = 0 THEN done ELSE At("reply", o, Len(a))
    <3>1. Reply(o) = << >> <=> Len(Reply(o)) = 0
      BY ReplyIsSeq, EmptySeq, Zenon
    <3>2. QED
      BY <1>5, <2>1, <3>1, Zenon DEF AfterLast
  <2> DEFINE f == [ i \in 0 .. Len(a) |->
                      IF i = Len(a) THEN done ELSE At("reply", o, Len(a) - i) ]
  <2>3. \A i \in 1 .. Len(a) :
          Move(Answering, At("reply", o, Len(a) + 1 - i), a[i],
               IF i = Len(a) THEN done ELSE At("reply", o, Len(a) - i))
    BY <1>1, <2>1, MovesInReply, Zenon
  <2> HIDE DEF done
  <2>4. f \in [ 0 .. Len(a) -> Places ]
    <3>1. \A i \in 0 .. Len(a) : i # Len(a) => At("reply", o, Len(a) - i) \in Places
      BY <1>2, SMT DEF At, Places, Parts
    <3>2. QED
      BY <1>3, <3>1, SMT
  <2>5. f[0] = AfterLast(o) /\ f[Len(a)] = done
    BY <1>2, <2>2, SMT
  <2>6. \A i \in 1 .. Len(a) :
          /\ f[i - 1] = At("reply", o, Len(a) + 1 - i)
          /\ f[i] = IF i = Len(a) THEN done ELSE At("reply", o, Len(a) - i)
    <3>1. ASSUME NEW i \in 1 .. Len(a)
          PROVE  /\ f[i - 1] = At("reply", o, Len(a) - (i - 1))
                 /\ Len(a) - (i - 1) = Len(a) + 1 - i
                 /\ f[i] = IF i = Len(a) THEN done ELSE At("reply", o, Len(a) - i)
      BY <1>2, SMT
    <3> HIDE DEF f
    <3>2. QED
      BY <3>1, Zenon
  <2> HIDE DEF f
  <2>7. \A i \in 1 .. Len(a) : Move(Answering, f[i - 1], a[i], f[i])
    BY <2>3, <2>6, Zenon
  <2>8. QED
    BY <1>1, <2>4, <2>5, <2>7, Zenon DEF Reads, done
<1>6. QED
  BY <1>4, <1>5

\* Last and an answer take the reader of messages to the end.
LEMMA ReadsAnswer ==
    ASSUME NEW o \in WorkerOp, NEW a \in Answers(o)
    PROVE  Reads(Answering, At("msg", o, 0), << Last >> \o a, At("done", o, 0))
<1> DEFINE start == At("msg", o, 0)
<1>1. start \in Places /\ start.part = "msg" /\ start.op = o /\ start.left = 0
  BY Atoms, SMT DEF Parts
<1>2. a \in Seq(Nat) /\ Reads(Answering, AfterLast(o), a, At("done", o, 0))
  BY ReadsReply, Zenon
<1>3. AfterLast(o) \in Places
  BY <1>2, ReadsEnds, Zenon
<1>4. Last \in Nat
  BY SMT DEF Last
<1> HIDE DEF start
<1>5. Move(Answering, start, Last, AfterLast(o))
  BY <1>1, <1>3, <1>4, MovesInAnswering, Zenon
<1>6. Reads(Answering, start, << Last >> \o a, At("done", o, 0))
  BY <1>1, <1>2, <1>4, <1>5, ReadsCons, Zenon
<1>7. QED
  BY <1>6, Zenon DEF start

-----------------------------------------------------------------------------
\* What the proxy holds.

LEMMA LosesHand ==
    ASSUME pc' \in { "op", "dead" }
    PROVE  InHand'
  BY DEF InHand

LEMMA FromClientInHand ==
    ASSUME IInv, InHand, FromClient
    PROVE  InHand'
<1> USE DEF IInv, TypeOK
<1>1. CASE ReceiveTag
  <2>1. op' \in WorkerOp /\ held' = << op' >> /\ pc' \in { "args", "sendop" }
        /\ (pc' = "args" => Body(op') # << >>)
    BY <1>1 DEF ReceiveTag
  <2>2. held' # << >> /\ Len(held') = 1
    BY <2>1
  <2>3. pc' = "args" => 1 <= Len(Body(op'))
    BY <2>1, BodyIsSeq, EmptySeq, LenProperties
  <2>4. QED
    BY <2>1, <2>2, <2>3 DEF InHand
<1>2. CASE ReceiveField
  <2>1. /\ op \in WorkerOp /\ op' = op /\ pc = "args" /\ held # << >>
        /\ Len(held) <= Len(Body(op))
        /\ pc' \in { "args", "sendop" } /\ (pc' = "args" => Len(held) # Len(Body(op)))
    BY <1>2, Zenon DEF ReceiveField, InHand
  <2>2. Head(c2p) \in Nat /\ Reencoded(Body(op)[Len(held)], Head(c2p)) \in Nat
    BY <1>2, HeadAndTail DEF ReceiveField, Reencoded
  <2>3. Len(held') = Len(held) + 1 /\ held' # << >>
    BY <1>2, <2>2, Appended DEF ReceiveField
  <2>4. Len(Body(op)) \in Nat /\ Len(held) \in Nat
    BY <2>1, BodyIsSeq, LenProperties
  <2>5. pc' = "args" => Len(held') <= Len(Body(op'))
    BY <2>1, <2>3, <2>4, SMT
  <2>6. QED
    BY <2>1, <2>3, <2>5, Zenon DEF InHand
<1>3. CASE ReceiveUndecodable \/ ReceiveEof
  <2>1. pc' = "op"
    BY <1>3, Zenon DEF ReceiveUndecodable, ReceiveEof, ReceiveFailed
  <2>2. QED
    BY <2>1, LosesHand
<1>4. CASE StreamingLength \/ GetStream
  <2>1. pc \in { "framelen", "framedata" } /\ op' = op
        /\ pc' \in { "sendlen", "framedata", "senddata" }
    BY <1>4, Zenon DEF StreamingLength, GetStream
  <2>2. QED
    BY <2>1, Zenon DEF InHand
<1>5. CASE StreamEof
  BY <1>5, LosesHand DEF StreamEof, Panic
<1>6. QED
  BY <1>1, <1>2, <1>3, <1>4, <1>5 DEF FromClient

LEMMA IntoDaemonInHand ==
    ASSUME IInv, InHand, IntoDaemon
    PROVE  InHand'
<1>1. CASE SendWorkerOp \/ StreamingWriteLen \/ StreamingWriteBuff
  <2>1. PICK next \in { "framelen", "msg", "framedata" } : WriteDaemon(next) /\ pc \in ToDaemon
    BY <1>1, Zenon DEF SendWorkerOp, StreamingWriteLen, StreamingWriteBuff, ToDaemon
  <2>2. held # << >>
    BY <2>1 DEF IInv, HeldFits
  <2>3. IF held' = << >> THEN pc' = next ELSE pc' = pc
    BY <2>1, <2>2, Written DEF IInv
  <2>4. op' = op
    BY <2>1 DEF WriteDaemon
  <2>5. QED
    BY <2>1, <2>3, <2>4 DEF InHand, ToDaemon
<1>2. CASE DaemonPipeBroken
  BY <1>2, LosesHand DEF DaemonPipeBroken, Panic
<1>3. QED
  BY <1>1, <1>2 DEF IntoDaemon

LEMMA FromDaemonInHand ==
    ASSUME IInv, InHand, FromDaemon
    PROVE  InHand'
<1> USE DEF IInv, TypeOK
<1>1. CASE ReadErrorMsg
  <2>1. /\ pc = "msg" /\ op' = op /\ d2p # << >> /\ held' = Append(held, Head(d2p))
        /\ held = << >> => Head(d2p) \in Msg
        /\ pc' \in { "msg", "sendlast", "sendmsg" }
        /\ pc' = "msg" => Len(held) < MsgFields(Head(held'))
    BY <1>1, Zenon DEF ReadErrorMsg
  <2>2. op \in WorkerOp
    BY <2>1 DEF InHand
  <2>3. Head(d2p) \in Nat /\ Len(held) \in Nat
    BY <2>1, HeadAndTail, LenProperties
  <2>4. Len(held') = Len(held) + 1
    BY <2>1, <2>3, Appended
  <2>5. Head(held') \in Msg
    <3>1. CASE held = << >>
      BY <2>1, <3>1
    <3>2. CASE held # << >>
      <4>1. Head(held') = Head(held)
        <5> DEFINE x == Head(d2p)
        <5>1. x \in Nat /\ held \in Seq(Nat)
          BY <2>3
        <5> HIDE DEF x
        <5>2. Head(Append(held, x)) = Head(held)
          BY <5>1, <3>2
        <5>3. QED
          BY <5>2, <2>1, Zenon DEF x
      <4>2. QED
        BY <2>1, <3>2, <4>1, Zenon DEF InHand
    <3>3. QED
      BY <3>1, <3>2
  <2>6. MsgFields(Head(held')) \in Nat
    BY <2>5, FieldsOfMessages
  <2>7. pc' = "msg" => Len(held') <= MsgFields(Head(held'))
    BY <2>1, <2>3, <2>4, <2>6, SMT
  <2>8. QED
    BY <2>1, <2>2, <2>5, <2>7, Zenon DEF InHand
<1>2. CASE ReadBuildResponse
  <2>1. /\ pc = "reply" /\ op' = op /\ op \in WorkerOp /\ d2p # << >>
        /\ Len(held) < Len(Reply(op))
        /\ pc' \in { "reply", "sendreply" }
        /\ pc' = "reply" => Len(held) + 1 # Len(Reply(op))
    BY <1>2, Zenon DEF ReadBuildResponse, InHand
  <2>2. Head(d2p) \in Nat /\ Reencoded(Reply(op)[Len(held) + 1], Head(d2p)) \in Nat
    BY <2>1, HeadAndTail DEF Reencoded
  <2>3. Len(held') = Len(held) + 1
    BY <1>2, <2>2, Appended DEF ReadBuildResponse
  <2>4. Len(Reply(op)) \in Nat /\ Len(held) \in Nat
    BY <2>1, ReplyIsSeq, LenProperties
  <2>5. pc' = "reply" => Len(held') < Len(Reply(op'))
    BY <2>1, <2>3, <2>4, SMT
  <2>6. QED
    BY <2>1, <2>5, Zenon DEF InHand
<1>3. CASE StreamNar
  <2>1. Len(held') = 1 /\ pc' = "sendnar" /\ op' = op
    BY <1>3 DEF StreamNar
  <2>2. op \in WorkerOp
    BY <1>3 DEF StreamNar, InHand
  <2>3. QED
    BY <2>1, <2>2, Zenon DEF InHand
<1>4. CASE ResponseUndecodable
  BY <1>4, LosesHand DEF ResponseUndecodable, Panic
<1>5. CASE DaemonEof
  <2>1. CASE Panic
    BY <2>1, LosesHand DEF Panic
  <2>2. CASE pc = "nar" /\ pc' = "spin" /\ op' = op
    BY <2>2 DEF InHand
  <2>3. QED
    BY <1>5, <2>1, <2>2 DEF DaemonEof
<1>6. QED
  BY <1>1, <1>2, <1>3, <1>4, <1>5 DEF FromDaemon

\* What the proxy turns to once it has written to the client.
LEMMA Passed ==
    ASSUME IInv, InHand, SendErrorToClient \/ WriteBuildResponse \/ WriteNar
    PROVE  \E next :
             /\ WriteClient(next) /\ held # << >>
             /\ IF held' = << >> THEN pc' = next ELSE pc' = pc
             /\ op' = op /\ op \in WorkerOp
             /\ \/ pc = "sendmsg" /\ next = "msg"
                \/ pc = "sendlast" /\ next = ToReply
                \/ pc = "sendreply" /\ next = "flush"
                \/ pc = "sendnar" /\ held' = << >>
                   /\ next = IF Head(held) = NarEnd THEN "flush" ELSE "nar"
<1>1. PICK next :
        /\ WriteClient(next)
        /\ \/ pc = "sendmsg" /\ next = "msg"
           \/ pc = "sendlast" /\ next = ToReply
           \/ pc = "sendreply" /\ next = "flush"
           \/ pc = "sendnar" /\ next = IF Head(held) = NarEnd THEN "flush" ELSE "nar"
  BY Zenon DEF SendErrorToClient, WriteBuildResponse, WriteNar
<1>2. pc \in ToClient
  BY <1>1 DEF ToClient
<1>3. held # << >>
  BY <1>2 DEF IInv, HeldFits
<1>4. IF held' = << >> THEN pc' = next ELSE pc' = pc
  BY <1>1, <1>3, Buffered DEF IInv
<1>5. op' = op /\ op \in WorkerOp
  BY <1>1, <1>2 DEF WriteClient, InHand, ToClient
<1>6. pc = "sendnar" => held' = << >>
  <2>1. Len(held) = 1 <=> Tail(held) = << >>
    BY <1>3, HeadAndTail DEF IInv, TypeOK
  <2>2. QED
    BY <1>1, <2>1, Zenon DEF InHand, WriteClient
<1>7. QED
  BY <1>1, <1>3, <1>4, <1>5, <1>6, Zenon

LEMMA IntoClientInHand ==
    ASSUME IInv, InHand, IntoClient
    PROVE  InHand'
<1>1. CASE SendErrorToClient \/ WriteBuildResponse \/ WriteNar
  <2>1. PICK next :
          /\ IF held' = << >> THEN pc' = next ELSE pc' = pc
          /\ op' = op /\ op \in WorkerOp
          /\ \/ pc = "sendmsg" /\ next = "msg"
             \/ pc = "sendlast" /\ next = ToReply
             \/ pc = "sendreply" /\ next = "flush"
             \/ pc = "sendnar" /\ held' = << >>
                /\ next = IF Head(held) = NarEnd THEN "flush" ELSE "nar"
    BY <1>1, Passed, Zenon
  <2>2. next = "reply" => Reply(op) # << >>
    BY <2>1 DEF ToReply
  <2>3. next = "reply" => 0 < Len(Reply(op))
    BY <2>1, <2>2, ReplyIsSeq, EmptySeq, LenProperties
  <2>4. held' = << >> => Len(held') = 0
    OBVIOUS
  <2>5. pc' = "reply" => pc' = next /\ held' = << >>
    BY <2>1, Zenon
  <2>6. pc' # "args" /\ (pc' = "msg" => held' = << >>) /\ pc' # "sendnar"
    BY <2>1, Zenon DEF ToReply
  <2>7. QED
    BY <2>1, <2>3, <2>4, <2>5, <2>6, SMT DEF InHand
<1>2. CASE Spill \/ FlushTxToClient
  BY <1>2 DEF InHand, Spill, FlushTxToClient
<1>3. CASE NextRound
  BY <1>3, LosesHand DEF NextRound
<1>4. QED
  BY <1>1, <1>2, <1>3 DEF IntoClient

\* The steps of the others leave the proxy where it is.
LEMMA OthersLeaveProxy ==
    ASSUME Client \/ Daemon \/ Rest \/ UNCHANGED vars
    PROVE  UNCHANGED proxyVars
  BY Zenon DEF Client, ClientSend, ClientRead, ClientDone, ClientGone,
     Daemon, DaemonReadTag, DaemonReadField, DaemonReadLength, DaemonReadByte,
     DaemonLog, DaemonAnswer, DaemonWrite, DaemonGone, Rest, vars

LEMMA InHandInductive ==
    ASSUME IInv, InHand, [Next]_vars
    PROVE  InHand'
<1>1. CASE FromClient \/ IntoDaemon \/ FromDaemon \/ IntoClient
  BY <1>1, FromClientInHand, IntoDaemonInHand, FromDaemonInHand, IntoClientInHand
<1>2. CASE WriteOut
  <2>1. CASE Drain
    BY <2>1 DEF InHand, Drain
  <2>2. CASE ClientPipeBroken
    BY <2>2, LosesHand DEF ClientPipeBroken
  <2>3. QED
    BY <1>2, <2>1, <2>2 DEF WriteOut
<1>3. CASE Client \/ Daemon \/ Rest \/ UNCHANGED vars
  BY <1>3, OthersLeaveProxy DEF InHand
<1>4. QED
  BY <1>1, <1>2, <1>3 DEF Next, Proxy, ProxyNext

LEMMA GoneInductive ==
    ASSUME Gone, [Next]_vars
    PROVE  Gone'
<1>1. CASE Proxy
  <2>1. dtodo' = dtodo /\ daemonUp' = daemonUp
    BY <1>1, Zenon DEF Proxy, ProxyNext, FromClient, IntoDaemon, FromDaemon, IntoClient, WriteOut,
       ReceiveTag, ReceiveField, ReceiveUndecodable, ReceiveEof, ReceiveFailed, StreamingLength,
       GetStream, StreamEof, SendWorkerOp, StreamingWriteLen, StreamingWriteBuff, WriteDaemon,
       DaemonPipeBroken, ReadErrorMsg, ReadBuildResponse, ResponseUndecodable, StreamNar,
       DaemonEof, SendErrorToClient, WriteBuildResponse, WriteNar, WriteClient, Spill,
       FlushTxToClient, NextRound, Drain, ClientPipeBroken, Panic
  <2>2. p2d' = p2d \/ daemonUp
    BY <1>1, Zenon DEF Proxy, ProxyNext, FromClient, IntoDaemon, FromDaemon, IntoClient, WriteOut,
       ReceiveTag, ReceiveField, ReceiveUndecodable, ReceiveEof, ReceiveFailed, StreamingLength,
       GetStream, StreamEof, SendWorkerOp, StreamingWriteLen, StreamingWriteBuff, WriteDaemon,
       DaemonPipeBroken, ReadErrorMsg, ReadBuildResponse, ResponseUndecodable, StreamNar,
       DaemonEof, SendErrorToClient, WriteBuildResponse, WriteNar, WriteClient, Spill,
       FlushTxToClient, NextRound, Drain, ClientPipeBroken, Panic
  <2>3. QED
    BY <2>1, <2>2, Zenon DEF Gone
<1>2. CASE Daemon
  <2>1. CASE DaemonGone
    BY <2>1, Zenon DEF DaemonGone, Gone
  <2>2. CASE ~ DaemonGone
    <3>1. daemonUp /\ daemonUp' = daemonUp
      BY <1>2, <2>2, Zenon DEF Daemon, DaemonReady, DaemonReadTag, DaemonReadField,
         DaemonReadLength, DaemonReadByte, DaemonLog, DaemonAnswer, DaemonWrite
    <3>2. QED
      BY <3>1, Zenon DEF Gone
  <2>3. QED
    BY <2>1, <2>2
<1>3. CASE Client \/ Rest \/ UNCHANGED vars
  BY <1>3, Zenon DEF Client, ClientSend, ClientRead, ClientDone, ClientGone, Rest, vars, Gone
<1>4. QED
  BY <1>1, <1>2, <1>3 DEF Next

-----------------------------------------------------------------------------
\* Where the ends are.

LEMMA EndsStay ==
    ASSUME UNCHANGED << pc, op, held, left >>
    PROVE  /\ AskedAt' = AskedAt /\ ReadAt' = ReadAt /\ heldUp' = heldUp
           /\ UNCHANGED << dpc, dneed >> => DaemonAt' = DaemonAt
  BY Zenon DEF AskedAt, ReadAt, heldUp, DaemonAt

LEMMA SentStays ==
    ASSUME Sent, UNCHANGED << p2d, daemonUp >>, DaemonAt' = DaemonAt, AskedAt' = AskedAt,
           heldUp' = heldUp
    PROVE  Sent'
  BY Zenon DEF Sent

LEMMA LoggedStays ==
    ASSUME Logged, UNCHANGED << d2p, dtodo, daemonUp, op >>, ReadAt' = ReadAt
    PROVE  Logged'
  BY Zenon DEF Logged

LEMMA ToldStays ==
    ASSUME Told, UNCHANGED << d2p, dtodo, daemonUp, op >>, ReadAt' = ReadAt
    PROVE  Told'
  BY Zenon DEF Told

LEMMA AgreeStays ==
    ASSUME Agree, UNCHANGED << pc, op, held, left, p2d, d2p, dtodo, dpc, dop, dneed, daemonUp >>
    PROVE  Agree'
<1>1. /\ AskedAt' = AskedAt /\ ReadAt' = ReadAt /\ heldUp' = heldUp
      /\ DaemonAt' = DaemonAt
  BY EndsStay, Zenon
<1>2. Asked => Asked'
  <2>1. (Sent => Sent') /\ (Logged => Logged')
    BY <1>1, SentStays, LoggedStays, Zenon
  <2>2. QED
    BY <2>1, Zenon DEF Asked
<1>3. Answered => Answered'
  <2>1. Told => Told'
    BY <1>1, ToldStays, Zenon
  <2>2. QED
    BY <2>1, Zenon DEF Answered
<1>4. QED
  BY <1>2, <1>3, Zenon DEF Agree

LEMMA AgreeDead ==
    ASSUME pc' = "dead"
    PROVE  Agree'
  BY DEF Agree

LEMMA AgreeOpen ==
    ASSUME Agree, pc \notin { "dead", "spin" }
    PROVE  Asked \/ Answered
  BY DEF Agree

LEMMA AgreeAgain ==
    ASSUME Asked' \/ Answered'
    PROVE  Agree'
<1>1. pc' \notin { "dead", "spin" }
  BY DEF Asked, Answered, WaitsForClient, ToClient, ToDaemon
<1>2. QED
  BY <1>1, Zenon DEF Agree

-----------------------------------------------------------------------------
\* The proxy takes in an operation.

\* It can do so only while the daemon has not answered.
LEMMA AskedFirst ==
    ASSUME Agree, pc \in WaitsForClient
    PROVE  Asked
  BY DEF Agree, Answered, WaitsForClient, ToClient, ToDaemon

\* Between operations, and while the fields are read, the daemon waits.
LEMMA AtRest ==
    ASSUME Asked, pc \in { "op", "args" }
    PROVE  dpc = "op" /\ p2d = << >> /\ d2p = << >> /\ dtodo = << >>
  BY DEF Asked

\* The daemon waits for an operation of which nothing has come.
LEMMA LoggedAtFirst ==
    ASSUME op' \in WorkerOp \cup { NoOp }, d2p' = << >>, dtodo' = << >>,
           ReadAt' = At("msg", op', 0)
    PROVE  Logged'
<1>1. At("msg", op', 0) \in Places
  BY Atoms, SMT DEF Parts
<1>2. ReadsBoth(Logging, At("msg", op', 0), << >>, << >>, At("msg", op', 0))
  BY <1>1, BothNothing, Zenon
<1>3. << >> \in Seq(Nat)
  OBVIOUS
<1>4. QED
  BY <1>2, <1>3, Zenon DEF Logged

LEMMA ReceiveFailedAgrees ==
    ASSUME IInv, Agree, pc \in { "op", "args" }, ReceiveFailed, UNCHANGED daemonVars
    PROVE  Agree'
<1>1. Asked
  BY AskedFirst DEF WaitsForClient
<1>2. dpc = "op" /\ p2d = << >> /\ d2p = << >> /\ dtodo = << >>
  BY <1>1, AtRest
<1>3. pc' = "op" /\ op' = NoOp /\ held' = << >> /\ UNCHANGED << p2d, d2p, dtodo, dpc, daemonUp >>
  BY Zenon DEF ReceiveFailed
<1> DEFINE start == At("op", op', 0)
<1>4. start \in Places
  BY <1>3, Atoms, SMT DEF Parts
<1>5. DaemonAt' = start /\ AskedAt' = start /\ heldUp' = << >> /\ ReadAt' = At("msg", op', 0)
  BY <1>2, <1>3, SMT DEF DaemonAt, AskedAt, heldUp, ReadAt
<1> HIDE DEF start
<1>6. Sent'
  <2>1. ReadsBoth(Asking, start, << >>, << >>, start)
    BY <1>4, BothNothing, Zenon
  <2>2. QED
    BY <1>2, <1>3, <1>5, <2>1, Zenon DEF Sent
<1>7. Logged'
  BY <1>2, <1>3, <1>5, LoggedAtFirst, Zenon
<1>8. Asked'
  BY <1>2, <1>3, <1>6, <1>7, Zenon DEF Asked, WaitsForClient
<1>9. QED
  BY <1>8, AgreeAgain

\* The opcode takes it to where the fields start.
LEMMA TagTaken ==
    ASSUME IInv, ReceiveTag
    PROVE  /\ AskedAt' = AfterTag(Head(c2p)) /\ AskedAt' \in Places
           /\ heldUp' = << Head(c2p) >> /\ Head(c2p) \in Nat
<1> DEFINE w == Head(c2p)
<1>1. /\ w \in WorkerOp /\ op' = w /\ held' = << w >>
      /\ pc' = IF Body(w) = << >> THEN "sendop" ELSE "args"
  BY Zenon DEF ReceiveTag
<1>2. w \in Nat
  BY HeadAndTail DEF ReceiveTag, IInv, TypeOK
<1> HIDE DEF w
<1>3. AfterTag(w) \in Places
  <2>1. Len(Body(w)) \in Nat /\ AfterFields(w) \in Parts /\ "args" \in Parts
    BY <1>1, BodyIsSeq, LenProperties, Framing, SMT DEF Parts
  <2>2. QED
    BY <1>1, <2>1, Atoms, SMT DEF AfterTag
<1>4. heldUp' = << w >>
  BY <1>1 DEF heldUp, WaitsForClient, ToDaemon
<1>5. AskedAt' = AfterTag(w)
  <2>1. Len(held') = 1
    BY <1>1
  <2>2. Len(Body(w)) + 1 - Len(held') = Len(Body(w))
    BY <1>1, <2>1, BodyIsSeq, LenProperties
  <2>3. QED
    BY <1>1, <2>2, SMT DEF AskedAt, AfterTag
<1>6. QED
  BY <1>2, <1>3, <1>4, <1>5, Zenon DEF w

LEMMA ReceiveTagAgrees ==
    ASSUME IInv, Agree, ReceiveTag, UNCHANGED daemonVars
    PROVE  Agree'
<1> DEFINE w == Head(c2p)
<1>1. Asked /\ pc = "op"
  BY AskedFirst DEF WaitsForClient, ReceiveTag
<1>2. dpc = "op" /\ p2d = << >> /\ d2p = << >> /\ dtodo = << >>
  BY <1>1, AtRest
<1>3. /\ w \in WorkerOp /\ op' = w /\ held' = << w >> /\ pc' \in { "sendop", "args" }
      /\ UNCHANGED << p2d, d2p, dtodo, dpc, dop, daemonUp >>
  BY Zenon DEF ReceiveTag
<1>4. /\ AskedAt' = AfterTag(w) /\ AfterTag(w) \in Places /\ heldUp' = << w >> /\ w \in Nat
  BY TagTaken, Zenon
<1> HIDE DEF w
<1> DEFINE start == At("op", w, 0)
<1>5. start \in Places /\ start.part = "op" /\ start.op = w
  BY <1>3, Atoms, SMT DEF Parts
<1>6. DaemonAt' = start /\ ReadAt' = At("msg", op', 0)
  BY <1>2, <1>3, SMT DEF DaemonAt, ReadAt
<1> HIDE DEF start
<1>7. Move(Asking, start, w, AfterTag(w))
  BY <1>3, <1>4, <1>5, MovesInAsking, Zenon
<1>8. Sent'
  <2>1. ReadsBoth(Asking, start, << >>, << >>, start)
    BY <1>5, BothNothing, Zenon
  <2>2. << >> \in Seq(Nat) /\ Append(<< >>, w) = << w >>
    BY <1>4, SMT
  <2>3. ReadsBoth(Asking, start, << >>, Append(<< >>, w), AfterTag(w))
    BY <1>4, <1>7, <2>1, <2>2, BothMore, Zenon
  <2>4. QED
    BY <1>2, <1>3, <1>4, <1>6, <2>2, <2>3, Zenon DEF Sent
<1>9. Logged'
  BY <1>2, <1>3, <1>6, LoggedAtFirst, Zenon
<1>10. Asked'
  BY <1>2, <1>3, <1>8, <1>9, Zenon DEF Asked, WaitsForClient, ToDaemon
<1>11. QED
  BY <1>10, AgreeAgain

\* What the proxy takes in of an operation, the daemon is to read.
LEMMA SentMore ==
    ASSUME IInv, Sent, NEW x \in Nat, heldUp \in Seq(Nat), heldUp' = Append(heldUp, x),
           AskedAt' \in Places, Move(Asking, AskedAt, x, AskedAt'),
           UNCHANGED << p2d, daemonUp >>, DaemonAt' = DaemonAt
    PROVE  Sent'
<1>1. daemonUp => ReadsBoth(Asking, DaemonAt, p2d, Append(heldUp, x), AskedAt')
  BY BothMore, Zenon DEF Sent
<1>2. QED
  BY <1>1, Zenon DEF Sent

LEMMA TakenInAgrees ==
    ASSUME IInv, Asked, pc \in { "args", "framelen", "framedata" },
           pc' \in { "args", "sendop", "sendlen", "framedata", "senddata" },
           pc' \in { "args", "sendop" } => pc = "args",
           UNCHANGED << op, p2d, d2p, ends, daemonVars >>, NEW x \in Nat,
           heldUp' = Append(heldUp, x), Move(Asking, AskedAt, x, AskedAt')
    PROVE  Agree'
<1>1. heldUp \in Seq(Nat)
  BY DEF heldUp, IInv, TypeOK
<1>2. AskedAt' \in Places
  BY MovesBetween, Zenon
<1>3. DaemonAt' = DaemonAt
  BY Zenon DEF DaemonAt
<1>4. Sent'
  BY <1>1, <1>2, <1>3, SentMore, Zenon DEF Asked
<1>5. ReadAt' = ReadAt
  BY SMT DEF ReadAt
<1>6. Logged'
  BY <1>5, LoggedStays, Zenon DEF Asked
<1>7. Asked'
  BY <1>4, <1>6, Zenon DEF Asked, WaitsForClient, ToDaemon
<1>8. QED
  BY <1>7, AgreeAgain

\* A field takes it to the next.
LEMMA FieldTaken ==
    ASSUME IInv, InHand, ReceiveField
    PROVE  /\ AskedAt \in Places /\ AskedAt.part = "args" /\ AskedAt.op = op
           /\ AskedAt.left = Len(Body(op)) + 1 - Len(held)
           /\ Len(Body(op)) + 1 - AskedAt.left = Len(held)
           /\ AskedAt' \in Places
           /\ AskedAt' = IF AskedAt.left = 1 THEN At(AfterFields(op), op, 0)
                         ELSE At("args", op, AskedAt.left - 1)
           /\ Head(c2p) \in Nat /\ Reencoded(Body(op)[Len(held)], Head(c2p)) \in Nat
<1> DEFINE x == Reencoded(Body(op)[Len(held)], Head(c2p))
<1>1. pc = "args" /\ op \in WorkerOp /\ held # << >> /\ Len(held) <= Len(Body(op))
  BY DEF ReceiveField, InHand
<1>2. /\ held' = Append(held, x) /\ op' = op
      /\ pc' = IF Len(held) = Len(Body(op)) THEN "sendop" ELSE "args"
  BY Zenon DEF ReceiveField
<1>3. Head(c2p) \in Nat /\ x \in Nat /\ held \in Seq(Nat)
  BY HeadAndTail DEF ReceiveField, IInv, TypeOK, Reencoded
<1> HIDE DEF x
<1>4. /\ Len(held) \in Nat \ { 0 } /\ Len(held') = Len(held) + 1 /\ Len(Body(op)) \in Nat
  BY <1>1, <1>2, <1>3, Appended, EmptySeq, LenProperties, BodyIsSeq
<1> DEFINE k == Len(Body(op)) + 1 - Len(held)
           a == At("args", op, k)
           b == IF k = 1 THEN At(AfterFields(op), op, 0) ELSE At("args", op, k - 1)
<1>5. k \in Nat /\ (k # 1 => k - 1 \in Nat) /\ (k = 1 <=> Len(held) = Len(Body(op)))
      /\ Len(Body(op)) + 1 - k = Len(held)
  BY <1>1, <1>4, SMT
<1>6. Len(Body(op')) + 1 - Len(held') = k - 1
  BY <1>2, <1>4, SMT
<1> HIDE DEF k
<1>7. AskedAt = a
  BY <1>1, SMT DEF AskedAt, k
<1>8. AskedAt' = b
  <2>1. CASE k = 1
    <3>1. pc' = "sendop"
      BY <2>1, <1>2, <1>5
    <3>2. QED
      BY <2>1, <3>1, <1>2, SMT DEF AskedAt
  <2>2. CASE k # 1
    <3>1. pc' = "args"
      BY <2>2, <1>2, <1>5
    <3>2. AskedAt' = At("args", op, Len(Body(op')) + 1 - Len(held'))
      BY <3>1, <1>2, SMT DEF AskedAt
    <3>3. QED
      BY <2>2, <3>2, <1>6, Zenon
  <2>3. QED
    BY <2>1, <2>2
<1>9. a \in Places /\ a.part = "args" /\ a.op = op /\ a.left = k
  BY <1>1, <1>5, SMT DEF At, Places, Parts
<1>10. b \in Places
  <2>1. AfterFields(op) \in Parts /\ "args" \in Parts
    BY Framing, SMT DEF Parts
  <2>2. QED
    BY <1>1, <1>5, <2>1, SMT DEF At, Places
<1> HIDE DEF a
<1>11. b = IF a.left = 1 THEN At(AfterFields(op), op, 0) ELSE At("args", op, a.left - 1)
  BY <1>9, Zenon
<1> HIDE DEF b
<1>12. a.left = Len(Body(op)) + 1 - Len(held)
  BY <1>9, Zenon DEF k
<1>13. Len(Body(op)) + 1 - a.left = Len(held)
  BY <1>5, <1>9, Zenon
<1>14. QED
  BY <1>3, <1>7, <1>8, <1>9, <1>10, <1>11, <1>12, <1>13, Zenon DEF x

LEMMA ReceiveFieldAgrees ==
    ASSUME IInv, InHand, Agree, ReceiveField, UNCHANGED daemonVars
    PROVE  Agree'
<1> DEFINE x == Reencoded(Body(op)[Len(held)], Head(c2p))
<1>1. Asked /\ pc = "args"
  BY AskedFirst DEF WaitsForClient, ReceiveField
<1>2. /\ held' = Append(held, x) /\ UNCHANGED << op, p2d, d2p, ends, daemonVars >>
      /\ pc' \in { "args", "sendop" }
  BY Zenon DEF ReceiveField
<1>3. heldUp' = Append(heldUp, x)
  BY <1>1, <1>2, SMT DEF heldUp, WaitsForClient, ToDaemon
<1>4. x \in Nat /\ Move(Asking, AskedAt, x, AskedAt')
  BY FieldTaken, MovesInAsking, Zenon
<1> HIDE DEF x
<1>5. QED
  BY <1>1, <1>2, <1>3, <1>4, TakenInAgrees, Zenon

\* A length takes it into a frame, or to the end of the operation.
LEMMA LengthTaken ==
    ASSUME IInv, InHand, StreamingLength
    PROVE  /\ AskedAt \in Places /\ AskedAt.part = "framelen" /\ AskedAt.op = op
           /\ AskedAt' \in Places
           /\ AskedAt' = IF Head(c2p) = 0 THEN At("work", op, 0) ELSE At("framedata", op, Head(c2p))
           /\ Head(c2p) \in Nat
<1> DEFINE x == Head(c2p)
<1>1. pc = "framelen" /\ op \in WorkerOp /\ op' = op /\ left' = x /\ pc' = "sendlen"
  BY Zenon DEF StreamingLength, InHand
<1>2. x \in Nat
  BY HeadAndTail DEF StreamingLength, IInv, TypeOK
<1> HIDE DEF x
<1> DEFINE a == At("framelen", op, 0)
           b == IF x = 0 THEN At("work", op, 0) ELSE At("framedata", op, x)
<1>3. AskedAt = a /\ AskedAt' = b
  BY <1>1, SMT DEF AskedAt
<1>4. a \in Places /\ a.part = "framelen" /\ a.op = op /\ b \in Places
  BY <1>1, <1>2, SMT DEF At, Places, Parts
<1> HIDE DEF a
<1>5. QED
  BY <1>2, <1>3, <1>4, Zenon DEF x

LEMMA StreamingLengthAgrees ==
    ASSUME IInv, InHand, Agree, StreamingLength, UNCHANGED daemonVars
    PROVE  Agree'
<1> DEFINE x == Head(c2p)
<1>1. Asked /\ pc = "framelen" /\ held = << >>
  BY AskedFirst DEF WaitsForClient, StreamingLength, IInv, HeldFits
<1>2. /\ held' = << x >> /\ pc' = "sendlen"
      /\ UNCHANGED << op, p2d, d2p, ends, daemonVars >>
  BY Zenon DEF StreamingLength
<1>3. x \in Nat /\ Move(Asking, AskedAt, x, AskedAt')
  BY LengthTaken, MovesInAsking, Zenon
<1> HIDE DEF x
<1>4. heldUp' = Append(heldUp, x)
  BY <1>1, <1>2, <1>3, SMT DEF heldUp, WaitsForClient, ToDaemon
<1>5. QED
  BY <1>1, <1>2, <1>3, <1>4, TakenInAgrees, Zenon

\* A byte takes it to the next, or to the next frame.
LEMMA ByteTaken ==
    ASSUME IInv, InHand, GetStream
    PROVE  /\ AskedAt \in Places /\ AskedAt.part = "framedata" /\ AskedAt.op = op
           /\ AskedAt' \in Places
           /\ AskedAt' = IF AskedAt.left = 1 THEN At("framelen", op, 0)
                         ELSE At("framedata", op, AskedAt.left - 1)
           /\ Head(c2p) \in Nat
<1> DEFINE x == Head(c2p)
<1>1. pc = "framedata" /\ op \in WorkerOp
  BY DEF GetStream, InHand
<1>2. /\ held' = Append(held, x) /\ left' = left /\ op' = op
      /\ pc' = IF Len(held) + 1 = ChunkLen THEN "senddata" ELSE "framedata"
  BY Zenon DEF GetStream
<1>3. x \in Nat /\ held \in Seq(Nat) /\ left \in Nat
  BY HeadAndTail DEF GetStream, IInv, TypeOK
<1> HIDE DEF x
<1>4. Len(held) \in Nat /\ Len(held') = Len(held) + 1
  BY <1>2, <1>3, Appended, LenProperties
<1>5. ChunkLen \in Nat /\ ChunkLen <= left /\ Len(held) < ChunkLen
  BY <1>1, <1>3, CapacityAssumption DEF ChunkLen, IInv, HeldFits
<1> DEFINE k == left - Len(held)
           a == At("framedata", op, k)
           b == IF k = 1 THEN At("framelen", op, 0) ELSE At("framedata", op, k - 1)
<1>6. /\ k \in Nat /\ (k # 1 => k - 1 \in Nat) /\ (k = 1 <=> left' = Len(held'))
      /\ k = 1 => pc' = "senddata"
      /\ left' - Len(held') = k - 1
  BY <1>2, <1>3, <1>4, <1>5, SMT
<1> HIDE DEF k
<1>7. AskedAt = a
  BY <1>1, SMT DEF AskedAt, k
<1>8. AskedAt' = b
  <2>1. CASE k = 1
    BY <2>1, <1>2, <1>6, SMT DEF AskedAt
  <2>2. CASE k # 1
    <3>1. AskedAt' = At("framedata", op, left' - Len(held'))
      BY <2>2, <1>2, <1>6, SMT DEF AskedAt
    <3>2. QED
      BY <2>2, <3>1, <1>6, Zenon
  <2>3. QED
    BY <2>1, <2>2
<1>9. a \in Places /\ a.part = "framedata" /\ a.op = op /\ a.left = k /\ b \in Places
  BY <1>1, <1>6, SMT DEF At, Places, Parts
<1> HIDE DEF a
<1>10. b = IF a.left = 1 THEN At("framelen", op, 0) ELSE At("framedata", op, a.left - 1)
  BY <1>9, Zenon
<1> HIDE DEF b
<1>11. QED
  BY <1>3, <1>7, <1>8, <1>9, <1>10, Zenon DEF x

LEMMA GetStreamAgrees ==
    ASSUME IInv, InHand, Agree, GetStream, UNCHANGED daemonVars
    PROVE  Agree'
<1> DEFINE x == Head(c2p)
<1>1. Asked /\ pc = "framedata"
  BY AskedFirst DEF WaitsForClient, GetStream
<1>2. /\ held' = Append(held, x) /\ pc' \in { "framedata", "senddata" }
      /\ UNCHANGED << op, p2d, d2p, ends, daemonVars >>
  BY Zenon DEF GetStream
<1>3. x \in Nat /\ Move(Asking, AskedAt, x, AskedAt')
  BY ByteTaken, MovesInAsking, Zenon
<1> HIDE DEF x
<1>4. heldUp' = Append(heldUp, x)
  BY <1>1, <1>2, SMT DEF heldUp, WaitsForClient, ToDaemon
<1>5. QED
  BY <1>1, <1>2, <1>3, <1>4, TakenInAgrees, Zenon

-----------------------------------------------------------------------------
\* The proxy writes to the daemon.

\* A write to the daemon moves the first of what is held to its pipe, and
\* leaves the proxy where it will be once all of it is written.
LEMMA WriteStays ==
    ASSUME IInv, SendWorkerOp \/ StreamingWriteLen \/ StreamingWriteBuff
    PROVE  /\ AskedAt' = AskedAt
           /\ daemonUp /\ held # << >>
           /\ p2d' = Append(p2d, Head(held)) /\ held' = Tail(held)
           /\ heldUp = held /\ heldUp' = held'
           /\ UNCHANGED << c2p, d2p, p2c, ends, op, out, due, failed >>
           /\ pc \in ToDaemon
           /\ pc' \in ToDaemon \cup { "framelen", "framedata", "msg" }
<1>1. /\ pc \in ToDaemon /\ daemonUp /\ p2d' = Append(p2d, Head(held)) /\ held' = Tail(held)
      /\ UNCHANGED << c2p, d2p, p2c, ends, op, out, due, failed >>
  BY Zenon DEF SendWorkerOp, StreamingWriteLen, StreamingWriteBuff, WriteDaemon, ToDaemon
<1>2. held # << >> /\ held \in Seq(Nat) /\ left \in Nat
  BY <1>1 DEF IInv, HeldFits, TypeOK
<1>3. Len(held) \in Nat \ { 0 } /\ Len(Tail(held)) = Len(held) - 1
      /\ (Len(held) = 1 <=> Tail(held) = << >>)
  BY <1>2, HeadAndTail, LenProperties, EmptySeq
<1>4. pc' = IF held' = << >> THEN pc' ELSE pc
  BY <1>1, <1>3, Zenon DEF SendWorkerOp, StreamingWriteLen, StreamingWriteBuff, WriteDaemon
<1>5. pc' \in ToDaemon \cup { "framelen", "framedata", "msg" }
  BY <1>1, Zenon DEF SendWorkerOp, StreamingWriteLen, StreamingWriteBuff, WriteDaemon
<1>6. heldUp = held /\ heldUp' = held'
  <2>1. heldUp = held
    BY <1>1, Zenon DEF heldUp, WaitsForClient
  <2>2. pc' = "msg" => held' = << >>
    BY <1>1, <1>4 DEF ToDaemon
  <2>3. pc' # "msg" => pc' \in WaitsForClient
    BY <1>5 DEF WaitsForClient
  <2>4. QED
    BY <2>1, <2>2, <2>3, Zenon DEF heldUp
<1>7. AskedAt' = AskedAt
  <2>1. CASE SendWorkerOp
    <3>1. /\ WriteDaemon(IF RequiresStreaming(op) THEN "framelen" ELSE "msg") /\ pc = "sendop"
          /\ held' = Tail(held) /\ op' = op
          /\ pc' = IF Len(held) = 1 THEN (IF RequiresStreaming(op) THEN "framelen" ELSE "msg")
                   ELSE pc
      BY <2>1, Zenon DEF SendWorkerOp, WriteDaemon
    <3>2. AskedAt' = AskedAt
      BY <3>1, SMT DEF AskedAt, AfterFields
    <3>3. QED
      BY <3>2
  <2>2. CASE StreamingWriteLen
    <3>1. /\ pc = "sendlen" /\ held' = Tail(held) /\ op' = op /\ left' = left
          /\ pc' = IF Len(held) = 1 THEN (IF left = 0 THEN "msg" ELSE "framedata") ELSE pc
      BY <2>2, Zenon DEF StreamingWriteLen, WriteDaemon
    <3>2. AskedAt' = AskedAt
      <4>1. CASE Len(held) # 1
        BY <3>1, <4>1, SMT DEF AskedAt
      <4>2. CASE Len(held) = 1 /\ left = 0
        BY <3>1, <4>2, SMT DEF AskedAt
      <4>3. CASE Len(held) = 1 /\ left # 0
        <5>1. pc' = "framedata" /\ left' - Len(held') = left
          BY <1>2, <1>3, <3>1, <4>3, SMT
        <5>2. AskedAt' = At("framedata", op, left' - Len(held'))
          BY <3>1, <5>1, SMT DEF AskedAt
        <5>3. AskedAt = At("framedata", op, left)
          BY <3>1, <4>3, SMT DEF AskedAt
        <5>4. QED
          BY <5>1, <5>2, <5>3, Zenon
      <4>4. QED
        BY <4>1, <4>2, <4>3
    <3>3. QED
      BY <3>2
  <2>3. CASE StreamingWriteBuff
    <3>1. /\ pc = "senddata" /\ held' = Tail(held) /\ op' = op /\ left' = left - 1
          /\ pc' = IF Len(held) = 1 THEN (IF left = 1 THEN "framelen" ELSE "framedata") ELSE pc
      BY <2>3, Zenon DEF StreamingWriteBuff, WriteDaemon
    <3>2. left' - Len(held') = left - Len(held) /\ (left' = Len(held') <=> left = Len(held))
      BY <1>2, <1>3, <3>1, SMT
    <3>3. AskedAt = IF left = Len(held) THEN At("framelen", op, 0)
                    ELSE At("framedata", op, left - Len(held))
      BY <3>1, SMT DEF AskedAt
    <3>4. AskedAt' = AskedAt
      <4>1. CASE Len(held) # 1
        <5>1. AskedAt' = IF left' = Len(held') THEN At("framelen", op, 0)
                         ELSE At("framedata", op, left' - Len(held'))
          BY <3>1, <4>1, SMT DEF AskedAt
        <5>2. QED
          BY <3>2, <3>3, <5>1, Zenon
      <4>2. CASE Len(held) = 1 /\ left = 1
        <5>1. AskedAt' = At("framelen", op, 0)
          BY <3>1, <4>2, SMT DEF AskedAt
        <5>2. QED
          BY <3>3, <4>2, <5>1, Zenon
      <4>3. CASE Len(held) = 1 /\ left # 1
        <5>1. AskedAt' = At("framedata", op, left' - Len(held'))
          BY <3>1, <4>3, SMT DEF AskedAt
        <5>2. QED
          BY <3>2, <3>3, <4>3, <5>1, Zenon
      <4>4. QED
        BY <4>1, <4>2, <4>3
    <3>5. QED
      BY <3>4
  <2>4. QED
    BY <2>1, <2>2, <2>3
<1>8. QED
  BY <1>1, <1>2, <1>5, <1>6, <1>7

LEMMA IntoDaemonAgrees ==
    ASSUME IInv, Agree, IntoDaemon, UNCHANGED daemonVars
    PROVE  Agree'
<1>1. CASE DaemonPipeBroken
  BY <1>1, AgreeDead DEF DaemonPipeBroken, Panic
<1>2. CASE SendWorkerOp \/ StreamingWriteLen \/ StreamingWriteBuff
  <2>1. /\ AskedAt' = AskedAt
        /\ daemonUp /\ held # << >>
        /\ p2d' = Append(p2d, Head(held)) /\ held' = Tail(held)
        /\ heldUp = held /\ heldUp' = held'
        /\ UNCHANGED << d2p, ends, op >>
        /\ pc \in ToDaemon
        /\ pc' \in ToDaemon \cup { "framelen", "framedata", "msg" }
    BY <1>2, WriteStays, Zenon
  <2>2. Asked
    BY <2>1, AskedFirst DEF WaitsForClient
  <2>3. DaemonAt' = DaemonAt
    BY <2>1, Zenon DEF DaemonAt
  <2>4. Sent'
    <3>1. p2d \in Seq(Nat) /\ held \in Seq(Nat)
      BY DEF IInv, TypeOK
    <3>2. ReadsBoth(Asking, DaemonAt, p2d, held, AskedAt)
      BY <2>1, <2>2, Zenon DEF Asked, Sent
    <3>3. ReadsBoth(Asking, DaemonAt, p2d', held', AskedAt)
      BY <2>1, <3>1, <3>2, BothPass, Zenon
    <3>4. QED
      BY <2>1, <2>3, <3>3, Zenon DEF Sent
  <2>5. ReadAt' = ReadAt
    <3>1. pc' = "msg" => held' = << >>
      BY <2>1, SMT DEF heldUp, WaitsForClient, ToDaemon
    <3>2. QED
      BY <2>1, <3>1, SMT DEF ReadAt, ToDaemon
  <2>6. Logged'
    BY <2>1, <2>2, <2>5, LoggedStays, Zenon DEF Asked
  <2>7. pc' \in WaitsForClient \cup { "msg", "sendmsg" } /\ pc' \notin { "op", "args" }
    BY <2>1, SMT DEF WaitsForClient, ToDaemon
  <2>8. Asked'
    BY <2>1, <2>2, <2>4, <2>6, <2>7, Zenon DEF Asked
  <2>9. QED
    BY <2>8, AgreeAgain
<1>3. QED
  BY <1>1, <1>2, Zenon DEF IntoDaemon

-----------------------------------------------------------------------------
\* The proxy reads from the daemon.

\* It reads a message as the reader of messages does.
LEMMA MessageRead ==
    ASSUME IInv, InHand, ReadErrorMsg, NEW R \in { Logging, Answering }, NEW m,
           Move(R, ReadAt, Head(d2p), m)
    PROVE  /\ m = ReadAt'
           /\ pc' \in { "msg", "sendmsg", "sendlast" }
           /\ R = Logging => pc' # "sendlast"
<1> DEFINE w == Head(d2p)
           a == ReadAt
<1>1. /\ pc = "msg" /\ op \in WorkerOp /\ op' = op /\ held' = Append(held, w)
      /\ held = << >> => w \in Msg
      /\ pc' = IF Len(held) < MsgFields(Head(held')) THEN "msg"
               ELSE IF Head(held') = Last THEN "sendlast" ELSE "sendmsg"
  BY Zenon DEF ReadErrorMsg, InHand, IsLast
<1>2. w \in Nat /\ held \in Seq(Nat) /\ Len(held) \in Nat
  BY HeadAndTail, LenProperties DEF ReadErrorMsg, IInv, TypeOK
<1>3. a \in Places /\ m \in Places
  BY MovesBetween, Zenon
<1> HIDE DEF w
<1>4. held' # << >> /\ Len(held') = Len(held) + 1
  BY <1>1, <1>2, Appended, Zenon
<1>5. CASE held = << >>
  <2>1. Head(held') = w /\ Len(held) = 0 /\ Len(held') = 1
    BY <1>1, <1>2, <1>5, SMT
  <2> DEFINE k == MsgFields(w)
  <2>2. k \in Nat /\ (w = Last => k = 0)
    BY <1>1, <1>5, FieldsOfMessages
  <2> HIDE DEF k
  <2>3. pc' = IF 0 < k THEN "msg" ELSE IF w = Last THEN "sendlast" ELSE "sendmsg"
    BY <1>1, <2>1, Zenon DEF k
  <2>4. a = At("msg", op, 0)
    BY <1>1, <1>5, SMT DEF ReadAt
  <2>5. a.part = "msg" /\ a.op = op /\ a.left = 0
    BY <1>1, <2>4, SMT DEF At
  <2>6. w # Last => ReadAt' = At("msg", op, k)
    <3>1. CASE 0 < k
      <4>1. ReadAt' = At("msg", op, MsgFields(Head(held')) + 1 - Len(held'))
        BY <3>1, <1>1, <1>4, <2>3, SMT DEF ReadAt
      <4>2. MsgFields(Head(held')) = k
        BY <2>1, Zenon DEF k
      <4>3. k + 1 - Len(held') = k
        BY <2>1, <2>2, SMT
      <4>4. QED
        BY <4>1, <4>2, <4>3, Zenon
    <3>2. CASE ~ (0 < k)
      <4>1. k = 0
        BY <3>2, <2>2, SMT
      <4>2. w # Last => ReadAt' = At("msg", op, 0)
        BY <3>2, <1>1, <2>3, SMT DEF ReadAt
      <4>3. QED
        BY <4>1, <4>2, Zenon
    <3>3. QED
      BY <3>1, <3>2
  <2>7. w = Last => ReadAt' = AfterLast(op) /\ pc' = "sendlast"
    <3>1. w = Last => pc' = "sendlast"
      BY <2>2, <2>3, SMT
    <3>2. QED
      BY <3>1, <1>1, SMT DEF ReadAt
  <2> HIDE DEF a
  <2>8. Move(R, a, w, m)
    BY Zenon DEF a, w
  <2>9. Move(Logging, a, w, m) => w # Last /\ m = At("msg", op, k)
    BY <1>1, <1>2, <1>3, <1>5, <2>5, MovesInLogging, SMT DEF k
  <2>10. Move(Answering, a, w, m) => Move(Logging, a, w, m) \/ (w = Last /\ m = AfterLast(op))
    BY <1>2, <1>3, <2>5, MovesInAnswering, SMT
  <2>11. m = ReadAt' /\ (R = Logging => w # Last)
    BY <2>6, <2>7, <2>8, <2>9, <2>10, Zenon
  <2>12. QED
    BY <2>3, <2>11, SMT
<1>6. CASE held # << >>
  <2> DEFINE h == Head(held)
             k == MsgFields(h)
             n == Len(held)
  <2>1. h \in Msg /\ n <= k /\ n # 0
    BY <1>1, <1>2, <1>6, EmptySeq, Zenon DEF InHand
  <2>2. Head(held') = h
    BY <1>1, <1>2, <1>6, SMT
  <2>3. k \in Nat /\ n \in Nat /\ h # Last
    BY <1>2, <2>1, FieldsOfMessages, SMT
  <2>4. a = At("msg", op, k + 1 - n)
    BY <1>1, <1>6, SMT DEF ReadAt
  <2> HIDE DEF h
  <2>5. pc' = IF n < k THEN "msg" ELSE "sendmsg"
    BY <1>1, <2>2, <2>3, Zenon
  <2> HIDE DEF k, n
  <2> DEFINE j == k + 1 - n
             l == k - n
  <2>6. j \in Nat /\ l \in Nat /\ j > 0 /\ j - 1 = l /\ (l = 0 <=> ~ (n < k))
    BY <2>1, <2>3, SMT
  <2>7. k + 1 - Len(held') = l
    BY <1>4, <2>1, <2>3, SMT DEF n
  <2> HIDE DEF j, l
  <2>8. a.part = "msg" /\ a.op = op /\ a.left = j
    <3>1. a = At("msg", op, j)
      BY <2>4, Zenon DEF j, k, n
    <3>2. QED
      BY <3>1, SMT DEF At
  <2>9. ReadAt' = At("msg", op, l)
    <3>1. CASE n < k
      <4>1. pc' = "msg"
        BY <3>1, <2>5
      <4>2. ReadAt' = At("msg", op, MsgFields(Head(held')) + 1 - Len(held'))
        BY <4>1, <1>1, <1>4, SMT DEF ReadAt
      <4>3. MsgFields(Head(held')) = k
        BY <2>2, Zenon DEF k
      <4>4. QED
        BY <4>2, <4>3, <2>7, Zenon
    <3>2. CASE ~ (n < k)
      <4>1. pc' = "sendmsg" /\ l = 0
        BY <3>2, <2>5, <2>6
      <4>2. ReadAt' = At("msg", op, 0)
        BY <4>1, <1>1, SMT DEF ReadAt
      <4>3. QED
        BY <4>1, <4>2, Zenon
    <3>3. QED
      BY <3>1, <3>2
  <2> HIDE DEF a
  <2>10. Move(R, a, w, m)
    BY Zenon DEF a, w
  <2>11. Move(Logging, a, w, m) => m = At("msg", a.op, a.left - 1)
    BY <1>2, <1>3, <2>6, <2>8, MovesInLogging, SMT
  <2>12. Move(Answering, a, w, m) => Move(Logging, a, w, m)
    BY <1>2, <1>3, <2>6, <2>8, MovesInAnswering, SMT
  <2>13. m = At("msg", op, l)
    BY <2>6, <2>8, <2>10, <2>11, <2>12, Zenon
  <2>14. QED
    BY <2>5, <2>9, <2>13, Zenon
<1>7. QED
  BY <1>5, <1>6

LEMMA ReadErrorMsgAgrees ==
    ASSUME IInv, InHand, Agree, ReadErrorMsg, UNCHANGED daemonVars
    PROVE  Agree'
<1> DEFINE w == Head(d2p)
<1>1. /\ pc = "msg" /\ d2p # << >> /\ d2p' = Tail(d2p)
      /\ UNCHANGED << op, p2d, ends, daemonVars >>
      /\ pc' \in { "msg", "sendmsg", "sendlast" }
  BY Zenon DEF ReadErrorMsg
<1>2. d2p \in Seq(Nat)
  BY DEF IInv, TypeOK
<1>3. Asked \/ Answered
  BY <1>1, AgreeOpen
<1>4. /\ heldUp = << >> /\ heldUp' = << >>
      /\ AskedAt = At("work", op, 0) /\ AskedAt' = At("work", op, 0) /\ DaemonAt' = DaemonAt
  <2>1. AskedAt = At("work", op, 0) /\ AskedAt' = At("work", op, 0)
    BY <1>1, SMT DEF AskedAt
  <2>2. heldUp = << >> /\ heldUp' = << >>
    BY <1>1, SMT DEF heldUp, WaitsForClient, ToDaemon
  <2>3. DaemonAt' = DaemonAt
    BY <1>1, Zenon DEF DaemonAt
  <2>4. QED
    BY <2>1, <2>2, <2>3
<1>5. CASE Asked
  <2>1. PICK rest \in Seq(Nat), part \in { "msg", "lost" } :
          /\ daemonUp => rest = dtodo
          /\ ReadsBoth(Logging, ReadAt, d2p, rest, At(part, op, 0))
    BY <1>5, Zenon DEF Asked, Logged
  <2>2. PICK m \in Places :
          Move(Logging, ReadAt, w, m) /\ ReadsBoth(Logging, m, Tail(d2p), rest, At(part, op, 0))
    BY <1>1, <1>2, <2>1, BothFirst, Zenon
  <2>3. m = ReadAt' /\ pc' \in { "msg", "sendmsg" }
    <3>1. m = ReadAt' /\ pc' # "sendlast"
      BY <2>2, MessageRead, Zenon
    <3>2. QED
      BY <1>1, <3>1
  <2>4. Logged'
    BY <1>1, <2>1, <2>2, <2>3, Zenon DEF Logged
  <2>5. Sent'
    BY <1>1, <1>4, <1>5, SentStays, Zenon DEF Asked
  <2>6. dpc # "op"
    BY <1>1, <1>5 DEF Asked
  <2>7. Asked'
    BY <1>1, <1>5, <2>3, <2>4, <2>5, <2>6, Zenon DEF Asked
  <2>8. QED
    BY <2>7, AgreeAgain
<1>6. CASE Answered
  <2>1. PICK rest \in Seq(Nat), part \in { "done", "lost" } :
          /\ daemonUp => rest = dtodo
          /\ ReadsBoth(Answering, ReadAt, d2p, rest, At(part, op, 0))
    BY <1>6, Zenon DEF Answered, Told
  <2>2. PICK m \in Places :
          Move(Answering, ReadAt, w, m)
          /\ ReadsBoth(Answering, m, Tail(d2p), rest, At(part, op, 0))
    BY <1>1, <1>2, <2>1, BothFirst, Zenon
  <2>3. m = ReadAt'
    BY <2>2, MessageRead, Zenon
  <2>4. Told'
    BY <1>1, <2>1, <2>2, <2>3, Zenon DEF Told
  <2>5. Answered'
    BY <1>1, <1>6, <2>4, Zenon DEF Answered, ToClient
  <2>6. QED
    BY <2>5, AgreeAgain
<1>7. QED
  BY <1>3, <1>5, <1>6

\* What the proxy reads of an answer.
LEMMA ToldFirst ==
    ASSUME IInv, Agree, pc \in { "reply", "nar" }, d2p # << >>, d2p' = Tail(d2p),
           UNCHANGED << op, p2d, ends, daemonVars >>,
           pc' \in { "reply", "nar", "sendreply", "sendnar" },
           \A m : Move(Answering, ReadAt, Head(d2p), m) => m = ReadAt'
    PROVE  Agree'
<1>1. Answered
  BY AgreeOpen DEF Asked, WaitsForClient, ToDaemon
<1>2. d2p \in Seq(Nat)
  BY DEF IInv, TypeOK
<1>3. PICK rest \in Seq(Nat), part \in { "done", "lost" } :
        /\ daemonUp => rest = dtodo
        /\ ReadsBoth(Answering, ReadAt, d2p, rest, At(part, op, 0))
  BY <1>1, Zenon DEF Answered, Told
<1>4. PICK m \in Places :
        Move(Answering, ReadAt, Head(d2p), m)
        /\ ReadsBoth(Answering, m, Tail(d2p), rest, At(part, op, 0))
  BY <1>2, <1>3, BothFirst, Zenon
<1>5. Told'
  BY <1>3, <1>4, Zenon DEF Told
<1>6. Answered'
  BY <1>1, <1>5, Zenon DEF Answered, ToClient
<1>7. QED
  BY <1>6, AgreeAgain

LEMMA ReadBuildResponseAgrees ==
    ASSUME IInv, InHand, Agree, ReadBuildResponse, UNCHANGED daemonVars
    PROVE  Agree'
<1> DEFINE n == Len(Reply(op)) - Len(held)
           a == ReadAt
<1>1. /\ pc = "reply" /\ op \in WorkerOp /\ op' = op /\ d2p # << >> /\ d2p' = Tail(d2p)
      /\ Len(held) < Len(Reply(op))
      /\ pc' = IF Len(held) + 1 = Len(Reply(op)) THEN "sendreply" ELSE "reply"
      /\ UNCHANGED << p2d, ends, daemonVars >>
  BY Zenon DEF ReadBuildResponse, InHand
<1>2. Head(d2p) \in Nat /\ Reencoded(Reply(op)[Len(held) + 1], Head(d2p)) \in Nat
  BY <1>1, HeadAndTail DEF IInv, TypeOK, Reencoded
<1>3. Len(held') = Len(held) + 1 /\ Len(held) \in Nat /\ Len(Reply(op)) \in Nat
  BY <1>1, <1>2, Appended, LenProperties, ReplyIsSeq DEF ReadBuildResponse, IInv, TypeOK
<1>4. n \in Nat /\ (n = 1 <=> Len(held) + 1 = Len(Reply(op)))
      /\ Len(Reply(op')) - Len(held') = n - 1
  BY <1>1, <1>3, SMT
<1>5. a = At("reply", op, n)
  BY <1>1, SMT DEF ReadAt
<1> HIDE DEF n
<1>6. a \in Places /\ a.part = "reply" /\ a.op = op /\ a.left = n
  BY <1>1, <1>4, <1>5, SMT DEF At, Places, Parts
<1>7. ReadAt' = IF n = 1 THEN At("done", op, 0) ELSE At("reply", op, n - 1)
  <2>1. CASE n = 1
    <3>1. pc' = "sendreply"
      BY <2>1, <1>1, <1>4
    <3>2. QED
      BY <2>1, <3>1, <1>1, SMT DEF ReadAt
  <2>2. CASE n # 1
    <3>1. pc' = "reply"
      BY <2>2, <1>1, <1>4
    <3>2. ReadAt' = At("reply", op, Len(Reply(op')) - Len(held'))
      BY <3>1, <1>1, SMT DEF ReadAt
    <3>3. QED
      BY <2>2, <3>2, <1>4, Zenon
  <2>3. QED
    BY <2>1, <2>2
<1> HIDE DEF a
<1>8. \A m : Move(Answering, a, Head(d2p), m) => m = ReadAt'
  <2>1. TAKE m
  <2>2. HAVE Move(Answering, a, Head(d2p), m)
  <2>3. m \in Places
    BY <2>2, MovesBetween, Zenon
  <2>4. ~ Move(Logging, a, Head(d2p), m)
    BY <1>2, <1>6, <2>3, MovesInLogging, SMT
  <2>5. m = IF a.left = 1 THEN At("done", a.op, 0) ELSE At("reply", a.op, a.left - 1)
    BY <1>2, <1>6, <2>2, <2>3, <2>4, MovesInAnswering, SMT
  <2>6. QED
    BY <1>6, <1>7, <2>5, Zenon
<1>9. QED
  BY <1>1, <1>8, ToldFirst, SMT DEF a

LEMMA StreamNarAgrees ==
    ASSUME IInv, InHand, Agree, StreamNar, UNCHANGED daemonVars
    PROVE  Agree'
<1> DEFINE w == Head(d2p)
           a == ReadAt
<1>1. /\ pc = "nar" /\ op \in WorkerOp /\ op' = op /\ d2p # << >> /\ d2p' = Tail(d2p)
      /\ held' = << w >> /\ pc' = "sendnar"
      /\ UNCHANGED << p2d, ends, daemonVars >>
  BY Zenon DEF StreamNar, InHand
<1>2. w \in Nat
  BY <1>1, HeadAndTail DEF IInv, TypeOK
<1> HIDE DEF w
<1>3. a = At("nar", op, 0)
  BY <1>1, SMT DEF ReadAt
<1>4. a \in Places /\ a.part = "nar" /\ a.op = op
  BY <1>1, <1>3, SMT DEF At, Places, Parts
<1>5. Head(held') = w
  BY <1>1, <1>2
<1>6. ReadAt' = IF w = NarEnd THEN At("done", op, 0) ELSE a
  BY <1>1, <1>3, <1>5, SMT DEF ReadAt
<1> HIDE DEF a
<1>7. \A m : Move(Answering, a, w, m) => m = ReadAt'
  <2>1. TAKE m
  <2>2. HAVE Move(Answering, a, w, m)
  <2>3. m \in Places
    BY <2>2, MovesBetween, Zenon
  <2>4. ~ Move(Logging, a, w, m)
    BY <1>2, <1>4, <2>3, MovesInLogging, SMT
  <2>5. m = IF w = NarEnd THEN At("done", a.op, 0) ELSE a
    BY <1>2, <1>4, <2>2, <2>3, <2>4, MovesInAnswering, SMT
  <2>6. QED
    BY <1>4, <1>6, <2>5, Zenon
<1>8. QED
  BY <1>1, <1>7, ToldFirst, SMT DEF a, w

LEMMA FromDaemonAgrees ==
    ASSUME IInv, InHand, Agree, FromDaemon, UNCHANGED daemonVars
    PROVE  Agree'
<1>1. CASE Panic
  BY <1>1, AgreeDead DEF Panic
<1>2. CASE pc = "nar" /\ pc' = "spin" /\ ~ daemonUp /\ daemonUp' = daemonUp /\ dpc' = dpc
  <2>1. Answered
    BY <1>2, AgreeOpen DEF Asked, WaitsForClient, ToDaemon
  <2>2. QED
    BY <1>2, <2>1 DEF Answered, Agree
<1>3. QED
  BY <1>1, <1>2, ReadErrorMsgAgrees, ReadBuildResponseAgrees, StreamNarAgrees, Zenon
     DEF FromDaemon, ResponseUndecodable, DaemonEof

-----------------------------------------------------------------------------
\* The proxy writes to the client.

LEMMA PassedAgrees ==
    ASSUME IInv, InHand, Agree, SendErrorToClient \/ WriteBuildResponse \/ WriteNar,
           UNCHANGED daemonVars
    PROVE  Agree'
<1>1. PICK next :
        /\ WriteClient(next) /\ held # << >>
        /\ IF held' = << >> THEN pc' = next ELSE pc' = pc
        /\ op' = op /\ op \in WorkerOp
        /\ \/ pc = "sendmsg" /\ next = "msg"
           \/ pc = "sendlast" /\ next = ToReply
           \/ pc = "sendreply" /\ next = "flush"
           \/ pc = "sendnar" /\ held' = << >>
              /\ next = IF Head(held) = NarEnd THEN "flush" ELSE "nar"
  BY Passed, Zenon
<1>2. UNCHANGED << p2d, d2p, ends, daemonVars >>
  BY <1>1, Zenon DEF WriteClient
<1>3. next = ToReply => next \in { "nar", "flush", "reply" }
  BY DEF ToReply
<1>4. ReadAt' = ReadAt
  <2>1. CASE pc = "sendmsg"
    BY <2>1, <1>1, SMT DEF ReadAt
  <2>2. CASE pc = "sendlast"
    <3>1. CASE held' # << >>
      BY <2>2, <3>1, <1>1, SMT DEF ReadAt
    <3>2. CASE held' = << >>
      <4>1. pc' = ToReply /\ ReadAt = AfterLast(op) /\ Len(held') = 0
        BY <2>2, <3>2, <1>1, SMT DEF ReadAt
      <4>2. CASE op = NarFromPath
        <5>1. pc' = "nar" /\ AfterLast(op) = At("nar", op, 0)
          BY <4>1, <4>2, Zenon DEF ToReply, AfterLast
        <5>2. QED
          BY <4>1, <5>1, <1>1, SMT DEF ReadAt
      <4>3. CASE op # NarFromPath /\ Reply(op) = << >>
        <5>1. pc' = "flush" /\ AfterLast(op) = At("done", op, 0)
          BY <4>1, <4>3, Zenon DEF ToReply, AfterLast
        <5>2. QED
          BY <4>1, <5>1, <1>1, SMT DEF ReadAt
      <4>4. CASE op # NarFromPath /\ Reply(op) # << >>
        <5>1. pc' = "reply" /\ AfterLast(op) = At("reply", op, Len(Reply(op)))
          BY <4>1, <4>4, Zenon DEF ToReply, AfterLast
        <5>2. ReadAt' = At("reply", op, Len(Reply(op')) - Len(held'))
          BY <5>1, <1>1, SMT DEF ReadAt
        <5>3. Len(Reply(op')) - Len(held') = Len(Reply(op))
          BY <4>1, <1>1, ReplyIsSeq, LenProperties
        <5>4. QED
          BY <4>1, <5>1, <5>2, <5>3, Zenon
      <4>5. QED
        BY <4>2, <4>3, <4>4
    <3>3. QED
      BY <3>1, <3>2
  <2>3. CASE pc = "sendreply"
    BY <2>3, <1>1, SMT DEF ReadAt
  <2>4. CASE pc = "sendnar"
    <3>1. pc' = IF Head(held) = NarEnd THEN "flush" ELSE "nar"
      BY <2>4, <1>1, Zenon
    <3>2. QED
      BY <2>4, <3>1, <1>1, SMT DEF ReadAt
  <2>5. QED
    BY <1>1, <2>1, <2>2, <2>3, <2>4
<1>5. CASE Asked
  <2>1. pc = "sendmsg" /\ pc' \in { "msg", "sendmsg" }
    BY <1>1, <1>3, <1>5 DEF Asked, WaitsForClient, ToDaemon
  <2>2. AskedAt' = AskedAt /\ heldUp' = heldUp /\ DaemonAt' = DaemonAt
    <3>1. AskedAt' = AskedAt
      BY <1>1, <2>1, SMT DEF AskedAt
    <3>2. heldUp' = heldUp
      BY <2>1, SMT DEF heldUp, WaitsForClient, ToDaemon
    <3>3. DaemonAt' = DaemonAt
      BY <1>1, <1>2, Zenon DEF DaemonAt
    <3>4. QED
      BY <3>1, <3>2, <3>3
  <2>3. Sent'
    BY <1>2, <1>5, <2>2, SentStays, Zenon DEF Asked
  <2>4. Logged'
    BY <1>1, <1>2, <1>4, <1>5, LoggedStays, Zenon DEF Asked
  <2>5. Asked'
    BY <1>1, <1>2, <1>5, <2>1, <2>3, <2>4, Zenon DEF Asked
  <2>6. QED
    BY <2>5, AgreeAgain
<1>6. CASE Answered
  <2>1. Told'
    BY <1>1, <1>2, <1>4, <1>6, ToldStays, Zenon DEF Answered
  <2>2. pc' \in ToClient \cup { "msg", "reply", "nar", "flush" }
    BY <1>1, <1>3 DEF ToClient
  <2>3. Answered'
    BY <1>2, <1>6, <2>1, <2>2, Zenon DEF Answered
  <2>4. QED
    BY <2>3, AgreeAgain
<1>7. Asked \/ Answered
  BY <1>1, AgreeOpen
<1>8. QED
  BY <1>5, <1>6, <1>7

\* Once the answer is passed on, nothing is left of it.
LEMMA NothingLeft ==
    ASSUME IInv, InHand, Gone, Agree, pc = "flush"
    PROVE  dpc = "op" /\ p2d = << >> /\ d2p = << >> /\ dtodo = << >>
<1>1. Answered
  BY AgreeOpen DEF Asked, WaitsForClient, ToDaemon
<1>2. PICK rest \in Seq(Nat), part \in { "done", "lost" } :
        /\ daemonUp => rest = dtodo
        /\ ReadsBoth(Answering, ReadAt, d2p, rest, At(part, op, 0))
  BY <1>1, Zenon DEF Answered, Told
<1> DEFINE a == ReadAt
<1>3. a = At("done", op, 0)
  BY SMT DEF ReadAt
<1>4. op \in WorkerOp
  BY DEF InHand
<1>5. a \in Places /\ a.part = "done"
  BY <1>3, <1>4, SMT DEF At, Places, Parts
<1> HIDE DEF a
<1>6. \A w, m : ~ Move(Answering, a, w, m)
  <2>1. TAKE w, m
  <2>2. SUFFICES ASSUME Move(Answering, a, w, m) PROVE FALSE
    OBVIOUS
  <2>3. w \in Nat /\ m \in Places
    BY <2>2, MovesBetween, Zenon
  <2>4. ~ Move(Logging, a, w, m)
    BY <1>5, <2>3, MovesInLogging, SMT
  <2>5. QED
    BY <1>5, <2>2, <2>3, <2>4, MovesInAnswering, SMT
<1>7. d2p \in Seq(Nat)
  BY DEF IInv, TypeOK
<1>8. d2p = << >> /\ rest = << >>
  <2>1. ReadsBoth(Answering, a, d2p, rest, At(part, op, 0))
    BY <1>2, Zenon DEF a
  <2>2. QED
    BY <1>2, <1>6, <1>7, <2>1, BothStuck, Zenon
<1>9. dtodo = << >>
  BY <1>2, <1>8 DEF Gone
<1>10. QED
  BY <1>1, <1>8, <1>9 DEF Answered

LEMMA NextRoundAgrees ==
    ASSUME IInv, InHand, Gone, Agree, NextRound, UNCHANGED daemonVars
    PROVE  Agree'
<1>1. dpc = "op" /\ p2d = << >> /\ d2p = << >> /\ dtodo = << >>
  BY NothingLeft DEF NextRound
<1>2. pc' = "op" /\ op' = NoOp /\ held' = << >> /\ UNCHANGED << p2d, d2p, dtodo, dpc, daemonUp >>
  BY DEF NextRound, IInv, HeldFits
<1> DEFINE start == At("op", op', 0)
<1>3. start \in Places
  BY <1>2, Atoms, SMT DEF Parts
<1>4. DaemonAt' = start /\ AskedAt' = start /\ heldUp' = << >> /\ ReadAt' = At("msg", op', 0)
  BY <1>1, <1>2, SMT DEF DaemonAt, AskedAt, heldUp, ReadAt
<1> HIDE DEF start
<1>5. Sent'
  <2>1. ReadsBoth(Asking, start, << >>, << >>, start)
    BY <1>3, BothNothing, Zenon
  <2>2. QED
    BY <1>1, <1>2, <1>4, <2>1, Zenon DEF Sent
<1>6. Logged'
  BY <1>1, <1>2, <1>4, LoggedAtFirst, Zenon
<1>7. Asked'
  BY <1>1, <1>2, <1>5, <1>6, Zenon DEF Asked, WaitsForClient
<1>8. QED
  BY <1>7, AgreeAgain

LEMMA IntoClientAgrees ==
    ASSUME IInv, InHand, Gone, Agree, IntoClient, UNCHANGED daemonVars
    PROVE  Agree'
<1>1. CASE Spill \/ FlushTxToClient
  BY <1>1, AgreeStays, Zenon DEF Spill, FlushTxToClient
<1>2. QED
  BY <1>1, PassedAgrees, NextRoundAgrees, Zenon DEF IntoClient

LEMMA FromClientAgrees ==
    ASSUME IInv, InHand, Agree, FromClient, UNCHANGED daemonVars
    PROVE  Agree'
<1>1. CASE StreamEof
  BY <1>1, AgreeDead DEF StreamEof, Panic
<1>2. CASE ReceiveUndecodable \/ ReceiveEof
  <2>1. pc \in { "op", "args" } /\ ReceiveFailed
    BY <1>2, Zenon DEF ReceiveUndecodable, ReceiveEof
  <2>2. QED
    BY <2>1, ReceiveFailedAgrees, Zenon
<1>3. QED
  BY <1>1, <1>2, ReceiveTagAgrees, ReceiveFieldAgrees, StreamingLengthAgrees, GetStreamAgrees,
     Zenon DEF FromClient

LEMMA ProxyAgrees ==
    ASSUME IInv, InHand, Gone, Agree, Proxy
    PROVE  Agree'
<1>1. ProxyNext /\ UNCHANGED daemonVars
  BY Zenon DEF Proxy
<1>2. CASE WriteOut
  <2>1. CASE Drain
    BY <1>1, <2>1, AgreeStays, Zenon DEF Drain
  <2>2. CASE ClientPipeBroken
    BY <2>2, AgreeDead DEF ClientPipeBroken
  <2>3. QED
    BY <1>2, <2>1, <2>2 DEF WriteOut
<1>3. QED
  BY <1>1, <1>2, FromClientAgrees, IntoDaemonAgrees, FromDaemonAgrees, IntoClientAgrees, Zenon
     DEF ProxyNext

-----------------------------------------------------------------------------
\* The daemon reads an operation.

LEMMA TakenAgrees ==
    ASSUME IInv, Agree, DaemonReady, p2d # << >>, p2d' = Tail(p2d),
           UNCHANGED << pc, op, held, left, d2p, dtodo, daemonUp >>,
           pc \notin { "dead", "spin" },
           dpc' # "op", dop' = op,
           \A m : Move(Asking, DaemonAt, Head(p2d), m) => m = DaemonAt'
    PROVE  Agree'
<1>1. daemonUp /\ p2d \in Seq(Nat)
  BY DEF DaemonReady, IInv, TypeOK
<1>2. Asked
  BY AgreeOpen DEF Answered
<1>3. AskedAt' = AskedAt /\ ReadAt' = ReadAt /\ heldUp' = heldUp
  BY EndsStay, Zenon
<1>4. PICK m \in Places :
        Move(Asking, DaemonAt, Head(p2d), m) /\ ReadsBoth(Asking, m, Tail(p2d), heldUp, AskedAt)
  BY <1>1, <1>2, BothFirst, Zenon DEF Asked, Sent
<1>5. Sent'
  BY <1>3, <1>4, Zenon DEF Sent
<1>6. Logged'
  BY <1>2, <1>3, LoggedStays, Zenon DEF Asked
<1>7. Asked'
  BY <1>2, <1>5, <1>6, Zenon DEF Asked
<1>8. QED
  BY <1>7, AgreeAgain

\* Nothing is on its way to a daemon when the proxy is dead to the session.
LEMMA SpinStays ==
    ASSUME Agree, daemonUp, UNCHANGED pc, pc \in { "dead", "spin" }
    PROVE  Agree'
  BY DEF Agree

LEMMA DaemonReadTagAgrees ==
    ASSUME IInv, Agree, DaemonReadTag
    PROVE  Agree'
<1> DEFINE w == Head(p2d)
           a == DaemonAt
<1>1. /\ DaemonReady /\ dpc = "op" /\ p2d # << >> /\ p2d' = Tail(p2d) /\ w \in WorkerOp
      /\ dop' = w /\ dneed' = Len(Body(w))
      /\ dpc' = IF Len(Body(w)) = 0 THEN AfterFields(w) ELSE "args"
      /\ UNCHANGED << pc, op, held, left, d2p, dtodo, daemonUp >>
  BY Zenon DEF DaemonReadTag
<1>2. w \in Nat
  BY <1>1, HeadAndTail DEF IInv, TypeOK
<1>3. op \in WorkerOp \cup { NoOp }
  BY DEF IInv, TypeOK
<1> HIDE DEF w
<1>4. a = At("op", op, 0)
  BY <1>1, SMT DEF DaemonAt
<1>5. a.part = "op" /\ a.op = op /\ a \in Places
  BY <1>3, <1>4, SMT DEF At, Places, Parts
<1>6. Len(Body(w)) = 0 <=> Body(w) = << >>
  BY <1>1, BodyIsSeq, EmptySeq, Zenon
<1>7. dpc' # "op"
  BY <1>1, Framing, SMT
<1>8. w = op => DaemonAt' = AfterTag(w)
  <2>1. CASE Body(w) = << >>
    <3>1. dpc' = AfterFields(w) /\ dpc' \notin { "args", "framedata" }
      BY <2>1, <1>1, <1>6, Framing, SMT
    <3>2. DaemonAt' = At(AfterFields(w), op, 0)
      BY <1>1, <3>1, SMT DEF DaemonAt
    <3>3. QED
      BY <2>1, <3>2, Zenon DEF AfterTag
  <2>2. CASE Body(w) # << >>
    <3>1. DaemonAt' = At("args", op, Len(Body(w)))
      BY <2>2, <1>1, <1>6, SMT DEF DaemonAt
    <3>2. QED
      BY <2>2, <3>1, Zenon DEF AfterTag
  <2>3. QED
    BY <2>1, <2>2
<1> HIDE DEF a
<1>9. \A m : Move(Asking, a, w, m) => w = op /\ m = AfterTag(w)
  <2>1. TAKE m
  <2>2. HAVE Move(Asking, a, w, m)
  <2>3. m \in Places
    BY <2>2, MovesBetween, Zenon
  <2>4. QED
    BY <1>2, <1>5, <2>2, <2>3, MovesInAsking, SMT
<1>10. CASE pc \notin { "dead", "spin" }
  <2>1. Asked
    BY <1>1, <1>10, AgreeOpen DEF Answered
  <2>2. daemonUp /\ p2d \in Seq(Nat)
    BY <1>1 DEF DaemonReady, IInv, TypeOK
  <2>3. \E m : Move(Asking, a, w, m)
    BY <1>1, <2>1, <2>2, BothFirst, Zenon DEF Asked, Sent, a, w
  <2>4. w = op
    BY <2>3, <1>9
  <2>5. \A m : Move(Asking, DaemonAt, Head(p2d), m) => m = DaemonAt'
    BY <1>8, <1>9, <2>4, Zenon DEF a, w
  <2>6. QED
    BY <1>1, <1>7, <1>10, <2>4, <2>5, TakenAgrees, Zenon
<1>11. CASE pc \in { "dead", "spin" }
  BY <1>1, <1>11, SpinStays DEF DaemonReady
<1>12. QED
  BY <1>10, <1>11

\* The other reads of the daemon, in the operation the proxy has in hand.
LEMMA DaemonReadOther ==
    ASSUME IInv, Agree, DaemonReady, dpc \in { "args", "framelen", "framedata" }, p2d # << >>,
           p2d' = Tail(p2d), dop' = dop,
           UNCHANGED << pc, op, held, left, d2p, dtodo, daemonUp >>,
           dpc' # "op",
           op \in WorkerOp =>
             \A m : Move(Asking, DaemonAt, Head(p2d), m) => m = DaemonAt'
    PROVE  Agree'
<1>1. CASE pc \notin { "dead", "spin" }
  <2>1. Asked
    BY <1>1, AgreeOpen DEF Answered
  <2>2. dop = op
    BY <2>1 DEF Asked
  <2>3. op \in WorkerOp
    BY <2>2 DEF IInv, DaemonFits
  <2>4. QED
    BY <1>1, <2>2, <2>3, TakenAgrees, Zenon
<1>2. CASE pc \in { "dead", "spin" }
  BY <1>2, SpinStays DEF DaemonReady
<1>3. QED
  BY <1>1, <1>2

LEMMA DaemonReadFieldAgrees ==
    ASSUME IInv, Agree, DaemonReadField
    PROVE  Agree'
<1> DEFINE a == DaemonAt
<1>1. /\ DaemonReady /\ dpc = "args" /\ p2d # << >> /\ p2d' = Tail(p2d) /\ dop' = dop
      /\ dneed' = dneed - 1 /\ dpc' = IF dneed = 1 THEN AfterFields(dop) ELSE "args"
      /\ UNCHANGED << pc, op, held, left, d2p, dtodo, daemonUp >>
  BY Zenon DEF DaemonReadField
<1>2. dneed \in Nat /\ Head(p2d) \in Nat
  BY <1>1, HeadAndTail DEF IInv, TypeOK
<1>3. dpc' # "op"
  BY <1>1, Framing, SMT
<1>4. CASE pc \in { "dead", "spin" }
  BY <1>1, <1>4, SpinStays DEF DaemonReady
<1>5. CASE pc \notin { "dead", "spin" }
  <2>1. dop = op
    BY <1>1, <1>5, AgreeOpen DEF Asked, Answered
  <2>2. op \in WorkerOp
    BY <1>1, <2>1 DEF IInv, DaemonFits
  <2>3. a = At("args", op, dneed)
    BY <1>1, SMT DEF DaemonAt
  <2>4. a.part = "args" /\ a.op = op /\ a.left = dneed /\ a \in Places
    BY <1>2, <2>2, <2>3, SMT DEF At, Places, Parts
  <2>5. DaemonAt' = IF dneed = 1 THEN At(AfterFields(op), op, 0) ELSE At("args", op, dneed - 1)
    <3>1. CASE dneed = 1
      <4>1. dpc' = AfterFields(op) /\ dpc' \notin { "args", "framedata" }
        BY <3>1, <1>1, <2>1, Framing, SMT
      <4>2. QED
        BY <1>1, <3>1, <4>1, SMT DEF DaemonAt
    <3>2. CASE dneed # 1
      BY <1>1, <3>2, SMT DEF DaemonAt
    <3>3. QED
      BY <3>1, <3>2
  <2> HIDE DEF a
  <2>6. \A m : Move(Asking, a, Head(p2d), m) => m = DaemonAt'
    <3>1. TAKE m
    <3>2. HAVE Move(Asking, a, Head(p2d), m)
    <3>3. m \in Places
      BY <3>2, MovesBetween, Zenon
    <3>4. m = IF a.left = 1 THEN At(AfterFields(a.op), a.op, 0) ELSE At("args", a.op, a.left - 1)
      BY <1>2, <2>4, <3>2, <3>3, MovesInAsking, SMT
    <3>5. QED
      BY <2>4, <2>5, <3>4, Zenon
  <2>7. QED
    BY <1>1, <1>3, <2>6, DaemonReadOther, SMT DEF a
<1>6. QED
  BY <1>4, <1>5

LEMMA DaemonReadLengthAgrees ==
    ASSUME IInv, Agree, DaemonReadLength
    PROVE  Agree'
<1> DEFINE a == DaemonAt
           w == Head(p2d)
<1>1. /\ DaemonReady /\ dpc = "framelen" /\ p2d # << >> /\ p2d' = Tail(p2d) /\ dop' = dop
      /\ dneed' = w /\ dpc' = IF w = 0 THEN "work" ELSE "framedata"
      /\ UNCHANGED << pc, op, held, left, d2p, dtodo, daemonUp >>
  BY Zenon DEF DaemonReadLength
<1>2. w \in Nat
  BY <1>1, HeadAndTail DEF IInv, TypeOK
<1> HIDE DEF w
<1>3. CASE pc \in { "dead", "spin" }
  BY <1>1, <1>3, SpinStays DEF DaemonReady
<1>4. CASE pc \notin { "dead", "spin" }
  <2>1. dop = op
    BY <1>1, <1>4, AgreeOpen DEF Asked, Answered
  <2>2. op \in WorkerOp
    BY <1>1, <2>1 DEF IInv, DaemonFits
  <2>3. a = At("framelen", op, 0)
    BY <1>1, SMT DEF DaemonAt
  <2>4. a.part = "framelen" /\ a.op = op /\ a \in Places
    BY <2>2, <2>3, SMT DEF At, Places, Parts
  <2>5. DaemonAt' = IF w = 0 THEN At("work", op, 0) ELSE At("framedata", op, w)
    BY <1>1, SMT DEF DaemonAt
  <2> HIDE DEF a
  <2>6. \A m : Move(Asking, a, w, m) => m = DaemonAt'
    <3>1. TAKE m
    <3>2. HAVE Move(Asking, a, w, m)
    <3>3. m \in Places
      BY <3>2, MovesBetween, Zenon
    <3>4. m = IF w = 0 THEN At("work", a.op, 0) ELSE At("framedata", a.op, w)
      BY <1>2, <2>4, <3>2, <3>3, MovesInAsking, SMT
    <3>5. QED
      BY <2>4, <2>5, <3>4, Zenon
  <2>7. dpc' # "op"
    BY <1>1
  <2>8. QED
    BY <1>1, <2>6, <2>7, DaemonReadOther, SMT DEF a, w
<1>5. QED
  BY <1>3, <1>4

LEMMA DaemonReadByteAgrees ==
    ASSUME IInv, Agree, DaemonReadByte
    PROVE  Agree'
<1> DEFINE a == DaemonAt
<1>1. /\ DaemonReady /\ dpc = "framedata" /\ p2d # << >> /\ p2d' = Tail(p2d) /\ dop' = dop
      /\ dneed' = dneed - 1 /\ dpc' = IF dneed = 1 THEN "framelen" ELSE "framedata"
      /\ UNCHANGED << pc, op, held, left, d2p, dtodo, daemonUp >>
  BY Zenon DEF DaemonReadByte
<1>2. dneed \in Nat /\ Head(p2d) \in Nat
  BY <1>1, HeadAndTail DEF IInv, TypeOK
<1>3. CASE pc \in { "dead", "spin" }
  BY <1>1, <1>3, SpinStays DEF DaemonReady
<1>4. CASE pc \notin { "dead", "spin" }
  <2>1. dop = op
    BY <1>1, <1>4, AgreeOpen DEF Asked, Answered
  <2>2. op \in WorkerOp
    BY <1>1, <2>1 DEF IInv, DaemonFits
  <2>3. a = At("framedata", op, dneed)
    BY <1>1, SMT DEF DaemonAt
  <2>4. a.part = "framedata" /\ a.op = op /\ a.left = dneed /\ a \in Places
    BY <1>2, <2>2, <2>3, SMT DEF At, Places, Parts
  <2>5. DaemonAt' = IF dneed = 1 THEN At("framelen", op, 0) ELSE At("framedata", op, dneed - 1)
    BY <1>1, SMT DEF DaemonAt
  <2> HIDE DEF a
  <2>6. \A m : Move(Asking, a, Head(p2d), m) => m = DaemonAt'
    <3>1. TAKE m
    <3>2. HAVE Move(Asking, a, Head(p2d), m)
    <3>3. m \in Places
      BY <3>2, MovesBetween, Zenon
    <3>4. m = IF a.left = 1 THEN At("framelen", a.op, 0) ELSE At("framedata", a.op, a.left - 1)
      BY <1>2, <2>4, <3>2, <3>3, MovesInAsking, SMT
    <3>5. QED
      BY <2>4, <2>5, <3>4, Zenon
  <2>7. dpc' # "op"
    BY <1>1
  <2>8. QED
    BY <1>1, <2>6, <2>7, DaemonReadOther, SMT DEF a
<1>5. QED
  BY <1>3, <1>4

-----------------------------------------------------------------------------
\* The daemon writes.

LEMMA DaemonLogAgrees ==
    ASSUME IInv, InHand, Agree, DaemonLog
    PROVE  Agree'
<1>1. /\ daemonUp /\ dtodo = << >> /\ dpc # "op" /\ dtodo' \in Logs
      /\ UNCHANGED << pc, op, held, left, p2d, d2p, dpc, dop, dneed, daemonUp >>
  BY DEF DaemonLog, DaemonReady
<1>2. dtodo' \in Seq(Nat) /\ LogConforms(dtodo')
  BY <1>1, LogAssumption, DaemonAssumption
<1>3. CASE pc \in { "dead", "spin" }
  BY <1>1, <1>3, SpinStays
<1>4. CASE pc \notin { "dead", "spin" }
  <2>1. Asked
    BY <1>1, <1>4, AgreeOpen DEF Answered
  <2>2. op \in WorkerOp
    BY <1>1, <2>1 DEF Asked, IInv, DaemonFits
  <2>3. PICK rest \in Seq(Nat), part \in { "msg", "lost" } :
          /\ daemonUp => rest = dtodo
          /\ ReadsBoth(Logging, ReadAt, d2p, rest, At(part, op, 0))
    BY <2>1, Zenon DEF Asked, Logged
  <2>4. AskedAt' = AskedAt /\ ReadAt' = ReadAt /\ heldUp' = heldUp /\ DaemonAt' = DaemonAt
    BY <1>1, EndsStay, Zenon
  <2>5. Reads(Logging, ReadAt, d2p, At(part, op, 0))
    <3>1. ReadsBoth(Logging, ReadAt, d2p, << >>, At(part, op, 0))
      BY <1>1, <2>3, Zenon
    <3>2. QED
      BY <3>1, BothEnd, Zenon
  <2>6. PICK next \in { "msg", "lost" } :
          Reads(Logging, At(part, op, 0), dtodo', At(next, op, 0))
    <3>1. CASE part = "msg"
      BY <1>2, <2>2, <3>1, ReadsLog, Zenon
    <3>2. CASE part = "lost"
      BY <1>2, <2>2, <3>2, ReadsLost, Zenon
    <3>3. QED
      BY <3>1, <3>2
  <2>7. At(part, op, 0) \in Places
    BY <2>2, <2>3, SMT DEF At, Places, Parts
  <2>8. ReadsBoth(Logging, ReadAt, d2p, dtodo', At(next, op, 0))
    BY <2>5, <2>6, <2>7, Zenon DEF ReadsBoth
  <2>9. Logged'
    BY <1>1, <1>2, <2>4, <2>8, Zenon DEF Logged
  <2>10. Sent'
    BY <1>1, <2>1, <2>4, SentStays, Zenon DEF Asked
  <2>11. Asked'
    BY <1>1, <2>1, <2>9, <2>10, Zenon DEF Asked
  <2>12. QED
    BY <2>11, AgreeAgain
<1>5. QED
  BY <1>3, <1>4

LEMMA DaemonAnswerAgrees ==
    ASSUME IInv, InHand, Agree, DaemonAnswer
    PROVE  Agree'
<1>1. PICK answer \in Answers(dop) : dtodo' = << Last >> \o answer
  BY DEF DaemonAnswer
<1>2. /\ daemonUp /\ dtodo = << >> /\ dpc = "work" /\ dpc' = "op"
      /\ UNCHANGED << pc, op, held, left, p2d, d2p, dneed, daemonUp >>
  BY DEF DaemonAnswer, DaemonReady
<1>3. CASE pc \in { "dead", "spin" }
  BY <1>2, <1>3, SpinStays
<1>4. CASE pc \notin { "dead", "spin" }
  <2>1. Asked
    BY <1>2, <1>4, AgreeOpen DEF Answered
  <2>2. op \in WorkerOp /\ dop = op
    BY <1>2, <2>1 DEF Asked, IInv, DaemonFits
  <2>3. ReadAt' = ReadAt
    BY <1>2, EndsStay, Zenon
  <2>4. p2d = << >> /\ heldUp = << >> /\ AskedAt = At("work", op, 0)
    <3> DEFINE a == DaemonAt
    <3>1. a = At("work", op, 0)
      BY <1>2, SMT DEF DaemonAt
    <3>2. a \in Places /\ a.part = "work"
      BY <2>2, <3>1, SMT DEF At, Places, Parts
    <3> HIDE DEF a
    <3>3. \A w, m : ~ Move(Asking, a, w, m)
      <4>1. TAKE w, m
      <4>2. SUFFICES ASSUME Move(Asking, a, w, m) PROVE FALSE
        OBVIOUS
      <4>3. w \in Nat /\ m \in Places
        BY <4>2, MovesBetween, Zenon
      <4>4. QED
        BY <3>2, <4>2, <4>3, MovesInAsking, SMT
    <3>4. p2d \in Seq(Nat) /\ heldUp \in Seq(Nat)
      BY DEF IInv, TypeOK, heldUp
    <3>5. ReadsBoth(Asking, a, p2d, heldUp, AskedAt)
      BY <1>2, <2>1, Zenon DEF Asked, Sent, a
    <3>6. QED
      BY <3>1, <3>3, <3>4, <3>5, BothStuck, Zenon
  <2>5. pc \in { "msg", "sendmsg" }
    <3>1. AskedAt.part = "work"
      BY <2>4, SMT DEF At
    <3>2. pc \notin { "op", "args", "framelen", "framedata" }
      BY <3>1, SMT DEF AskedAt, At
    <3>3. pc \notin ToDaemon
      BY <2>4 DEF IInv, HeldFits, heldUp, WaitsForClient
    <3>4. QED
      BY <2>1, <3>2, <3>3 DEF Asked, WaitsForClient
  <2>6. PICK rest \in Seq(Nat), part \in { "msg", "lost" } :
          /\ daemonUp => rest = dtodo
          /\ ReadsBoth(Logging, ReadAt, d2p, rest, At(part, op, 0))
    BY <2>1, Zenon DEF Asked, Logged
  <2>7. Reads(Answering, ReadAt, d2p, At(part, op, 0))
    <3>1. ReadsBoth(Logging, ReadAt, d2p, << >>, At(part, op, 0))
      BY <1>2, <2>6, Zenon
    <3>2. QED
      BY <3>1, BothEnd, LogIsAnswer, Zenon
  <2>8. dtodo' \in Seq(Nat)
    <3>1. answer \in Seq(Nat)
      BY <2>2, AnswerAssumption
    <3>2. << Last >> \in Seq(Nat)
      BY SMT DEF Last
    <3>3. QED
      BY <1>1, <3>1, <3>2, ConcatProperties, Zenon
  <2>9. PICK next \in { "done", "lost" } :
          Reads(Answering, At(part, op, 0), dtodo', At(next, op, 0))
    <3>1. CASE part = "msg"
      BY <1>1, <2>2, <3>1, ReadsAnswer, Zenon
    <3>2. CASE part = "lost"
      BY <2>2, <2>8, <3>2, ReadsLost, LogIsAnswer, Zenon
    <3>3. QED
      BY <3>1, <3>2
  <2>10. At(part, op, 0) \in Places
    BY <2>2, <2>6, SMT DEF At, Places, Parts
  <2>11. ReadsBoth(Answering, ReadAt, d2p, dtodo', At(next, op, 0))
    BY <2>7, <2>9, <2>10, Zenon DEF ReadsBoth
  <2>12. Told'
    BY <1>2, <2>3, <2>8, <2>11, Zenon DEF Told
  <2>13. Answered'
    BY <1>2, <2>4, <2>5, <2>12, Zenon DEF Answered, ToClient
  <2>14. QED
    BY <2>13, AgreeAgain
<1>5. QED
  BY <1>3, <1>4

LEMMA DaemonWriteAgrees ==
    ASSUME IInv, Agree, DaemonWrite
    PROVE  Agree'
<1>1. /\ daemonUp /\ dtodo # << >> /\ d2p' = Append(d2p, Head(dtodo)) /\ dtodo' = Tail(dtodo)
      /\ UNCHANGED << pc, op, held, left, p2d, dpc, dop, dneed, daemonUp >>
  BY Zenon DEF DaemonWrite
<1>2. d2p \in Seq(Nat) /\ dtodo \in Seq(Nat) /\ dtodo' \in Seq(Nat)
  BY <1>1, HeadAndTail DEF IInv, TypeOK
<1>3. AskedAt' = AskedAt /\ ReadAt' = ReadAt /\ heldUp' = heldUp /\ DaemonAt' = DaemonAt
  BY <1>1, EndsStay, Zenon
<1>4. CASE pc \in { "dead", "spin" }
  BY <1>1, <1>4, SpinStays
<1>5. CASE Asked
  <2>1. PICK part \in { "msg", "lost" } :
          ReadsBoth(Logging, ReadAt, d2p, dtodo, At(part, op, 0))
    BY <1>1, <1>5, Zenon DEF Asked, Logged
  <2>2. ReadsBoth(Logging, ReadAt, d2p', dtodo', At(part, op, 0))
    BY <1>1, <1>2, <2>1, BothPass, Zenon
  <2>3. Logged'
    BY <1>1, <1>2, <1>3, <2>2, Zenon DEF Logged
  <2>4. Sent'
    BY <1>1, <1>3, <1>5, SentStays, Zenon DEF Asked
  <2>5. Asked'
    BY <1>1, <1>5, <2>3, <2>4, Zenon DEF Asked
  <2>6. QED
    BY <2>5, AgreeAgain
<1>6. CASE Answered
  <2>1. PICK part \in { "done", "lost" } :
          ReadsBoth(Answering, ReadAt, d2p, dtodo, At(part, op, 0))
    BY <1>1, <1>6, Zenon DEF Answered, Told
  <2>2. ReadsBoth(Answering, ReadAt, d2p', dtodo', At(part, op, 0))
    BY <1>1, <1>2, <2>1, BothPass, Zenon
  <2>3. Told'
    BY <1>1, <1>2, <1>3, <2>2, Zenon DEF Told
  <2>4. Answered'
    BY <1>1, <1>6, <2>3, Zenon DEF Answered
  <2>5. QED
    BY <2>4, AgreeAgain
<1>7. QED
  BY <1>4, <1>5, <1>6, AgreeOpen

LEMMA DaemonGoneAgrees ==
    ASSUME Agree, DaemonGone
    PROVE  Agree'
<1>1. /\ daemonUp /\ daemonUp' = FALSE /\ p2d' = << >> /\ dtodo' = << >>
      /\ UNCHANGED << pc, op, held, left, d2p, dpc, dop, dneed >>
  BY Zenon DEF DaemonGone
<1>2. ReadAt' = ReadAt
  BY <1>1, EndsStay, Zenon
<1>3. CASE pc \in { "dead", "spin" }
  BY <1>1, <1>3, SpinStays
<1>4. CASE Asked
  <2>1. Logged'
    <3>1. \E rest \in Seq(Nat), part \in { "msg", "lost" } :
            ReadsBoth(Logging, ReadAt, d2p, rest, At(part, op, 0))
      BY <1>4, Zenon DEF Asked, Logged
    <3>2. QED
      BY <1>1, <1>2, <3>1, Zenon DEF Logged
  <2>2. Sent'
    BY <1>1, Zenon DEF Sent
  <2>3. Asked'
    BY <1>1, <1>4, <2>1, <2>2, Zenon DEF Asked
  <2>4. QED
    BY <2>3, AgreeAgain
<1>5. CASE Answered
  <2>1. Told'
    <3>1. \E rest \in Seq(Nat), part \in { "done", "lost" } :
            ReadsBoth(Answering, ReadAt, d2p, rest, At(part, op, 0))
      BY <1>5, Zenon DEF Answered, Told
    <3>2. QED
      BY <1>1, <1>2, <3>1, Zenon DEF Told
  <2>2. Answered'
    BY <1>1, <1>5, <2>1, Zenon DEF Answered
  <2>3. QED
    BY <2>2, AgreeAgain
<1>6. QED
  BY <1>3, <1>4, <1>5, AgreeOpen

LEMMA DaemonAgrees ==
    ASSUME IInv, InHand, Agree, Daemon
    PROVE  Agree'
  BY DaemonReadTagAgrees, DaemonReadFieldAgrees, DaemonReadLengthAgrees, DaemonReadByteAgrees,
     DaemonLogAgrees, DaemonAnswerAgrees, DaemonWriteAgrees, DaemonGoneAgrees, Zenon DEF Daemon

LEMMA ClientAgrees ==
    ASSUME Agree, Client \/ Rest \/ UNCHANGED vars
    PROVE  Agree'
<1>1. UNCHANGED << pc, op, held, left, p2d, d2p, dtodo, dpc, dop, dneed, daemonUp >>
  BY Zenon DEF Client, ClientSend, ClientRead, ClientDone, ClientGone, Rest, vars
<1>2. QED
  BY <1>1, AgreeStays, Zenon

-----------------------------------------------------------------------------
LEMMA InitInStep == Init => InStep
<1> SUFFICES ASSUME Init PROVE InStep
  OBVIOUS
<1>1. /\ pc = "op" /\ op = NoOp /\ held = << >> /\ p2d = << >> /\ d2p = << >>
      /\ dpc = "op" /\ dtodo = << >> /\ daemonUp
  BY DEF Init, ProxyInit
<1> DEFINE start == At("op", NoOp, 0)
           first == At("msg", NoOp, 0)
<1>2. start \in Places /\ first \in Places
  BY Atoms, SMT DEF Parts
<1>3. DaemonAt = start /\ AskedAt = start /\ heldUp = << >> /\ ReadAt = first
  BY <1>1, SMT DEF DaemonAt, AskedAt, heldUp, ReadAt
<1> HIDE DEF start
<1>4. Sent
  BY <1>1, <1>2, <1>3, BothNothing, Zenon DEF Sent
<1>5. Logged
  <2>1. ReadsBoth(Logging, first, << >>, << >>, first)
    <3> HIDE DEF first
    <3>1. QED
      BY <1>2, BothNothing, Zenon
  <2>2. << >> \in Seq(Nat)
    OBVIOUS
  <2>3. QED
    BY <1>1, <1>3, <2>1, <2>2, Zenon DEF Logged
<1>6. Asked
  BY <1>1, <1>4, <1>5, Zenon DEF Asked, WaitsForClient
<1>7. InHand /\ Gone
  BY <1>1 DEF InHand, Gone
<1>8. QED
  BY <1>1, <1>6, <1>7 DEF InStep, Agree

LEMMA InStepInductive == IInv /\ InStep /\ [Next]_vars => InStep'
<1> SUFFICES ASSUME IInv, InStep, [Next]_vars PROVE InStep'
  OBVIOUS
<1>1. InHand /\ Gone /\ Agree
  BY DEF InStep
<1>2. InHand' /\ Gone'
  BY <1>1, InHandInductive, GoneInductive
<1>3. Agree'
  BY <1>1, ProxyAgrees, DaemonAgrees, ClientAgrees, Zenon DEF Next
<1>4. QED
  BY <1>2, <1>3 DEF InStep

\* Whatever the client sends, whatever the capacities of the pipes and whoever
\* dies, what is on its way takes each reader to where its writer is: neither
\* of proxy and daemon ever takes one part of the protocol for another.
THEOREM ReadersKeepUp == Spec => []InStep
<1>1. Init => IInv /\ InStep
  BY InitIInv, InitInStep
<1>2. IInv /\ InStep /\ [Next]_vars => (IInv /\ InStep)'
  BY IInvInductive, InStepInductive
<1>3. QED
  BY <1>1, <1>2, PTL DEF Spec

LEMMA InStepAligned == InStep => Aligned
<1> SUFFICES ASSUME InStep, pc = "op" PROVE dpc = "op" /\ p2d = << >> /\ d2p = << >> /\ dtodo = << >>
  BY DEF Aligned
<1>1. Asked
  BY AskedFirst DEF InStep, WaitsForClient
<1>2. QED
  BY <1>1, AtRest

\* When the proxy turns to the next operation nothing of the last one is left
\* in the pipes to and from the daemon, and the daemon waits for an opcode.
THEOREM RoundsAligned == Spec => []Aligned
<1>1. Spec => []InStep
  BY ReadersKeepUp
<1>2. QED
  BY <1>1, InStepAligned, PTL

LEMMA InStepSameOperation == InStep => SameOperation
<1> SUFFICES ASSUME InStep, dpc # "op", pc # "dead" PROVE dop = op
  BY DEF SameOperation
<1>1. pc # "spin"
  BY DEF InStep, Agree
<1>2. Asked
  BY <1>1, AgreeOpen DEF InStep, Answered
<1>3. QED
  BY <1>2 DEF Asked

\* While the daemon works on an operation, the proxy has the same in hand: it
\* looks for the answer that operation has.
THEOREM SameOperationInHand == Spec => []SameOperation
<1>1. Spec => []InStep
  BY ReadersKeepUp
<1>2. QED
  BY <1>1, InStepSameOperation, PTL
=============================================================================
