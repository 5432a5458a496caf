------------------------- MODULE SessionLinkProofs -------------------------
(***************************************************************************)
(* The proxy is a pair of links: theorems that Session.tla implements      *)
(* Link.tla in both directions, for every value of its constants.          *)
(***************************************************************************)
EXTENDS SessionAlignment

USE DEF pipes, ends, proxyVars, clientVars, daemonVars

-----------------------------------------------------------------------------
\* Moving numbers from one sequence to the next.

\* The library's facts about concatenation, for sequences of numbers.
LEMMA Joined ==
    ASSUME NEW s \in Seq(Nat), NEW t \in Seq(Nat)
    PROVE  /\ s \o t \in Seq(Nat) /\ Len(s \o t) = Len(s) + Len(t)
           /\ \A i \in 1 .. Len(s) + Len(t) :
                (s \o t)[i] = IF i <= Len(s) THEN s[i] ELSE t[i - Len(s)]
  BY ConcatProperties

LEMMA Regrouped ==
    ASSUME NEW r \in Seq(Nat), NEW s \in Seq(Nat), NEW t \in Seq(Nat)
    PROVE  (r \o s) \o t = r \o (s \o t)
  BY ConcatAssociative

LEMMA OneMore ==
    ASSUME NEW s \in Seq(Nat), NEW x \in Nat
    PROVE  << x >> \in Seq(Nat) /\ Append(s, x) = s \o << x >> /\ Append(s, x) \in Seq(Nat)
<1>1. << x >> \in Seq(Nat) /\ Append(s, x) \in Seq(Nat)
  OBVIOUS
<1>2. Append(s, x) = s \o << x >>
  BY AppendIsConcat, Zenon
<1>3. QED
  BY <1>1, <1>2, Zenon

LEMMA AppendedLast ==
    ASSUME NEW s \in Seq(Nat), NEW t \in Seq(Nat), NEW x \in Nat
    PROVE  s \o Append(t, x) = Append(s \o t, x)
<1> DEFINE one == << x >>
           both == s \o t
<1>1. both \in Seq(Nat)
  BY Joined, Zenon
<1>2. one \in Seq(Nat) /\ Append(t, x) = t \o one /\ Append(both, x) = both \o one
  BY <1>1, OneMore, Zenon
<1> HIDE DEF one
<1>3. (s \o t) \o one = s \o (t \o one)
  BY <1>2, Regrouped, Zenon
<1>4. QED
  BY <1>2, <1>3, Zenon

LEMMA HeadThenTail ==
    ASSUME NEW s \in Seq(Nat), s # << >>
    PROVE  << Head(s) >> \o Tail(s) = s
<1> DEFINE x == Head(s)
           t == Tail(s)
           one == << x >>
           c == one \o t
<1>1. x \in Nat /\ t \in Seq(Nat) /\ Len(t) = Len(s) - 1 /\ x = s[1]
      /\ \A i \in 1 .. Len(t) : t[i] = s[i + 1]
  BY HeadTailProperties
<1>2. Len(s) \in Nat \ { 0 }
  BY EmptySeq, LenProperties
<1> HIDE DEF x, t
<1>3. one \in Seq(Nat) /\ Len(one) = 1 /\ one[1] = x
  BY <1>1
<1> HIDE DEF one
<1>4. /\ c \in Seq(Nat) /\ Len(c) = Len(one) + Len(t)
      /\ \A i \in 1 .. Len(one) + Len(t) :
           c[i] = IF i <= Len(one) THEN one[i] ELSE t[i - Len(one)]
  BY <1>1, <1>3, Joined, Zenon
<1> HIDE DEF c
<1>5. Len(c) = Len(s)
  BY <1>1, <1>2, <1>3, <1>4, SMT
<1>6. ASSUME NEW i \in 1 .. Len(c)
      PROVE  c[i] = s[i]
  <2>1. CASE i = 1
    BY <2>1, <1>1, <1>2, <1>3, <1>4, <1>5, SMT
  <2>2. CASE i # 1
    <3>1. c[i] = t[i - 1] /\ i - 1 \in 1 .. Len(t) /\ (i - 1) + 1 = i
      BY <2>2, <1>1, <1>2, <1>3, <1>4, <1>5, SMT
    <3>2. t[i - 1] = s[(i - 1) + 1]
      BY <3>1, <1>1, Zenon
    <3>3. QED
      BY <3>1, <3>2, Zenon
  <2>3. QED
    BY <2>1, <2>2
<1>7. c = s
  BY <1>4, <1>5, <1>6, SeqEqual, Zenon
<1>8. QED
  BY <1>7, Zenon DEF c, one, x, t

\* The first of t follows the last of s.
LEMMA Handed ==
    ASSUME NEW s \in Seq(Nat), NEW t \in Seq(Nat), t # << >>
    PROVE  Append(s, Head(t)) \o Tail(t) = s \o t
<1> DEFINE one == << Head(t) >>
<1>1. Head(t) \in Nat /\ Tail(t) \in Seq(Nat)
  BY HeadAndTail
<1>2. one \in Seq(Nat)
  BY <1>1
<1>3. Append(s, Head(t)) = s \o one
  BY <1>1, AppendIsConcat, Zenon
<1>4. one \o Tail(t) = t
  BY HeadThenTail, Zenon
<1> HIDE DEF one
<1>5. (s \o one) \o Tail(t) = s \o (one \o Tail(t))
  BY <1>1, <1>2, Regrouped, Zenon
<1>6. QED
  BY <1>3, <1>4, <1>5, Zenon

\* The same after a sequence that is left alone.
LEMMA HandedOn ==
    ASSUME NEW r \in Seq(Nat), NEW s \in Seq(Nat), NEW t \in Seq(Nat), t # << >>
    PROVE  (r \o Append(s, Head(t))) \o Tail(t) = (r \o s) \o t
<1>1. Head(t) \in Nat /\ r \o s \in Seq(Nat)
  BY HeadAndTail, ConcatProperties
<1>2. r \o Append(s, Head(t)) = Append(r \o s, Head(t))
  BY <1>1, AppendedLast, Zenon
<1>3. Append(r \o s, Head(t)) \o Tail(t) = (r \o s) \o t
  BY <1>1, Handed, Zenon
<1>4. QED
  BY <1>2, <1>3, Zenon

LEMMA TailFirst ==
    ASSUME NEW s \in Seq(Nat), NEW t \in Seq(Nat), s # << >>
    PROVE  /\ s \o t # << >> /\ Tail(s \o t) = Tail(s) \o t
           /\ Tail(s) \in Seq(Nat) /\ s \o t \in Seq(Nat) /\ Tail(s) \o t \in Seq(Nat)
<1> DEFINE c == s \o t
           d == Tail(s) \o t
           e == Tail(c)
<1>1. Tail(s) \in Seq(Nat) /\ Len(Tail(s)) = Len(s) - 1
      /\ \A i \in 1 .. Len(Tail(s)) : Tail(s)[i] = s[i + 1]
  BY HeadTailProperties, Zenon
<1>2. Len(s) \in Nat \ { 0 } /\ Len(t) \in Nat
  BY EmptySeq, LenProperties
<1>3. c \in Seq(Nat) /\ Len(c) = Len(s) + Len(t)
      /\ \A i \in 1 .. Len(s) + Len(t) : c[i] = IF i <= Len(s) THEN s[i] ELSE t[i - Len(s)]
  BY ConcatProperties, Zenon
<1>4. d \in Seq(Nat) /\ Len(d) = Len(Tail(s)) + Len(t)
      /\ \A i \in 1 .. Len(Tail(s)) + Len(t) :
           d[i] = IF i <= Len(Tail(s)) THEN Tail(s)[i] ELSE t[i - Len(Tail(s))]
  BY <1>1, ConcatProperties, Zenon
<1> HIDE DEF c, d
<1>5. Len(c) # 0
  BY <1>2, <1>3, SMT
<1>6. c # << >>
  BY <1>5, EmptySeq, Zenon
<1>7. e \in Seq(Nat) /\ Len(e) = Len(c) - 1 /\ \A i \in 1 .. Len(e) : e[i] = c[i + 1]
  BY <1>3, <1>6, HeadTailProperties, Zenon
<1> HIDE DEF e
<1> DEFINE u == Tail(s)
<1>8. Len(u) = Len(s) - 1 /\ (\A i \in 1 .. Len(u) : u[i] = s[i + 1])
      /\ Len(d) = Len(u) + Len(t)
      /\ \A i \in 1 .. Len(u) + Len(t) : d[i] = IF i <= Len(u) THEN u[i] ELSE t[i - Len(u)]
  BY <1>1, <1>4, Zenon
<1> HIDE DEF u
<1>9. Len(e) = Len(d)
  BY <1>2, <1>3, <1>7, <1>8, SMT
<1>10. ASSUME NEW i \in 1 .. Len(e)
       PROVE  e[i] = d[i]
  <2>1. e[i] = c[i + 1] /\ i + 1 \in 1 .. Len(s) + Len(t) /\ i \in 1 .. Len(u) + Len(t)
    BY <1>2, <1>3, <1>7, <1>8, SMT
  <2>2. CASE i <= Len(u)
    <3>1. i \in 1 .. Len(u) /\ i + 1 <= Len(s)
      BY <2>2, <1>2, <1>8, SMT
    <3>2. QED
      BY <2>1, <2>2, <3>1, <1>3, <1>8, Zenon
  <2>3. CASE ~ (i <= Len(u))
    <3>1. ~ (i + 1 <= Len(s)) /\ (i + 1) - Len(s) = i - Len(u)
      BY <2>3, <1>2, <1>8, SMT
    <3>2. c[i + 1] = t[(i + 1) - Len(s)] /\ d[i] = t[i - Len(u)]
      BY <2>1, <2>3, <3>1, <1>3, <1>8, Zenon
    <3>3. QED
      BY <2>1, <3>1, <3>2, Zenon
  <2>4. QED
    BY <2>2, <2>3
<1>11. e = d
  BY <1>4, <1>7, <1>9, <1>10, SeqEqual, Zenon
<1>12. QED
  BY <1>1, <1>3, <1>4, <1>6, <1>11, Zenon DEF c, d, e

\* s begins s followed by t.
LEMMA Prefix ==
    ASSUME NEW s \in Seq(Nat), NEW t \in Seq(Nat)
    PROVE  /\ Len(s) \in 0 .. Len(s \o t)
           /\ SubSeq(s \o t, 1, Len(s)) = s
<1> DEFINE c == s \o t
           d == SubSeq(c, 1, Len(s))
<1>1. Len(s) \in Nat /\ Len(t) \in Nat /\ \A i \in 1 .. Len(s) : s[i] \in Nat
  BY LenProperties, ElementOfSeq, Zenon
<1>2. c \in Seq(Nat) /\ Len(c) = Len(s) + Len(t)
      /\ \A i \in 1 .. Len(s) + Len(t) : c[i] = IF i <= Len(s) THEN s[i] ELSE t[i - Len(s)]
  BY ConcatProperties, Zenon
<1> HIDE DEF c
<1>3. \A i \in 1 .. Len(s) : c[i] = s[i] /\ c[i] \in Nat
  BY <1>1, <1>2, SMT
<1>4. 1 \in Int /\ Len(s) \in Int
  BY <1>1, SMT
<1>5. /\ d \in Seq(Nat)
      /\ Len(d) = IF 1 <= Len(s) THEN Len(s) - 1 + 1 ELSE 0
      /\ \A i \in 1 .. Len(s) - 1 + 1 : d[i] = c[1 + i - 1]
  BY <1>3, <1>4, SubSeqProperties
<1> HIDE DEF d
<1>6. Len(d) = Len(s)
  BY <1>1, <1>5, SMT
<1>7. ASSUME NEW i \in 1 .. Len(s)
      PROVE  d[i] = s[i]
  <2>1. i \in 1 .. Len(s) - 1 + 1 /\ 1 + i - 1 = i
    BY <1>1, SMT
  <2>2. d[i] = c[i]
    BY <1>5, <2>1, Zenon
  <2>3. QED
    BY <1>3, <2>2, Zenon
<1>8. d = s
  BY <1>5, <1>6, <1>7, SeqEqual, Zenon
<1>9. Len(s) \in 0 .. Len(c)
  BY <1>1, <1>2, SMT
<1>10. QED
  BY <1>8, <1>9, Zenon DEF c, d

-----------------------------------------------------------------------------
\* The steps of a link, from the daemon to the client.

DownStep == [Down!Next]_(Down!vars)

LEMMA DownStutters ==
    ASSUME downQueue' = downQueue, downCut' = downCut, answered' = answered
    PROVE  DownStep
  BY Zenon DEF DownStep, Down!vars

LEMMA DownSends ==
    ASSUME NEW x \in Nat, downQueue \in Seq(Nat), ~ downCut,
           downQueue' = Append(downQueue, x), downCut' = downCut, answered' = answered
    PROVE  DownStep
<1> DEFINE one == << x >>
<1>1. one \in Seq(Nat) /\ downQueue' = downQueue \o one
  BY OneMore, Zenon
<1>2. Len(downQueue') = Len(downQueue) + 1
  BY Appended, Zenon
<1> HIDE DEF one
<1>3. SubSeq(downQueue', 1, Len(downQueue)) = downQueue
  BY <1>1, Prefix, Zenon
<1>4. Down!Send
  BY <1>2, <1>3, Zenon DEF Down!Send
<1>5. QED
  BY <1>4, Zenon DEF DownStep, Down!Next

LEMMA DownArrives ==
    ASSUME downQueue # << >>, downQueue' = Tail(downQueue), downCut' = downCut,
           answered' = answered + 1
    PROVE  DownStep
  BY Zenon DEF DownStep, Down!Next, Down!Arrive

LEMMA DownCuts ==
    ASSUME NEW t \in Seq(Nat), downQueue' \in Seq(Nat), downQueue = downQueue' \o t,
           downCut' = TRUE, answered' = answered
    PROVE  DownStep
<1>1. /\ Len(downQueue') \in 0 .. Len(downQueue)
      /\ SubSeq(downQueue, 1, Len(downQueue')) = downQueue'
  BY Prefix, Zenon
<1>2. Down!Cut
  BY <1>1, Zenon DEF Down!Cut
<1>3. QED
  BY <1>2, Zenon DEF DownStep, Down!Next

-----------------------------------------------------------------------------
\* What is on its way to the client.

\* What lies between the daemon and the client while both are there.
Below == (p2c \o out) \o heldDown

LEMMA OnTheWay ==
    ASSUME IInv
    PROVE  /\ c2p \in Seq(Nat) /\ p2d \in Seq(Nat) /\ d2p \in Seq(Nat) /\ p2c \in Seq(Nat)
           /\ out \in Seq(Nat) /\ held \in Seq(Nat)
           /\ heldUp \in Seq(Nat) /\ heldDown \in Seq(Nat)
           /\ p2c \o out \in Seq(Nat) /\ Below \in Seq(Nat)
           /\ Below \o d2p \in Seq(Nat)
<1>1. /\ c2p \in Seq(Nat) /\ p2d \in Seq(Nat) /\ d2p \in Seq(Nat) /\ p2c \in Seq(Nat)
      /\ out \in Seq(Nat) /\ held \in Seq(Nat)
  BY Zenon DEF IInv, TypeOK
<1>2. << >> \in Seq(Nat)
  OBVIOUS
<1>3. heldUp \in Seq(Nat) /\ heldDown \in Seq(Nat)
  BY <1>1, <1>2, Zenon DEF heldUp, heldDown
<1>4. p2c \o out \in Seq(Nat)
  BY <1>1, Joined, Zenon
<1>5. Below \in Seq(Nat)
  BY <1>3, <1>4, Joined, Zenon DEF Below
<1>6. Below \o d2p \in Seq(Nat)
  BY <1>1, <1>5, Joined, Zenon
<1>7. QED
  BY <1>1, <1>3, <1>4, <1>5, <1>6, Zenon

LEMMA DownOpen ==
    ASSUME clientRd, pc # "dead"
    PROVE  downQueue = Below \o d2p /\ downCut = FALSE
  BY Zenon DEF downQueue, downCut, Below

LEMMA DownOpenNext ==
    ASSUME clientRd', pc' # "dead"
    PROVE  downQueue' = Below' \o d2p' /\ downCut' = FALSE
  BY Zenon DEF downQueue, downCut, Below

\* Nothing of it changes.
LEMMA DownLeft ==
    ASSUME p2c' = p2c, out' = out, heldDown' = heldDown, d2p' = d2p, answered' = answered,
           clientRd' = clientRd, pc' = "dead" <=> pc = "dead"
    PROVE  DownStep
<1>1. downQueue' = downQueue /\ downCut' = downCut
  BY Zenon DEF downQueue, downCut
<1>2. QED
  BY <1>1, DownStutters

\* Something of it passes from one place to the next.
LEMMA DownPasses ==
    ASSUME clientRd, pc # "dead", clientRd', pc' # "dead", answered' = answered,
           Below' \o d2p' = Below \o d2p
    PROVE  DownStep
<1>1. downQueue' = downQueue /\ downCut' = downCut
  BY DownOpen, DownOpenNext, Zenon
<1>2. QED
  BY <1>1, DownStutters

\* A panic writes out what is buffered, and loses what is in hand or behind it.
LEMMA DownPanics ==
    ASSUME IInv, IInv', clientRd, pc # "dead", pc' = "dead", answered' = answered,
           clientRd' = clientRd, p2c' = p2c, out' = out
    PROVE  DownStep
<1>1. /\ p2c \o out \in Seq(Nat) /\ heldDown \in Seq(Nat) /\ d2p \in Seq(Nat)
  BY OnTheWay, Zenon
<1>2. heldDown \o d2p \in Seq(Nat)
  BY <1>1, Joined, Zenon
<1>3. downQueue = (p2c \o out) \o (heldDown \o d2p)
  BY <1>1, DownOpen, Regrouped, Zenon DEF Below
<1>4. downQueue' = p2c \o out /\ downCut' = TRUE
  BY Zenon DEF downQueue, downCut
<1>5. QED
  BY <1>1, <1>2, <1>3, <1>4, DownCuts, Zenon

\* What the proxy holds for the daemon is none of it.
LEMMA FromClientDown ==
    ASSUME IInv, IInv', clientRd, FromClient, answered' = answered
    PROVE  DownStep
<1>1. CASE Panic
  <2>1. pc # "dead"
    BY <1>1 DEF FromClient, ReceiveTag, ReceiveField, ReceiveUndecodable, ReceiveEof,
       ReceiveFailed, StreamingLength, GetStream, StreamEof
  <2>2. QED
    BY <1>1, <2>1, DownPanics, Zenon DEF Panic
<1>2. CASE ~ Panic
  <2>1. /\ pc \in WaitsForClient /\ pc' \in WaitsForClient
        /\ UNCHANGED << p2c, out, d2p, clientRd >>
    BY <1>2 DEF FromClient, ReceiveTag, ReceiveField, ReceiveUndecodable, ReceiveEof,
       ReceiveFailed, StreamingLength, GetStream, StreamEof, WaitsForClient, ToDaemon
  <2>2. heldDown' = heldDown /\ pc # "dead" /\ pc' # "dead"
    BY <2>1 DEF heldDown, WaitsForClient, ToDaemon
  <2>3. QED
    BY <2>1, <2>2, DownLeft, Zenon
<1>3. QED
  BY <1>1, <1>2

LEMMA IntoDaemonDown ==
    ASSUME IInv, IInv', clientRd, IntoDaemon, answered' = answered
    PROVE  DownStep
<1>1. CASE SendWorkerOp \/ StreamingWriteLen \/ StreamingWriteBuff
  <2>1. /\ pc \in ToDaemon /\ pc' \in ToDaemon \cup { "framelen", "framedata", "msg" }
        /\ heldUp' = held' /\ UNCHANGED << p2c, out, d2p, clientRd >>
    BY <1>1, WriteStays, Zenon
  <2>2. heldDown = << >>
    BY <2>1 DEF heldDown, WaitsForClient
  <2>3. heldDown' = << >>
    <3>1. pc' \notin WaitsForClient => held' = << >>
      BY <2>1, Zenon DEF heldUp
    <3>2. QED
      BY <3>1, Zenon DEF heldDown
  <2>4. pc # "dead" /\ pc' # "dead"
    BY <2>1 DEF ToDaemon
  <2>5. QED
    BY <2>1, <2>2, <2>3, <2>4, DownLeft, Zenon
<1>2. CASE DaemonPipeBroken
  <2>1. pc # "dead" /\ Panic
    BY <1>2 DEF DaemonPipeBroken, ToDaemon
  <2>2. QED
    BY <2>1, DownPanics, Zenon DEF Panic
<1>3. QED
  BY <1>1, <1>2, Zenon DEF IntoDaemon

\* A number the daemon sent is in hand.
LEMMA DownTaken ==
    ASSUME IInv, clientRd, pc \notin WaitsForClient \cup { "dead" },
           pc' \notin WaitsForClient \cup { "dead" }, d2p # << >>,
           held' = Append(held, Head(d2p)), d2p' = Tail(d2p),
           UNCHANGED << p2c, out, clientRd, answered >>
    PROVE  DownStep
<1>1. p2c \o out \in Seq(Nat) /\ held \in Seq(Nat) /\ d2p \in Seq(Nat)
  BY OnTheWay, Zenon
<1>2. heldDown = held /\ heldDown' = held'
  BY Zenon DEF heldDown
<1>3. Below' \o d2p' = ((p2c \o out) \o Append(held, Head(d2p))) \o Tail(d2p)
  BY <1>2, Zenon DEF Below
<1>4. Below \o d2p = ((p2c \o out) \o held) \o d2p
  BY <1>2, Zenon DEF Below
<1>5. Below' \o d2p' = Below \o d2p
  BY <1>1, <1>3, <1>4, HandedOn, Zenon
<1>6. QED
  BY <1>5, DownPasses, Zenon

\* A daemon that writes bools as serialize_bool does gets no bool rewritten.
LEMMA ReplyUnchanged ==
    ASSUME BoolsConform, IInv, InHand, Agree, ReadBuildResponse
    PROVE  Reencoded(Reply(op)[Len(held) + 1], Head(d2p)) = Head(d2p)
<1> DEFINE n == Len(Reply(op)) - Len(held)
           a == ReadAt
           w == Head(d2p)
<1>1. pc = "reply" /\ op \in WorkerOp /\ d2p # << >> /\ Len(held) < Len(Reply(op))
  BY Zenon DEF ReadBuildResponse, InHand
<1>2. Answered
  BY <1>1, AgreeOpen DEF Asked, WaitsForClient, ToDaemon
<1>3. d2p \in Seq(Nat) /\ w \in Nat /\ Len(held) \in Nat /\ Len(Reply(op)) \in Nat
  BY <1>1, HeadAndTail, LenProperties, ReplyIsSeq DEF IInv, TypeOK
<1>4. PICK rest \in Seq(Nat), part \in { "done", "lost" } :
        ReadsBoth(Answering, a, d2p, rest, At(part, op, 0))
  BY <1>2, Zenon DEF Answered, Told
<1>5. PICK m \in Places : Move(Answering, a, w, m)
  BY <1>1, <1>3, <1>4, BothFirst, Zenon
<1>6. n \in Nat /\ Len(Reply(op)) + 1 - n = Len(held) + 1
  BY <1>1, <1>3, SMT
<1>7. a = At("reply", op, n)
  BY <1>1, SMT DEF ReadAt
<1> HIDE DEF n
<1>8. a \in Places /\ a.part = "reply" /\ a.op = op /\ a.left = n
  BY <1>1, <1>6, <1>7, SMT DEF At, Places, Parts
<1> HIDE DEF a, w
<1>9. ~ Move(Logging, a, w, m)
  BY <1>3, <1>8, MovesInLogging, SMT
<1>10. Reply(a.op)[Len(Reply(a.op)) + 1 - a.left] = "bool" => w \in { 0, 1 }
  <2> DEFINE kind == Reply(a.op)[Len(Reply(a.op)) + 1 - a.left]
  <2>1. a.part # "msg" /\ a.part # "nar" /\ a.part = "reply"
    BY <1>8, Zenon
  <2>2. BoolsConform /\ kind = "bool" => w \in { 0, 1 }
    BY <1>3, <1>5, <1>8, <1>9, <2>1, MovesInAnswering, Zenon
  <2>3. QED
    BY <2>2, Zenon
<1>11. Reply(op)[Len(held) + 1] = "bool" => w \in { 0, 1 }
  BY <1>6, <1>8, <1>10, Zenon
<1>12. QED
  BY <1>11, Zenon DEF Reencoded, w

LEMMA FromDaemonDown ==
    ASSUME BoolsConform, IInv, IInv', InStep, clientRd, FromDaemon, answered' = answered
    PROVE  DownStep
<1>1. CASE ReadErrorMsg
  <2>1. /\ pc = "msg" /\ pc' \in { "msg", "sendlast", "sendmsg" } /\ d2p # << >>
        /\ held' = Append(held, Head(d2p)) /\ d2p' = Tail(d2p)
        /\ UNCHANGED << p2c, out, clientRd >>
    BY <1>1 DEF ReadErrorMsg
  <2>2. pc \notin WaitsForClient \cup { "dead" } /\ pc' \notin WaitsForClient \cup { "dead" }
    BY <2>1 DEF WaitsForClient, ToDaemon
  <2>3. QED
    BY <2>1, <2>2, DownTaken, Zenon
<1>2. CASE ReadBuildResponse
  <2>1. /\ pc = "reply" /\ pc' \in { "reply", "sendreply" } /\ d2p # << >>
        /\ held' = Append(held, Reencoded(Reply(op)[Len(held) + 1], Head(d2p)))
        /\ d2p' = Tail(d2p) /\ UNCHANGED << p2c, out, clientRd >>
    BY <1>2, Zenon DEF ReadBuildResponse
  <2>2. Reencoded(Reply(op)[Len(held) + 1], Head(d2p)) = Head(d2p)
    BY <1>2, ReplyUnchanged, Zenon DEF InStep
  <2>3. held' = Append(held, Head(d2p))
    BY <2>1, <2>2, Zenon
  <2>4. pc \notin WaitsForClient \cup { "dead" } /\ pc' \notin WaitsForClient \cup { "dead" }
    BY <2>1 DEF WaitsForClient, ToDaemon
  <2>5. QED
    BY <2>1, <2>3, <2>4, DownTaken, Zenon
<1>3. CASE ResponseUndecodable
  <2>1. pc # "dead" /\ Panic
    BY <1>3 DEF ResponseUndecodable
  <2>2. QED
    BY <2>1, DownPanics, Zenon DEF Panic
<1>4. CASE StreamNar
  <2>1. /\ pc = "nar" /\ pc' = "sendnar" /\ d2p # << >>
        /\ held' = << Head(d2p) >> /\ d2p' = Tail(d2p)
        /\ UNCHANGED << p2c, out, clientRd >>
    BY <1>4, Zenon DEF StreamNar
  <2>2. held = << >>
    BY <2>1 DEF IInv, HeldFits
  <2>3. held' = Append(held, Head(d2p))
    BY <2>1, <2>2
  <2>4. pc \notin WaitsForClient \cup { "dead" } /\ pc' \notin WaitsForClient \cup { "dead" }
    BY <2>1 DEF WaitsForClient, ToDaemon
  <2>5. QED
    BY <2>1, <2>3, <2>4, DownTaken, Zenon
<1>5. CASE DaemonEof
  <2>1. CASE Panic
    <3>1. pc # "dead"
      BY <1>5 DEF DaemonEof
    <3>2. QED
      BY <2>1, <3>1, DownPanics, Zenon DEF Panic
  <2>2. CASE /\ pc = "nar" /\ pc' = "spin"
             /\ UNCHANGED << pipes, ends, op, held, left, out, due, failed >>
    <3>1. heldDown' = heldDown
      BY <2>2 DEF heldDown, WaitsForClient, ToDaemon
    <3>2. QED
      BY <2>2, <3>1, DownLeft, Zenon
  <2>3. QED
    BY <1>5, <2>1, <2>2, Zenon DEF DaemonEof
<1>6. QED
  BY <1>1, <1>2, <1>3, <1>4, <1>5, Zenon DEF FromDaemon

LEMMA IntoClientDown ==
    ASSUME IInv, IInv', InStep, clientRd, IntoClient, answered' = answered
    PROVE  DownStep
<1>1. CASE SendErrorToClient \/ WriteBuildResponse \/ WriteNar
  <2>1. PICK next :
          /\ WriteClient(next) /\ held # << >>
          /\ IF held' = << >> THEN pc' = next ELSE pc' = pc
          /\ \/ pc = "sendmsg" /\ next = "msg"
             \/ pc = "sendlast" /\ next = ToReply
             \/ pc = "sendreply" /\ next = "flush"
             \/ pc = "sendnar" /\ next = IF Head(held) = NarEnd THEN "flush" ELSE "nar"
    BY <1>1, Passed, Zenon DEF InStep
  <2>2. /\ pc \in ToClient /\ pc' \in ToClient \cup { "msg", "nar", "flush", "reply" }
    BY <2>1, Zenon DEF ToReply, ToClient
  <2>3. pc \notin WaitsForClient \cup { "dead" } /\ pc' \notin WaitsForClient \cup { "dead" }
    BY <2>2 DEF WaitsForClient, ToDaemon, ToClient
  <2>4. /\ out' = Append(out, Head(held)) /\ held' = Tail(held)
        /\ UNCHANGED << p2c, d2p, clientRd >>
    BY <2>1, Zenon DEF WriteClient
  <2>5. p2c \in Seq(Nat) /\ out \in Seq(Nat) /\ held \in Seq(Nat)
    BY OnTheWay, Zenon
  <2>6. Below = (p2c \o out) \o held
    BY <2>3, Zenon DEF Below, heldDown
  <2>7. Below' = (p2c \o Append(out, Head(held))) \o Tail(held)
    BY <2>3, <2>4, Zenon DEF Below, heldDown
  <2>8. Below' = Below
    BY <2>1, <2>5, <2>6, <2>7, HandedOn, Zenon
  <2>9. QED
    BY <2>3, <2>4, <2>8, DownPasses, Zenon
<1>2. CASE Spill \/ FlushTxToClient
  <2>1. UNCHANGED << pc, held, p2c, out, d2p, clientRd >>
    BY <1>2, Zenon DEF Spill, FlushTxToClient
  <2>2. heldDown' = heldDown
    BY <2>1, Zenon DEF heldDown
  <2>3. QED
    BY <2>1, <2>2, DownLeft, Zenon
<1>3. CASE NextRound
  <2>1. /\ pc = "flush" /\ pc' = "op" /\ UNCHANGED << held, p2c, out, d2p, clientRd >>
    BY <1>3, Zenon DEF NextRound
  <2>2. held = << >>
    BY <2>1 DEF IInv, HeldFits
  <2>3. heldDown' = heldDown /\ pc # "dead" /\ pc' # "dead"
    BY <2>1, <2>2 DEF heldDown
  <2>4. QED
    BY <2>1, <2>3, DownLeft, Zenon
<1>4. QED
  BY <1>1, <1>2, <1>3, Zenon DEF IntoClient

\* A process that has died still writes out what it had buffered.
LEMMA WriteOutDown ==
    ASSUME IInv, due > 0, clientRd, WriteOut, answered' = answered
    PROVE  DownStep
<1>1. /\ p2c' = Append(p2c, Head(out)) /\ out' = Tail(out)
      /\ UNCHANGED << pc, held, d2p, clientRd >>
  BY Zenon DEF WriteOut, Drain, ClientPipeBroken
<1>2. p2c \in Seq(Nat) /\ out \in Seq(Nat)
  BY OnTheWay, Zenon
<1>3. out # << >>
  BY <1>2 DEF IInv, TypeOK
<1>4. p2c' \o out' = p2c \o out
  BY <1>1, <1>2, <1>3, Handed, Zenon
<1>5. heldDown' = heldDown
  BY <1>1, Zenon DEF heldDown
<1>6. downQueue' = downQueue /\ downCut' = downCut
  BY <1>1, <1>4, <1>5, Zenon DEF downQueue, downCut
<1>7. QED
  BY <1>6, DownStutters, Zenon

LEMMA ClientReadDown ==
    ASSUME IInv, ClientRead
    PROVE  DownStep
<1>1. /\ clientRd /\ p2c # << >> /\ p2c' = Tail(p2c) /\ answered' = answered + 1
      /\ UNCHANGED << pc, held, out, d2p, clientRd >>
  BY Zenon DEF ClientRead
<1>2. p2c \in Seq(Nat) /\ out \in Seq(Nat) /\ heldDown \in Seq(Nat) /\ d2p \in Seq(Nat)
  BY OnTheWay, Zenon
<1>3. heldDown' = heldDown
  BY <1>1, Zenon DEF heldDown
<1> DEFINE s == p2c \o out
<1>4. /\ s # << >> /\ Tail(s) = Tail(p2c) \o out
      /\ s \in Seq(Nat)
  BY <1>1, <1>2, TailFirst, Zenon
<1>5. p2c' \o out' = Tail(s)
  BY <1>1, <1>4, Zenon
<1>6. CASE pc = "dead"
  <2>1. downQueue = s /\ downQueue' = Tail(s) /\ downCut' = downCut
    BY <1>1, <1>5, <1>6, Zenon DEF downQueue, downCut
  <2>2. QED
    BY <1>1, <1>4, <2>1, DownArrives, Zenon
<1>7. CASE pc # "dead"
  <2>1. downQueue = (s \o heldDown) \o d2p
    BY <1>1, <1>7, DownOpen, Zenon DEF Below
  <2>2. downQueue' = (Tail(s) \o heldDown) \o d2p /\ downCut' = downCut
    BY <1>1, <1>3, <1>5, <1>7, DownOpen, DownOpenNext, Zenon DEF Below
  <2> HIDE DEF s
  <2> DEFINE t == s \o heldDown
  <2>3. t # << >> /\ Tail(t) = Tail(s) \o heldDown /\ t \in Seq(Nat)
    BY <1>2, <1>4, TailFirst, Zenon
  <2>4. downQueue = t \o d2p /\ downQueue' = Tail(t) \o d2p
    BY <2>1, <2>2, <2>3, Zenon
  <2> HIDE DEF t
  <2>5. t \o d2p # << >> /\ Tail(t \o d2p) = Tail(t) \o d2p
    BY <1>2, <2>3, TailFirst, Zenon
  <2>6. QED
    BY <1>1, <2>2, <2>4, <2>5, DownArrives, Zenon
<1>8. QED
  BY <1>6, <1>7

LEMMA ClientDown ==
    ASSUME IInv, clientRd, Client
    PROVE  DownStep
<1>1. CASE ClientRead
  BY <1>1, ClientReadDown
<1>2. CASE ClientSend \/ ClientDone
  <2>1. UNCHANGED << pc, held, p2c, out, d2p, clientRd, answered >>
    BY <1>2, Zenon DEF ClientSend, ClientDone
  <2>2. heldDown' = heldDown
    BY <2>1, Zenon DEF heldDown
  <2>3. QED
    BY <2>1, <2>2, DownLeft, Zenon
<1>3. CASE ClientGone
  <2>1. downQueue' = << >> /\ downCut' = TRUE /\ answered' = answered
    BY <1>3, Zenon DEF ClientGone, downQueue, downCut
  <2>2. downQueue \in Seq(Nat) /\ << >> \in Seq(Nat)
    <3>1. Below \o d2p \in Seq(Nat) /\ p2c \o out \in Seq(Nat)
      BY OnTheWay, Zenon
    <3>2. << >> \in Seq(Nat)
      OBVIOUS
    <3>3. QED
      BY <3>1, <3>2, Zenon DEF downQueue, Below
  <2>3. downQueue = << >> \o downQueue
    BY <2>2, ConcatEmptySeq, Zenon
  <2>4. QED
    BY <2>1, <2>2, <2>3, DownCuts, Zenon
<1>4. QED
  BY <1>1, <1>2, <1>3, Zenon DEF Client

LEMMA DaemonDown ==
    ASSUME IInv, clientRd, Daemon
    PROVE  DownStep
<1>1. UNCHANGED << pc, held, p2c, out, clientRd, answered >>
  BY Zenon DEF Daemon, DaemonReadTag, DaemonReadField, DaemonReadLength, DaemonReadByte,
     DaemonLog, DaemonAnswer, DaemonWrite, DaemonGone
<1>2. heldDown' = heldDown
  BY <1>1, Zenon DEF heldDown
<1>3. CASE ~ DaemonWrite
  <2>1. d2p' = d2p
    BY <1>3, Zenon DEF Daemon, DaemonReadTag, DaemonReadField, DaemonReadLength,
       DaemonReadByte, DaemonLog, DaemonAnswer, DaemonGone
  <2>2. QED
    BY <1>1, <1>2, <2>1, DownLeft, Zenon
<1>4. CASE DaemonWrite
  <2>1. d2p' = Append(d2p, Head(dtodo)) /\ dtodo # << >>
    BY <1>4, Zenon DEF DaemonWrite
  <2>2. Head(dtodo) \in Nat
    BY <2>1, HeadAndTail DEF IInv, TypeOK
  <2>3. CASE pc = "dead"
    <3>1. downQueue' = downQueue /\ downCut' = downCut
      BY <1>1, <2>3, Zenon DEF downQueue, downCut
    <3>2. QED
      BY <1>1, <3>1, DownStutters, Zenon
  <2>4. CASE pc # "dead"
    <3>1. Below \in Seq(Nat) /\ d2p \in Seq(Nat) /\ Below \o d2p \in Seq(Nat)
      BY OnTheWay, Zenon
    <3>2. Below' = Below
      BY <1>1, <1>2, Zenon DEF Below
    <3>3. downQueue = Below \o d2p /\ downCut = FALSE /\ downCut' = FALSE
          /\ downQueue' = Below \o Append(d2p, Head(dtodo))
      BY <1>1, <2>1, <2>4, <3>2, DownOpen, DownOpenNext, Zenon
    <3>4. Below \o Append(d2p, Head(dtodo)) = Append(Below \o d2p, Head(dtodo))
      BY <2>2, <3>1, AppendedLast, Zenon
    <3>5. downQueue' = Append(downQueue, Head(dtodo)) /\ downQueue \in Seq(Nat)
      BY <3>1, <3>3, <3>4, Zenon
    <3>6. QED
      BY <1>1, <2>2, <3>3, <3>5, DownSends, Zenon
  <2>5. QED
    BY <2>3, <2>4
<1>5. QED
  BY <1>3, <1>4

\* Nothing more reaches a client that does not read.
LEMMA DownClosed ==
    ASSUME ~ clientRd, [Next]_vars
    PROVE  DownStep
<1>1. clientRd' = clientRd /\ answered' = answered
  <2>1. CASE Proxy
    BY <2>1, Zenon DEF Proxy, ProxyNext, FromClient, ReceiveTag, ReceiveField,
       ReceiveUndecodable, ReceiveEof, ReceiveFailed, StreamingLength, GetStream, StreamEof,
       IntoDaemon, SendWorkerOp, StreamingWriteLen, StreamingWriteBuff, WriteDaemon,
       DaemonPipeBroken, FromDaemon, ReadErrorMsg, ReadBuildResponse, ResponseUndecodable,
       StreamNar, DaemonEof, IntoClient, SendErrorToClient, WriteBuildResponse, WriteNar,
       WriteClient, Spill, FlushTxToClient, NextRound, WriteOut, Drain, ClientPipeBroken, Panic
  <2>2. CASE Client
    BY <2>2, Zenon DEF Client, ClientSend, ClientRead, ClientDone, ClientGone
  <2>3. CASE Daemon
    BY <2>3, Zenon DEF Daemon, DaemonReadTag, DaemonReadField, DaemonReadLength,
       DaemonReadByte, DaemonLog, DaemonAnswer, DaemonWrite, DaemonGone
  <2>4. CASE Rest \/ UNCHANGED vars
    BY <2>4, Zenon DEF Rest, vars
  <2>5. QED
    BY <2>1, <2>2, <2>3, <2>4, Zenon DEF Next
<1>2. downQueue' = downQueue /\ downCut' = downCut
  BY <1>1, Zenon DEF downQueue, downCut
<1>3. QED
  BY <1>1, <1>2, DownStutters

LEMMA StepsDown ==
    ASSUME BoolsConform, IInv, IInv', InStep, [Next]_vars
    PROVE  DownStep
<1>1. CASE ~ clientRd
  BY <1>1, DownClosed
<1>2. CASE clientRd /\ Proxy
  <2>1. answered' = answered /\ ProxyNext
    BY <1>2, Zenon DEF Proxy
  <2>2. QED
    BY <1>2, <2>1, FromClientDown, IntoDaemonDown, FromDaemonDown, IntoClientDown, WriteOutDown,
       Zenon DEF ProxyNext
<1>3. CASE clientRd /\ (Client \/ Daemon)
  BY <1>3, ClientDown, DaemonDown
<1>4. CASE Rest \/ UNCHANGED vars
  <2>1. UNCHANGED << pc, held, p2c, out, d2p, clientRd, answered >>
    BY <1>4, Zenon DEF Rest, vars
  <2>2. heldDown' = heldDown
    BY <2>1, Zenon DEF heldDown
  <2>3. QED
    BY <2>1, <2>2, DownLeft, Zenon
<1>5. QED
  BY <1>1, <1>2, <1>3, <1>4, Zenon DEF Next

LEMMA InitDown == Init => Down!Init
<1> SUFFICES ASSUME Init PROVE Down!Init
  OBVIOUS
<1>1. /\ p2c = << >> /\ d2p = << >> /\ out = << >> /\ held = << >> /\ pc = "op"
      /\ clientRd = TRUE /\ answered = 0
  BY DEF Init, ProxyInit
<1>2. heldDown = << >>
  BY <1>1, Zenon DEF heldDown
<1>3. << >> \o << >> = << >>
  OBVIOUS
<1>4. downQueue = << >> /\ downCut = FALSE
  BY <1>1, <1>2, <1>3 DEF downQueue, downCut
<1>5. QED
  BY <1>1, <1>4, Zenon DEF Down!Init

\* What the daemon sends reaches the client as over a direct connection, given
\* that it writes its bools as serialize_bool does: the proxy reads answers as
\* values and writes them anew, and any other number that stands for true
\* (deserialize_bool takes all but 0) would come out as 1.
THEOREM DownTransparent == BoolsConform => (Spec => DownIsLink)
<1> SUFFICES ASSUME BoolsConform PROVE Spec => DownIsLink
  OBVIOUS
<1>1. Init => Down!Init
  BY InitDown
<1>2. IInv /\ IInv' /\ InStep /\ [Next]_vars => DownStep
  BY StepsDown
<1>3. Spec => []IInv
  <2>1. Init => IInv
    BY InitIInv
  <2>2. IInv /\ [Next]_vars => IInv'
    BY IInvInductive
  <2>3. QED
    BY <2>1, <2>2, PTL DEF Spec
<1>4. Spec => []InStep
  BY ReadersKeepUp
<1>5. QED
  BY <1>1, <1>2, <1>3, <1>4, PTL DEF Spec, DownIsLink, Down!Spec, DownStep

-----------------------------------------------------------------------------
\* What is to come from the client.

\* The reader of operations, one after the other, as the proxy knows them: it
\* takes the fields that decode, and for a bool only 0 and 1, which is what the
\* proxy writes.
Requesting ==
    { t \in Places \X Nat \X Places :
        LET a == t[1]
            w == t[2]
            b == t[3]
            kind == Body(a.op)[Len(Body(a.op)) + 1 - a.left]
        IN  \/ a.part \in { "op", "work" } /\ w \in WorkerOp /\ b = AfterTag(w)
            \/ /\ a.part = "args" /\ Decodes(kind, w) /\ (kind = "bool" => w \in { 0, 1 })
               /\ b = IF a.left = 1 THEN At(AfterFields(a.op), a.op, 0)
                      ELSE At("args", a.op, a.left - 1)
            \/ a.part = "framelen" /\ b = IF w = 0 THEN At("work", a.op, 0)
                                          ELSE At("framedata", a.op, w)
            \/ a.part = "framedata" /\ b = IF a.left = 1 THEN At("framelen", a.op, 0)
                                           ELSE At("framedata", a.op, a.left - 1) }

\* A client sends operations, of which the last may be cut short, that this
\* version knows, and writes a bool as 0 or 1.
ScriptsConform == \A s \in Scripts : \E b : Reads(Requesting, At("op", NoOp, 0), s, b)

\* What is on its way to the proxy, and what the client has still to send, goes
\* on from where the proxy is; a receive fails only when nothing is to come.
ToCome ==
    /\ ~ clientWr => script = << >>
    /\ failed => ~ clientWr
    /\ pc # "dead" => \E b \in Places : ReadsBoth(Requesting, AskedAt, c2p, script, b)

LEMMA MovesInRequesting ==
    ASSUME NEW a \in Places, NEW w \in Nat, NEW b \in Places
    PROVE  LET kind == Body(a.op)[Len(Body(a.op)) + 1 - a.left]
           IN  Move(Requesting, a, w, b) <=>
                 \/ a.part \in { "op", "work" } /\ w \in WorkerOp /\ b = AfterTag(w)
                 \/ /\ a.part = "args" /\ Decodes(kind, w) /\ (kind = "bool" => w \in { 0, 1 })
                    /\ b = IF a.left = 1 THEN At(AfterFields(a.op), a.op, 0)
                           ELSE At("args", a.op, a.left - 1)
                 \/ a.part = "framelen" /\ b = IF w = 0 THEN At("work", a.op, 0)
                                               ELSE At("framedata", a.op, w)
                 \/ a.part = "framedata" /\ b = IF a.left = 1 THEN At("framelen", a.op, 0)
                                                ELSE At("framedata", a.op, a.left - 1)
  BY Triple, Zenon DEF Move, Requesting

\* Where the first number leads, and that it leads somewhere.
LEMMA ComesFirst ==
    ASSUME IInv, ToCome, pc # "dead", c2p # << >>
    PROVE  \E b, m \in Places :
             /\ Head(c2p) \in Nat
             /\ Move(Requesting, AskedAt, Head(c2p), m)
             /\ ReadsBoth(Requesting, m, Tail(c2p), script, b)
<1>1. PICK b \in Places : ReadsBoth(Requesting, AskedAt, c2p, script, b)
  BY Zenon DEF ToCome
<1>2. c2p \in Seq(Nat)
  BY OnTheWay, Zenon
<1>3. Head(c2p) \in Nat
  BY <1>2, HeadAndTail, Zenon
<1>4. PICK m \in Places :
        /\ Move(Requesting, AskedAt, Head(c2p), m)
        /\ ReadsBoth(Requesting, m, Tail(c2p), script, b)
  BY <1>1, <1>2, BothFirst, Zenon
<1>5. QED
  BY <1>3, <1>4, Zenon

LEMMA ToComeStays ==
    ASSUME ToCome, UNCHANGED << script, clientWr, failed >>,
           pc' # "dead" => pc # "dead" /\ c2p' = c2p /\ AskedAt' = AskedAt
    PROVE  ToCome'
<1>1. pc' # "dead" => \E b \in Places : ReadsBoth(Requesting, AskedAt', c2p', script', b)
  BY Zenon DEF ToCome
<1>2. (~ clientWr' => script' = << >>) /\ (failed' => ~ clientWr')
  BY DEF ToCome
<1>3. QED
  BY <1>1, <1>2, Zenon DEF ToCome

\* The proxy takes the first number.
LEMMA ToComeTaken ==
    ASSUME IInv, ToCome, pc # "dead", c2p # << >>, c2p' = Tail(c2p),
           UNCHANGED << script, clientWr, failed >>,
           \A m \in Places : Move(Requesting, AskedAt, Head(c2p), m) => m = AskedAt'
    PROVE  ToCome'
<1>1. PICK b, m \in Places :
        /\ Move(Requesting, AskedAt, Head(c2p), m)
        /\ ReadsBoth(Requesting, m, Tail(c2p), script, b)
  BY ComesFirst, Zenon
<1>2. ReadsBoth(Requesting, AskedAt', c2p', script', b)
  BY <1>1, Zenon
<1>3. (~ clientWr' => script' = << >>) /\ (failed' => ~ clientWr')
  BY DEF ToCome
<1>4. QED
  BY <1>2, <1>3, Zenon DEF ToCome

\* Where it is between operations, and while it reads the fields of one.
LEMMA TagPlace ==
    ASSUME IInv, pc = "op"
    PROVE  AskedAt \in Places /\ AskedAt.part = "op"
<1>1. AskedAt = At("op", op, 0) /\ op \in WorkerOp \cup { NoOp }
  BY Zenon DEF AskedAt, IInv, TypeOK
<1>2. QED
  BY <1>1, SMT DEF At, Places, Parts

LEMMA FieldPlace ==
    ASSUME IInv, InHand, pc = "args"
    PROVE  /\ AskedAt \in Places /\ AskedAt.part = "args" /\ AskedAt.op = op
           /\ Len(Body(op)) + 1 - AskedAt.left = Len(held)
<1> DEFINE k == Len(Body(op)) + 1 - Len(held)
<1>1. op \in WorkerOp /\ held # << >> /\ Len(held) <= Len(Body(op)) /\ held \in Seq(Nat)
  BY DEF InHand, IInv, TypeOK
<1>2. Len(held) \in Nat /\ Len(Body(op)) \in Nat
  BY <1>1, LenProperties, BodyIsSeq
<1>3. k \in Nat /\ Len(Body(op)) + 1 - k = Len(held)
  BY <1>1, <1>2, SMT
<1>4. AskedAt = At("args", op, k)
  BY Zenon DEF AskedAt
<1> HIDE DEF k
<1>5. AskedAt \in Places /\ AskedAt.part = "args" /\ AskedAt.op = op /\ AskedAt.left = k
  BY <1>1, <1>3, <1>4, SMT DEF At, Places, Parts
<1>6. QED
  BY <1>3, <1>5, Zenon

LEMMA ReceiveTagToCome ==
    ASSUME IInv, ToCome, ReceiveTag, UNCHANGED script
    PROVE  ToCome'
<1>1. pc = "op" /\ c2p # << >> /\ c2p' = Tail(c2p) /\ UNCHANGED << clientWr, failed >>
  BY Zenon DEF ReceiveTag
<1>2. AskedAt' = AfterTag(Head(c2p)) /\ Head(c2p) \in Nat
  BY TagTaken, Zenon
<1>3. AskedAt \in Places /\ AskedAt.part = "op"
  BY <1>1, TagPlace
<1> DEFINE a == AskedAt
           w == Head(c2p)
<1> HIDE DEF a, w
<1>4. ASSUME NEW m \in Places, Move(Requesting, a, w, m)
      PROVE  m = AfterTag(w)
  <2>1. a \in Places /\ w \in Nat /\ a.part = "op"
    BY <1>2, <1>3, Zenon DEF a, w
  <2>2. QED
    BY <1>4, <2>1, MovesInRequesting, Zenon
<1>5. pc # "dead"
  BY <1>1
<1>6. QED
  BY <1>1, <1>2, <1>4, <1>5, ToComeTaken, Zenon DEF a, w

LEMMA ReceiveFieldToCome ==
    ASSUME IInv, InHand, ToCome, ReceiveField, UNCHANGED script
    PROVE  ToCome'
<1>1. pc = "args" /\ c2p # << >> /\ c2p' = Tail(c2p) /\ UNCHANGED << clientWr, failed >>
  BY Zenon DEF ReceiveField
<1> DEFINE a == AskedAt
           w == Head(c2p)
<1>2. /\ a \in Places /\ a.part = "args" /\ w \in Nat
      /\ AskedAt' = IF a.left = 1 THEN At(AfterFields(a.op), a.op, 0)
                    ELSE At("args", a.op, a.left - 1)
  BY FieldTaken, Zenon
<1> HIDE DEF a, w
<1>3. ASSUME NEW m \in Places, Move(Requesting, a, w, m)
      PROVE  m = AskedAt'
  BY <1>2, <1>3, MovesInRequesting, Zenon
<1>4. pc # "dead"
  BY <1>1
<1>5. QED
  BY <1>1, <1>3, <1>4, ToComeTaken, Zenon DEF a, w

LEMMA LengthToCome ==
    ASSUME IInv, InHand, ToCome, StreamingLength, UNCHANGED script
    PROVE  ToCome'
<1>1. /\ pc = "framelen" /\ c2p # << >> /\ c2p' = Tail(c2p)
      /\ UNCHANGED << clientWr, failed >>
  BY Zenon DEF StreamingLength
<1> DEFINE a == AskedAt
           w == Head(c2p)
<1>2. /\ a \in Places /\ a.part = "framelen" /\ w \in Nat
      /\ AskedAt' = IF w = 0 THEN At("work", a.op, 0) ELSE At("framedata", a.op, w)
  BY LengthTaken, Zenon
<1> HIDE DEF a, w
<1>3. ASSUME NEW m \in Places, Move(Requesting, a, w, m)
      PROVE  m = AskedAt'
  BY <1>2, <1>3, MovesInRequesting, Zenon
<1>4. pc # "dead"
  BY <1>1
<1>5. QED
  BY <1>1, <1>3, <1>4, ToComeTaken, Zenon DEF a, w

LEMMA ByteToCome ==
    ASSUME IInv, InHand, ToCome, GetStream, UNCHANGED script
    PROVE  ToCome'
<1>1. /\ pc = "framedata" /\ c2p # << >> /\ c2p' = Tail(c2p)
      /\ UNCHANGED << clientWr, failed >>
  BY Zenon DEF GetStream
<1> DEFINE a == AskedAt
           w == Head(c2p)
<1>2. /\ a \in Places /\ a.part = "framedata" /\ w \in Nat
      /\ AskedAt' = IF a.left = 1 THEN At("framelen", a.op, 0)
                    ELSE At("framedata", a.op, a.left - 1)
  BY ByteTaken, Zenon
<1> HIDE DEF a, w
<1>3. ASSUME NEW m \in Places, Move(Requesting, a, w, m)
      PROVE  m = AskedAt'
  BY <1>2, <1>3, MovesInRequesting, Zenon
<1>4. pc # "dead"
  BY <1>1
<1>5. QED
  BY <1>1, <1>3, <1>4, ToComeTaken, Zenon DEF a, w

\* Nothing the client sends fails to decode.
LEMMA AllDecodes ==
    ASSUME IInv, InHand, ToCome
    PROVE  ~ ReceiveUndecodable
<1> SUFFICES ASSUME ReceiveUndecodable PROVE FALSE
  OBVIOUS
<1> DEFINE a == AskedAt
           w == Head(c2p)
<1>1. c2p # << >> /\ pc \in { "op", "args" }
  BY DEF ReceiveUndecodable
<1>2. pc # "dead"
  BY <1>1
<1>3. PICK m \in Places : w \in Nat /\ Move(Requesting, a, w, m)
  BY <1>1, <1>2, ComesFirst, Zenon
<1>4. CASE pc = "op" /\ w \notin WorkerOp
  <2>1. a \in Places /\ a.part = "op"
    BY <1>4, TagPlace, Zenon
  <2> HIDE DEF a, w
  <2>2. w \in WorkerOp
    BY <1>3, <2>1, MovesInRequesting, Zenon
  <2>3. QED
    BY <1>4, <2>2
<1>5. CASE pc = "args" /\ ~ Decodes(Body(op)[Len(held)], w)
  <2>1. a \in Places /\ a.part = "args" /\ a.op = op /\ Len(Body(op)) + 1 - a.left = Len(held)
    BY <1>5, FieldPlace, Zenon
  <2> HIDE DEF a, w
  <2>2. Decodes(Body(a.op)[Len(Body(a.op)) + 1 - a.left], w)
    BY <1>3, <2>1, MovesInRequesting, Zenon
  <2>3. QED
    BY <1>5, <2>1, <2>2, Zenon
<1>6. QED
  BY <1>4, <1>5, Zenon DEF ReceiveUndecodable

LEMMA FieldUnchanged ==
    ASSUME IInv, InHand, ToCome, ReceiveField
    PROVE  Reencoded(Body(op)[Len(held)], Head(c2p)) = Head(c2p)
<1> DEFINE a == AskedAt
           w == Head(c2p)
<1>1. c2p # << >> /\ pc = "args"
  BY Zenon DEF ReceiveField
<1>2. pc # "dead"
  BY <1>1
<1>3. PICK m \in Places : w \in Nat /\ Move(Requesting, a, w, m)
  BY <1>1, <1>2, ComesFirst, Zenon
<1>4. a \in Places /\ a.part = "args" /\ a.op = op /\ Len(Body(op)) + 1 - a.left = Len(held)
  BY <1>1, FieldPlace, Zenon
<1> HIDE DEF a, w
<1>5. Reencoded(Body(a.op)[Len(Body(a.op)) + 1 - a.left], w) = w
  <2> DEFINE kind == Body(a.op)[Len(Body(a.op)) + 1 - a.left]
  <2>1. kind = "bool" => w \in { 0, 1 }
    BY <1>3, <1>4, MovesInRequesting, Zenon
  <2> HIDE DEF kind
  <2>2. Reencoded(kind, w) = w
    BY <1>3, <2>1 DEF Reencoded
  <2>3. QED
    BY <2>2, Zenon DEF kind
<1>6. QED
  BY <1>4, <1>5, Zenon DEF w

\* An end of what the client sends, where an operation is received.
LEMMA ReceiveEofToCome ==
    ASSUME IInv, ToCome, ReceiveEof, UNCHANGED script
    PROVE  ToCome'
<1>1. /\ c2p' = << >> /\ ~ clientWr /\ clientWr' = clientWr /\ pc' = "op" /\ op' = NoOp
      /\ script = << >>
  BY Zenon DEF ReceiveEof, ReceiveFailed, ToCome
<1> DEFINE a == At("op", op', 0)
<1>2. a \in Places
  BY <1>1, SMT DEF At, Places, Parts
<1>3. AskedAt' = a
  BY <1>1, SMT DEF AskedAt
<1> HIDE DEF a
<1>4. ReadsBoth(Requesting, a, << >>, << >>, a)
  BY <1>2, BothNothing, Zenon
<1>5. ReadsBoth(Requesting, AskedAt', c2p', script', a)
  BY <1>1, <1>3, <1>4, Zenon
<1>6. ~ clientWr' /\ script' = << >>
  BY <1>1
<1>7. QED
  BY <1>2, <1>5, <1>6, Zenon DEF ToCome

LEMMA FromClientToCome ==
    ASSUME IInv, InHand, ToCome, FromClient, UNCHANGED script
    PROVE  ToCome'
<1>1. CASE StreamEof
  BY <1>1, ToComeStays, Zenon DEF StreamEof, Panic
<1>2. QED
  BY <1>1, ReceiveTagToCome, ReceiveFieldToCome, AllDecodes, ReceiveEofToCome, LengthToCome,
     ByteToCome, Zenon DEF FromClient

LEMMA IntoDaemonToCome ==
    ASSUME IInv, InHand, ToCome, IntoDaemon, UNCHANGED script
    PROVE  ToCome'
<1>1. CASE SendWorkerOp \/ StreamingWriteLen \/ StreamingWriteBuff
  <2>1. /\ AskedAt' = AskedAt /\ UNCHANGED << c2p, clientWr, failed >> /\ pc \in ToDaemon
    BY <1>1, WriteStays, Zenon
  <2>2. pc # "dead"
    BY <2>1 DEF ToDaemon
  <2>3. QED
    BY <2>1, <2>2, ToComeStays, Zenon
<1>2. CASE DaemonPipeBroken
  BY <1>2, ToComeStays, Zenon DEF DaemonPipeBroken, Panic
<1>3. QED
  BY <1>1, <1>2, Zenon DEF IntoDaemon

\* Where the proxy is once the operation is sent.
Sending == { "op", "args", "sendop", "framelen", "sendlen", "framedata", "senddata" }

LEMMA WorkPlace ==
    ASSUME pc \notin Sending
    PROVE  AskedAt = At("work", op, 0)
  BY Zenon DEF AskedAt, Sending

LEMMA WorkPlaceNext ==
    ASSUME pc' \notin Sending
    PROVE  AskedAt' = At("work", op', 0)
  BY Zenon DEF AskedAt, Sending

\* The operation is sent, before a step and after it.
LEMMA SentToCome ==
    ASSUME ToCome, UNCHANGED << script, clientWr, failed >>,
           pc' # "dead" => pc \notin Sending \cup { "dead" } /\ pc' \notin Sending
                           /\ UNCHANGED << c2p, op >>
    PROVE  ToCome'
<1>1. pc' # "dead" => pc # "dead" /\ c2p' = c2p /\ AskedAt' = AskedAt
  BY WorkPlace, WorkPlaceNext, Zenon
<1>2. QED
  BY <1>1, ToComeStays, Zenon

LEMMA FromDaemonToCome ==
    ASSUME ToCome, FromDaemon, UNCHANGED script
    PROVE  ToCome'
<1>1. UNCHANGED << clientWr, failed >>
  BY Zenon DEF FromDaemon, ReadErrorMsg, ReadBuildResponse, ResponseUndecodable, StreamNar,
     DaemonEof, Panic
<1>2. CASE pc' = "dead"
  BY <1>1, <1>2, SentToCome, Zenon
<1>3. CASE pc' # "dead"
  <2>1. /\ pc \in { "msg", "reply", "nar" } /\ UNCHANGED << c2p, op >>
        /\ pc' \in { "msg", "sendlast", "sendmsg", "reply", "sendreply", "sendnar", "spin" }
    BY <1>3 DEF FromDaemon, ReadErrorMsg, ReadBuildResponse, ResponseUndecodable, StreamNar,
       DaemonEof, Panic
  <2>2. pc \notin Sending \cup { "dead" } /\ pc' \notin Sending
    BY <2>1 DEF Sending
  <2>3. QED
    BY <1>1, <2>1, <2>2, SentToCome, Zenon
<1>4. QED
  BY <1>2, <1>3

\* After one operation comes the next.
LEMMA NextComes ==
    ASSUME NEW a \in Places, NEW c \in Places, a.part = "work", c.part = "op",
           NEW s \in Seq(Nat), NEW t \in Seq(Nat), NEW b \in Places,
           ReadsBoth(Requesting, a, s, t, b)
    PROVE  \E d \in Places : ReadsBoth(Requesting, c, s, t, d)
<1>1. ASSUME NEW w \in Nat, NEW m \in Places, Move(Requesting, a, w, m)
      PROVE  Move(Requesting, c, w, m)
  <2>1. w \in WorkerOp /\ m = AfterTag(w)
    BY <1>1, MovesInRequesting, Zenon
  <2>2. QED
    BY <2>1, MovesInRequesting, Zenon
<1>2. ASSUME NEW u \in Seq(Nat), u # << >>, NEW d, Reads(Requesting, a, u, d)
      PROVE  Reads(Requesting, c, u, d)
  <2>1. PICK m \in Places : Move(Requesting, a, Head(u), m) /\ Reads(Requesting, m, Tail(u), d)
    BY <1>2, ReadsFirst, Zenon
  <2>2. Head(u) \in Nat /\ Tail(u) \in Seq(Nat)
    BY <1>2, HeadAndTail, Zenon
  <2>3. Move(Requesting, c, Head(u), m)
    BY <1>1, <2>1, <2>2, Zenon
  <2>4. Reads(Requesting, c, << Head(u) >> \o Tail(u), d)
    BY <2>1, <2>2, <2>3, ReadsCons, Zenon
  <2>5. << Head(u) >> \o Tail(u) = u
    BY <1>2, HeadThenTail, Zenon
  <2>6. QED
    BY <2>4, <2>5, Zenon
<1>3. Reads(Requesting, c, << >>, c)
  BY ReadsNothing, Zenon
<1>4. PICK m \in Places : Reads(Requesting, a, s, m) /\ Reads(Requesting, m, t, b)
  BY Zenon DEF ReadsBoth
<1>5. CASE s # << >>
  <2>1. Reads(Requesting, c, s, m)
    BY <1>2, <1>4, <1>5, Zenon
  <2>2. QED
    BY <1>4, <2>1, Zenon DEF ReadsBoth
<1>6. CASE s = << >>
  <2>1. Reads(Requesting, a, t, b)
    BY <1>4, <1>6, ReadsNothing, Zenon
  <2>2. CASE t = << >>
    BY <1>3, <1>6, <2>2, Zenon DEF ReadsBoth
  <2>3. CASE t # << >>
    <3>1. Reads(Requesting, c, t, b)
      BY <1>2, <2>1, <2>3, Zenon
    <3>2. QED
      BY <1>3, <1>6, <3>1, Zenon DEF ReadsBoth
  <2>4. QED
    BY <2>2, <2>3
<1>7. QED
  BY <1>5, <1>6

LEMMA NextRoundToCome ==
    ASSUME IInv, ToCome, NextRound, UNCHANGED script
    PROVE  ToCome'
<1>1. /\ pc = "flush" /\ pc' = "op" /\ op' = NoOp
      /\ UNCHANGED << c2p, clientWr, failed >>
  BY Zenon DEF NextRound
<1> DEFINE a == At("work", op, 0)
           c == At("op", op', 0)
<1>2. AskedAt = a /\ AskedAt' = c
  BY <1>1, SMT DEF AskedAt
<1>3. op \in WorkerOp \cup { NoOp } /\ op' \in WorkerOp \cup { NoOp }
  BY <1>1 DEF IInv, TypeOK
<1>4. a \in Places /\ a.part = "work" /\ c \in Places /\ c.part = "op"
  BY <1>3, SMT DEF At, Places, Parts
<1> HIDE DEF a, c
<1>5. c2p \in Seq(Nat) /\ script \in Seq(Nat)
  BY Zenon DEF IInv, TypeOK
<1>6. pc # "dead"
  BY <1>1
<1>7. PICK b \in Places : ReadsBoth(Requesting, a, c2p, script, b)
  BY <1>2, <1>6, Zenon DEF ToCome
<1>8. \E d \in Places : ReadsBoth(Requesting, c, c2p, script, d)
  BY <1>4, <1>5, <1>7, NextComes, Zenon
<1>9. \E d \in Places : ReadsBoth(Requesting, AskedAt', c2p', script', d)
  BY <1>1, <1>2, <1>8, Zenon
<1>10. (~ clientWr' => script' = << >>) /\ (failed' => ~ clientWr')
  BY <1>1 DEF ToCome
<1>11. QED
  BY <1>9, <1>10, Zenon DEF ToCome

LEMMA IntoClientToCome ==
    ASSUME IInv, InHand, ToCome, IntoClient, UNCHANGED script
    PROVE  ToCome'
<1>1. CASE SendErrorToClient \/ WriteBuildResponse \/ WriteNar
  <2>1. PICK next :
          /\ WriteClient(next) /\ held # << >>
          /\ IF held' = << >> THEN pc' = next ELSE pc' = pc
          /\ \/ pc = "sendmsg" /\ next = "msg"
             \/ pc = "sendlast" /\ next = ToReply
             \/ pc = "sendreply" /\ next = "flush"
             \/ pc = "sendnar" /\ next = IF Head(held) = NarEnd THEN "flush" ELSE "nar"
    BY <1>1, Passed, Zenon
  <2>2. /\ pc \in ToClient /\ pc' \in ToClient \cup { "msg", "nar", "flush", "reply" }
        /\ UNCHANGED << c2p, op, clientWr, failed >>
    BY <2>1, Zenon DEF ToReply, ToClient, WriteClient
  <2>3. pc \notin Sending \cup { "dead" } /\ pc' \notin Sending
    BY <2>2 DEF ToClient, Sending
  <2>4. QED
    BY <2>2, <2>3, SentToCome, Zenon
<1>2. CASE Spill \/ FlushTxToClient
  <2>1. UNCHANGED << pc, op, held, left, c2p, clientWr, failed >>
    BY <1>2, Zenon DEF Spill, FlushTxToClient
  <2>2. QED
    BY <2>1, EndsStay, ToComeStays, Zenon
<1>3. CASE NextRound
  BY <1>3, NextRoundToCome, Zenon
<1>4. QED
  BY <1>1, <1>2, <1>3, Zenon DEF IntoClient

LEMMA WriteOutToCome ==
    ASSUME ToCome, WriteOut, UNCHANGED script
    PROVE  ToCome'
<1>1. CASE Drain
  <2>1. UNCHANGED << pc, op, held, left, c2p, clientWr, failed >>
    BY <1>1, Zenon DEF Drain
  <2>2. QED
    BY <2>1, EndsStay, ToComeStays, Zenon
<1>2. CASE ClientPipeBroken
  BY <1>2, ToComeStays, Zenon DEF ClientPipeBroken
<1>3. QED
  BY <1>1, <1>2, Zenon DEF WriteOut

LEMMA ClientSendToCome ==
    ASSUME IInv, ToCome, ClientSend
    PROVE  ToCome'
<1>1. /\ clientWr /\ pc # "dead" /\ script # << >> /\ c2p' = Append(c2p, Head(script))
      /\ script' = Tail(script) /\ UNCHANGED << pc, op, held, left, clientWr, failed >>
  BY Zenon DEF ClientSend
<1>2. AskedAt' = AskedAt
  BY <1>1, EndsStay, Zenon
<1>3. c2p \in Seq(Nat) /\ script \in Seq(Nat)
  BY Zenon DEF IInv, TypeOK
<1>4. PICK b \in Places : ReadsBoth(Requesting, AskedAt, c2p, script, b)
  BY <1>1, Zenon DEF ToCome
<1> DEFINE a == AskedAt
<1> HIDE DEF a
<1>5. ReadsBoth(Requesting, a, Append(c2p, Head(script)), Tail(script), b)
  <2>1. ReadsBoth(Requesting, a, c2p, script, b)
    BY <1>4, Zenon DEF a
  <2>2. QED
    BY <1>1, <1>3, <2>1, BothPass, Zenon
<1>6. ReadsBoth(Requesting, AskedAt', c2p', script', b)
  BY <1>1, <1>2, <1>5, Zenon DEF a
<1>7. (~ clientWr' => script' = << >>) /\ (failed' => ~ clientWr')
  BY <1>1 DEF ToCome
<1>8. QED
  BY <1>6, <1>7, Zenon DEF ToCome

\* A client that leaves sends no more; what it has sent is still on its way.
LEMMA ClientLeavesToCome ==
    ASSUME IInv, ToCome, ClientDone \/ ClientGone
    PROVE  ToCome'
<1>1. /\ clientWr' = FALSE /\ script' = << >>
      /\ UNCHANGED << pc, op, held, left, c2p, failed >>
  BY Zenon DEF ClientDone, ClientGone
<1>2. AskedAt' = AskedAt
  BY <1>1, EndsStay, Zenon
<1>3. ASSUME pc # "dead"
      PROVE  \E d \in Places : ReadsBoth(Requesting, AskedAt', c2p', script', d)
  <2>1. PICK b \in Places : ReadsBoth(Requesting, AskedAt, c2p, script, b)
    BY <1>3, Zenon DEF ToCome
  <2>2. PICK m \in Places : Reads(Requesting, AskedAt, c2p, m)
    BY <2>1, Zenon DEF ReadsBoth
  <2>3. Reads(Requesting, m, << >>, m)
    BY ReadsNothing, Zenon
  <2>4. ReadsBoth(Requesting, AskedAt, c2p, << >>, m)
    BY <2>2, <2>3, Zenon DEF ReadsBoth
  <2>5. QED
    BY <1>1, <1>2, <2>4, Zenon
<1>4. ~ clientWr'
  BY <1>1
<1>5. QED
  BY <1>1, <1>3, <1>4, Zenon DEF ToCome

LEMMA ToComeInductive ==
    ASSUME IInv, InHand, ToCome, [Next]_vars
    PROVE  ToCome'
<1>1. CASE Proxy
  <2>1. UNCHANGED script /\ ProxyNext
    BY <1>1, Zenon DEF Proxy
  <2>2. QED
    BY <2>1, FromClientToCome, IntoDaemonToCome, FromDaemonToCome, IntoClientToCome,
       WriteOutToCome, Zenon DEF ProxyNext
<1>2. CASE ClientRead \/ Daemon \/ Rest \/ UNCHANGED vars
  <2>1. UNCHANGED << pc, op, held, left, c2p, clientWr, failed, script >>
    BY <1>2, Zenon DEF ClientRead, Daemon, DaemonReadTag, DaemonReadField, DaemonReadLength,
       DaemonReadByte, DaemonLog, DaemonAnswer, DaemonWrite, DaemonGone, Rest, vars
  <2>2. QED
    BY <2>1, EndsStay, ToComeStays, Zenon
<1>3. QED
  BY <1>1, <1>2, ClientSendToCome, ClientLeavesToCome, Zenon DEF Next, Client

LEMMA InitToCome == ScriptsConform => (Init => ToCome)
<1> SUFFICES ASSUME ScriptsConform, Init PROVE ToCome
  OBVIOUS
<1>1. /\ pc = "op" /\ op = NoOp /\ c2p = << >> /\ script \in Scripts /\ script \in Seq(Nat)
      /\ clientWr = TRUE /\ failed = FALSE
  BY ScriptAssumption DEF Init, ProxyInit
<1> DEFINE a == At("op", NoOp, 0)
<1>2. a \in Places
  BY SMT DEF At, Places, Parts
<1>3. AskedAt = a
  BY <1>1, SMT DEF AskedAt
<1>4. PICK b : Reads(Requesting, a, script, b)
  BY <1>1, Zenon DEF ScriptsConform
<1> HIDE DEF a
<1>5. b \in Places
  BY <1>1, <1>4, ReadsEnds, Zenon
<1>6. ReadsBoth(Requesting, a, << >>, script, b)
  BY <1>2, <1>4, BothNothing, Zenon
<1>7. QED
  BY <1>1, <1>3, <1>5, <1>6 DEF ToCome

-----------------------------------------------------------------------------
\* The steps of a link, from the client to the daemon.

UpStep == [Up!Next]_(Up!vars)

LEMMA UpStutters ==
    ASSUME upQueue' = upQueue, upCut' = upCut, dread' = dread
    PROVE  UpStep
  BY Zenon DEF UpStep, Up!vars

LEMMA UpSends ==
    ASSUME NEW x \in Nat, upQueue \in Seq(Nat), ~ upCut,
           upQueue' = Append(upQueue, x), upCut' = upCut, dread' = dread
    PROVE  UpStep
<1> DEFINE one == << x >>
<1>1. one \in Seq(Nat) /\ upQueue' = upQueue \o one
  BY OneMore, Zenon
<1>2. Len(upQueue') = Len(upQueue) + 1
  BY Appended, Zenon
<1> HIDE DEF one
<1>3. SubSeq(upQueue', 1, Len(upQueue)) = upQueue
  BY <1>1, Prefix, Zenon
<1>4. Up!Send
  BY <1>2, <1>3, Zenon DEF Up!Send
<1>5. QED
  BY <1>4, Zenon DEF UpStep, Up!Next

LEMMA UpArrives ==
    ASSUME upQueue # << >>, upQueue' = Tail(upQueue), upCut' = upCut, dread' = dread + 1
    PROVE  UpStep
  BY Zenon DEF UpStep, Up!Next, Up!Arrive

LEMMA UpCuts ==
    ASSUME NEW t \in Seq(Nat), upQueue' \in Seq(Nat), upQueue = upQueue' \o t,
           upCut' = TRUE, dread' = dread
    PROVE  UpStep
<1>1. /\ Len(upQueue') \in 0 .. Len(upQueue)
      /\ SubSeq(upQueue, 1, Len(upQueue')) = upQueue'
  BY Prefix, Zenon
<1>2. Up!Cut
  BY <1>1, Zenon DEF Up!Cut
<1>3. QED
  BY <1>2, Zenon DEF UpStep, Up!Next

-----------------------------------------------------------------------------
\* What is on its way to the daemon.

Above == p2d \o heldUp

LEMMA OnTheWayUp ==
    ASSUME IInv
    PROVE  Above \in Seq(Nat) /\ Above \o c2p \in Seq(Nat) /\ failed \in BOOLEAN
<1>1. p2d \in Seq(Nat) /\ heldUp \in Seq(Nat) /\ c2p \in Seq(Nat)
  BY OnTheWay, Zenon
<1>2. Above \in Seq(Nat)
  BY <1>1, Joined, Zenon DEF Above
<1>3. failed \in BOOLEAN
  BY Zenon DEF IInv, TypeOK
<1>4. QED
  BY <1>1, <1>2, <1>3, Joined, Zenon

LEMMA UpOpen ==
    ASSUME failed \in BOOLEAN, daemonUp, pc # "dead"
    PROVE  upQueue = Above \o c2p /\ upCut = (failed = TRUE)
<1>1. upQueue = Above \o c2p
  BY Zenon DEF upQueue, Above
<1>2. upCut = (failed = TRUE)
  BY DEF upCut
<1>3. QED
  BY <1>1, <1>2

LEMMA UpOpenNext ==
    ASSUME failed' \in BOOLEAN, daemonUp', pc' # "dead"
    PROVE  upQueue' = Above' \o c2p' /\ upCut' = (failed' = TRUE)
<1>1. upQueue' = Above' \o c2p'
  BY Zenon DEF upQueue, Above
<1>2. upCut' = (failed' = TRUE)
  BY DEF upCut
<1>3. QED
  BY <1>1, <1>2

\* Nothing of it changes.
LEMMA UpLeft ==
    ASSUME p2d' = p2d, heldUp' = heldUp, c2p' = c2p, dread' = dread,
           daemonUp' = daemonUp, failed' = failed, pc' = "dead" <=> pc = "dead"
    PROVE  UpStep
<1>1. upQueue' = upQueue /\ upCut' = upCut
  BY Zenon DEF upQueue, upCut
<1>2. QED
  BY <1>1, UpStutters

LEMMA UpPasses ==
    ASSUME failed \in BOOLEAN, daemonUp, pc # "dead", daemonUp', pc' # "dead", dread' = dread, failed' = failed,
           Above' \o c2p' = Above \o c2p
    PROVE  UpStep
<1>1. upQueue' = upQueue /\ upCut' = upCut
  BY UpOpen, UpOpenNext, Zenon
<1>2. QED
  BY <1>1, UpStutters

\* What has reached the daemon's pipe is not lost with the proxy.
LEMMA UpEnds ==
    ASSUME IInv, daemonUp, pc # "dead", pc' = "dead", dread' = dread, daemonUp' = daemonUp,
           p2d' = p2d
    PROVE  UpStep
<1>1. p2d \in Seq(Nat) /\ heldUp \in Seq(Nat) /\ c2p \in Seq(Nat)
  BY OnTheWay, Zenon
<1>2. heldUp \o c2p \in Seq(Nat)
  BY <1>1, Joined, Zenon
<1>3. upQueue = p2d \o (heldUp \o c2p)
  BY <1>1, OnTheWayUp, UpOpen, Regrouped, Zenon DEF Above
<1>4. upQueue' = p2d /\ upCut' = TRUE
  BY Zenon DEF upQueue, upCut
<1>5. QED
  BY <1>1, <1>2, <1>3, <1>4, UpCuts, Zenon

\* A number the client sent is in hand.
LEMMA UpTaken ==
    ASSUME IInv, daemonUp, pc \in WaitsForClient, pc' \in WaitsForClient, c2p # << >>,
           held' = Append(held, Head(c2p)), c2p' = Tail(c2p),
           UNCHANGED << p2d, daemonUp, failed, dread >>
    PROVE  UpStep
<1>1. p2d \in Seq(Nat) /\ held \in Seq(Nat) /\ c2p \in Seq(Nat)
  BY OnTheWay, Zenon
<1>2. heldUp = held /\ heldUp' = held'
  BY Zenon DEF heldUp
<1>3. Above' \o c2p' = (p2d \o Append(held, Head(c2p))) \o Tail(c2p)
  BY <1>2, Zenon DEF Above
<1>4. Above \o c2p = (p2d \o held) \o c2p
  BY <1>2, Zenon DEF Above
<1>5. Above' \o c2p' = Above \o c2p
  BY <1>1, <1>3, <1>4, HandedOn, Zenon
<1>6. pc # "dead" /\ pc' # "dead"
  BY DEF WaitsForClient, ToDaemon
<1>7. QED
  BY <1>5, <1>6, OnTheWayUp, UpPasses, Zenon

LEMMA ReceiveEofUp ==
    ASSUME IInv, daemonUp, ReceiveEof, dread' = dread
    PROVE  UpStep
<1>1. /\ pc # "dead" /\ pc' = "op" /\ held' = << >> /\ failed' = TRUE /\ c2p = << >>
      /\ c2p' = << >> /\ UNCHANGED << p2d, daemonUp >>
  BY DEF ReceiveEof, ReceiveFailed
<1>2. p2d \in Seq(Nat) /\ heldUp \in Seq(Nat) /\ Above \in Seq(Nat)
  BY OnTheWay, OnTheWayUp, Zenon
<1>3. heldUp' = << >>
  BY <1>1, Zenon DEF heldUp
<1>4. Above' \o c2p' = p2d
  BY <1>1, <1>2, <1>3, ConcatEmptySeq, Zenon DEF Above
<1>5. Above \o c2p = p2d \o heldUp
  BY <1>1, <1>2, ConcatEmptySeq, Zenon DEF Above
<1>6. pc' # "dead"
  BY <1>1
<1>7. upQueue = p2d \o heldUp /\ upQueue' = p2d /\ upCut' = TRUE
  <2>1. failed \in BOOLEAN /\ failed' \in BOOLEAN /\ daemonUp' /\ (failed' = TRUE) = TRUE
    BY <1>1, OnTheWayUp
  <2>2. QED
    BY <1>1, <1>4, <1>5, <1>6, <2>1, UpOpen, UpOpenNext, Zenon
<1>8. QED
  BY <1>2, <1>7, UpCuts, Zenon

LEMMA FromClientUp ==
    ASSUME IInv, InHand, ToCome, daemonUp, FromClient, dread' = dread
    PROVE  UpStep
<1>1. CASE ReceiveTag \/ StreamingLength
  <2>1. /\ pc \in { "op", "framelen" } /\ pc' \in { "sendop", "args", "sendlen" }
        /\ c2p # << >> /\ held' = << Head(c2p) >> /\ c2p' = Tail(c2p)
        /\ UNCHANGED << p2d, daemonUp, failed >>
    BY <1>1 DEF ReceiveTag, StreamingLength
  <2>2. held = << >>
    BY <2>1 DEF IInv, HeldFits
  <2>3. held' = Append(held, Head(c2p))
    BY <2>1, <2>2
  <2>4. pc \in WaitsForClient /\ pc' \in WaitsForClient
    BY <2>1 DEF WaitsForClient, ToDaemon
  <2>5. QED
    BY <2>1, <2>3, <2>4, UpTaken, Zenon
<1>2. CASE ReceiveField
  <2>1. /\ pc = "args" /\ pc' \in { "sendop", "args" } /\ c2p # << >>
        /\ held' = Append(held, Reencoded(Body(op)[Len(held)], Head(c2p))) /\ c2p' = Tail(c2p)
        /\ UNCHANGED << p2d, daemonUp, failed >>
    BY <1>2, Zenon DEF ReceiveField
  <2>2. held' = Append(held, Head(c2p))
    BY <1>2, <2>1, FieldUnchanged, Zenon
  <2>3. pc \in WaitsForClient /\ pc' \in WaitsForClient
    BY <2>1 DEF WaitsForClient, ToDaemon
  <2>4. QED
    BY <2>1, <2>2, <2>3, UpTaken, Zenon
<1>3. CASE GetStream
  <2>1. /\ pc = "framedata" /\ pc' \in { "senddata", "framedata" } /\ c2p # << >>
        /\ held' = Append(held, Head(c2p)) /\ c2p' = Tail(c2p)
        /\ UNCHANGED << p2d, daemonUp, failed >>
    BY <1>3, Zenon DEF GetStream
  <2>2. pc \in WaitsForClient /\ pc' \in WaitsForClient
    BY <2>1 DEF WaitsForClient, ToDaemon
  <2>3. QED
    BY <2>1, <2>2, UpTaken, Zenon
<1>4. CASE StreamEof
  <2>1. pc # "dead" /\ Panic
    BY <1>4 DEF StreamEof
  <2>2. QED
    BY <2>1, UpEnds, Zenon DEF Panic
<1>5. QED
  BY <1>1, <1>2, <1>3, <1>4, AllDecodes, ReceiveEofUp, Zenon DEF FromClient

LEMMA IntoDaemonUp ==
    ASSUME IInv, daemonUp, IntoDaemon, dread' = dread
    PROVE  UpStep
<1>1. CASE SendWorkerOp \/ StreamingWriteLen \/ StreamingWriteBuff
  <2>1. /\ held # << >> /\ p2d' = Append(p2d, Head(held)) /\ held' = Tail(held)
        /\ heldUp = held /\ heldUp' = held' /\ UNCHANGED << c2p, daemonUp, failed >>
        /\ pc \in ToDaemon /\ pc' \in ToDaemon \cup { "framelen", "framedata", "msg" }
    BY <1>1, WriteStays, Zenon
  <2>2. p2d \in Seq(Nat) /\ held \in Seq(Nat)
    BY OnTheWay, Zenon
  <2>3. Above = p2d \o held /\ Above' = Append(p2d, Head(held)) \o Tail(held)
    BY <2>1, Zenon DEF Above
  <2>4. Above' = Above
    BY <2>1, <2>2, <2>3, Handed, Zenon
  <2>5. pc # "dead" /\ pc' # "dead"
    BY <2>1 DEF ToDaemon
  <2>6. QED
    BY <2>1, <2>4, <2>5, OnTheWayUp, UpPasses, Zenon
<1>2. CASE DaemonPipeBroken
  <2>1. ~ daemonUp
    BY <1>2, Zenon DEF DaemonPipeBroken
  <2>2. QED
    BY <2>1
<1>3. QED
  BY <1>1, <1>2, Zenon DEF IntoDaemon

\* What the proxy holds for the client is none of it.
LEMMA UpAside ==
    ASSUME pc \notin WaitsForClient \cup { "dead" }, pc' \notin WaitsForClient \cup { "dead" },
           UNCHANGED << p2d, c2p, daemonUp, failed, dread >>
    PROVE  UpStep
<1>1. heldUp' = heldUp
  BY Zenon DEF heldUp
<1>2. pc # "dead" /\ pc' # "dead"
  OBVIOUS
<1>3. QED
  BY <1>1, <1>2, UpLeft, Zenon

LEMMA FromDaemonUp ==
    ASSUME IInv, daemonUp, FromDaemon, dread' = dread
    PROVE  UpStep
<1>1. CASE pc' = "dead"
  <2>1. pc # "dead" /\ UNCHANGED << p2d, daemonUp >>
    BY <1>1 DEF FromDaemon, ReadErrorMsg, ReadBuildResponse, ResponseUndecodable, StreamNar,
       DaemonEof, Panic
  <2>2. QED
    BY <1>1, <2>1, UpEnds, Zenon
<1>2. CASE pc' # "dead"
  <2>1. /\ pc \in { "msg", "reply", "nar" } /\ UNCHANGED << p2d, c2p, daemonUp, failed >>
        /\ pc' \in { "msg", "sendlast", "sendmsg", "reply", "sendreply", "sendnar", "spin" }
    BY <1>2 DEF FromDaemon, ReadErrorMsg, ReadBuildResponse, ResponseUndecodable, StreamNar,
       DaemonEof, Panic
  <2>2. pc \notin WaitsForClient \cup { "dead" } /\ pc' \notin WaitsForClient \cup { "dead" }
    BY <2>1 DEF WaitsForClient, ToDaemon
  <2>3. QED
    BY <2>1, <2>2, UpAside, Zenon
<1>3. QED
  BY <1>1, <1>2

LEMMA IntoClientUp ==
    ASSUME IInv, InHand, daemonUp, IntoClient, dread' = dread
    PROVE  UpStep
<1>1. CASE SendErrorToClient \/ WriteBuildResponse \/ WriteNar
  <2>1. PICK next :
          /\ WriteClient(next) /\ held # << >>
          /\ IF held' = << >> THEN pc' = next ELSE pc' = pc
          /\ \/ pc = "sendmsg" /\ next = "msg"
             \/ pc = "sendlast" /\ next = ToReply
             \/ pc = "sendreply" /\ next = "flush"
             \/ pc = "sendnar" /\ next = IF Head(held) = NarEnd THEN "flush" ELSE "nar"
    BY <1>1, Passed, Zenon
  <2>2. /\ pc \in ToClient /\ pc' \in ToClient \cup { "msg", "nar", "flush", "reply" }
        /\ UNCHANGED << p2d, c2p, daemonUp, failed >>
    BY <2>1, Zenon DEF ToReply, ToClient, WriteClient
  <2>3. pc \notin WaitsForClient \cup { "dead" } /\ pc' \notin WaitsForClient \cup { "dead" }
    BY <2>2 DEF WaitsForClient, ToDaemon, ToClient
  <2>4. QED
    BY <2>2, <2>3, UpAside, Zenon
<1>2. CASE Spill \/ FlushTxToClient
  <2>1. UNCHANGED << pc, held, p2d, c2p, daemonUp, failed >>
    BY <1>2, Zenon DEF Spill, FlushTxToClient
  <2>2. heldUp' = heldUp
    BY <2>1, Zenon DEF heldUp
  <2>3. QED
    BY <2>1, <2>2, UpLeft, Zenon
<1>3. CASE NextRound
  <2>1. /\ pc = "flush" /\ pc' = "op" /\ UNCHANGED << held, p2d, c2p, daemonUp, failed >>
    BY <1>3, Zenon DEF NextRound
  <2>2. held = << >>
    BY <2>1 DEF IInv, HeldFits
  <2>3. heldUp' = heldUp /\ pc # "dead" /\ pc' # "dead"
    BY <2>1, <2>2 DEF heldUp
  <2>4. QED
    BY <2>1, <2>3, UpLeft, Zenon
<1>4. QED
  BY <1>1, <1>2, <1>3, Zenon DEF IntoClient

LEMMA WriteOutUp ==
    ASSUME IInv, daemonUp, WriteOut, dread' = dread
    PROVE  UpStep
<1>1. CASE Drain
  <2>1. UNCHANGED << pc, held, p2d, c2p, daemonUp, failed >>
    BY <1>1, Zenon DEF Drain
  <2>2. heldUp' = heldUp
    BY <2>1, Zenon DEF heldUp
  <2>3. QED
    BY <2>1, <2>2, UpLeft, Zenon
<1>2. CASE ClientPipeBroken
  <2>1. pc' = "dead" /\ UNCHANGED << p2d, daemonUp, failed, c2p >>
    BY <1>2, Zenon DEF ClientPipeBroken
  <2>2. CASE pc # "dead"
    BY <2>1, <2>2, UpEnds, Zenon
  <2>3. CASE pc = "dead"
    <3>1. upQueue' = upQueue /\ upCut' = upCut
      BY <2>1, <2>3, Zenon DEF upQueue, upCut
    <3>2. QED
      BY <3>1, UpStutters
  <2>4. QED
    BY <2>2, <2>3
<1>3. QED
  BY <1>1, <1>2, Zenon DEF WriteOut

LEMMA ClientUp ==
    ASSUME IInv, ToCome, daemonUp, Client
    PROVE  UpStep
<1>1. UNCHANGED << pc, held, p2d, daemonUp, failed, dread >>
  BY Zenon DEF Client, ClientSend, ClientRead, ClientDone, ClientGone
<1>2. heldUp' = heldUp
  BY <1>1, Zenon DEF heldUp
<1>3. CASE ClientRead \/ ClientDone \/ ClientGone
  <2>1. c2p' = c2p
    BY <1>3, Zenon DEF ClientRead, ClientDone, ClientGone
  <2>2. QED
    BY <1>1, <1>2, <2>1, UpLeft, Zenon
<1>4. CASE ClientSend
  <2>1. /\ clientWr /\ pc # "dead" /\ script # << >> /\ c2p' = Append(c2p, Head(script))
    BY <1>4, Zenon DEF ClientSend
  <2>2. Head(script) \in Nat
    BY <2>1, HeadAndTail DEF IInv, TypeOK
  <2>3. Above \in Seq(Nat) /\ Above \o c2p \in Seq(Nat) /\ c2p \in Seq(Nat)
    BY OnTheWay, OnTheWayUp, Zenon
  <2>4. Above' = Above
    BY <1>1, <1>2, Zenon DEF Above
  <2>5. /\ upQueue = Above \o c2p /\ upCut = (failed = TRUE)
        /\ upQueue' = Above \o Append(c2p, Head(script)) /\ upCut' = (failed = TRUE)
    BY <1>1, <2>1, <2>4, OnTheWayUp, UpOpen, UpOpenNext, Zenon
  <2>6. ~ failed
    BY <2>1, Zenon DEF ToCome
  <2>7. Above \o Append(c2p, Head(script)) = Append(Above \o c2p, Head(script))
    BY <2>2, <2>3, AppendedLast, Zenon
  <2>8. upQueue' = Append(upQueue, Head(script)) /\ upQueue \in Seq(Nat) /\ upCut' = upCut
    BY <2>3, <2>5, <2>7, Zenon
  <2>9. ~ upCut
    BY <2>5, <2>6
  <2>10. QED
    BY <1>1, <2>2, <2>8, <2>9, UpSends, Zenon
<1>5. QED
  BY <1>3, <1>4, Zenon DEF Client

\* The daemon takes the first number.
LEMMA DaemonTakesUp ==
    ASSUME IInv, daemonUp, p2d # << >>, p2d' = Tail(p2d), dread' = dread + 1,
           UNCHANGED << pc, held, c2p, daemonUp, failed >>
    PROVE  UpStep
<1>1. p2d \in Seq(Nat) /\ heldUp \in Seq(Nat) /\ c2p \in Seq(Nat)
  BY OnTheWay, Zenon
<1>2. heldUp' = heldUp
  BY Zenon DEF heldUp
<1>3. CASE pc = "dead"
  <2>1. upQueue = p2d /\ upQueue' = Tail(p2d) /\ upCut' = upCut
    BY <1>3, Zenon DEF upQueue, upCut
  <2>2. QED
    BY <2>1, UpArrives, Zenon
<1>4. CASE pc # "dead"
  <2> DEFINE s == p2d \o heldUp
  <2>1. s # << >> /\ Tail(s) = Tail(p2d) \o heldUp /\ s \in Seq(Nat)
    BY <1>1, TailFirst, Zenon
  <2>2. Above = s /\ Above' = Tail(s)
    BY <1>2, <2>1, Zenon DEF Above
  <2>3. daemonUp' /\ pc' # "dead"
    BY <1>4
  <2>4. upQueue = s \o c2p /\ upQueue' = Tail(s) \o c2p /\ upCut' = upCut
    BY <1>4, <2>2, <2>3, OnTheWayUp, UpOpen, UpOpenNext, Zenon
  <2> HIDE DEF s
  <2>5. s \o c2p # << >> /\ Tail(s \o c2p) = Tail(s) \o c2p
    BY <1>1, <2>1, TailFirst, Zenon
  <2>6. QED
    BY <2>4, <2>5, UpArrives, Zenon
<1>5. QED
  BY <1>3, <1>4

LEMMA DaemonUpward ==
    ASSUME IInv, daemonUp, Daemon
    PROVE  UpStep
<1>1. UNCHANGED << pc, held, c2p, failed >>
  BY Zenon DEF Daemon, DaemonReadTag, DaemonReadField, DaemonReadLength, DaemonReadByte,
     DaemonLog, DaemonAnswer, DaemonWrite, DaemonGone
<1>2. CASE DaemonReadTag \/ DaemonReadField \/ DaemonReadLength \/ DaemonReadByte
  <2>1. p2d # << >> /\ p2d' = Tail(p2d) /\ dread' = dread + 1 /\ daemonUp' = daemonUp
    BY <1>2, Zenon DEF DaemonReadTag, DaemonReadField, DaemonReadLength, DaemonReadByte
  <2>2. QED
    BY <1>1, <2>1, DaemonTakesUp, Zenon
<1>3. CASE DaemonLog \/ DaemonAnswer \/ DaemonWrite
  <2>1. UNCHANGED << p2d, daemonUp, dread >>
    BY <1>3, Zenon DEF DaemonLog, DaemonAnswer, DaemonWrite
  <2>2. heldUp' = heldUp
    BY <1>1, Zenon DEF heldUp
  <2>3. QED
    BY <1>1, <2>1, <2>2, UpLeft, Zenon
<1>4. CASE DaemonGone
  <2>1. daemonUp' = FALSE /\ dread' = dread
    BY <1>4, Zenon DEF DaemonGone
  <2>2. upQueue' = << >> /\ upCut' = TRUE
    BY <2>1, Zenon DEF upQueue, upCut
  <2>3. upQueue \in Seq(Nat) /\ << >> \in Seq(Nat)
    <3>1. Above \o c2p \in Seq(Nat) /\ p2d \in Seq(Nat)
      BY OnTheWay, OnTheWayUp, Zenon
    <3>2. << >> \in Seq(Nat)
      OBVIOUS
    <3>3. QED
      BY <3>1, <3>2, Zenon DEF upQueue, Above
  <2>4. upQueue = << >> \o upQueue
    BY <2>3, ConcatEmptySeq, Zenon
  <2>5. QED
    BY <2>1, <2>2, <2>3, <2>4, UpCuts, Zenon
<1>5. QED
  BY <1>2, <1>3, <1>4, Zenon DEF Daemon

\* Nothing more reaches a daemon that has died.
LEMMA UpClosed ==
    ASSUME ~ daemonUp, [Next]_vars
    PROVE  UpStep
<1>1. daemonUp' = daemonUp /\ dread' = dread
  <2>1. CASE Proxy
    BY <2>1, Zenon DEF Proxy, ProxyNext, FromClient, ReceiveTag, ReceiveField,
       ReceiveUndecodable, ReceiveEof, ReceiveFailed, StreamingLength, GetStream, StreamEof,
       IntoDaemon, SendWorkerOp, StreamingWriteLen, StreamingWriteBuff, WriteDaemon,
       DaemonPipeBroken, FromDaemon, ReadErrorMsg, ReadBuildResponse, ResponseUndecodable,
       StreamNar, DaemonEof, IntoClient, SendErrorToClient, WriteBuildResponse, WriteNar,
       WriteClient, Spill, FlushTxToClient, NextRound, WriteOut, Drain, ClientPipeBroken, Panic
  <2>2. CASE Client
    BY <2>2, Zenon DEF Client, ClientSend, ClientRead, ClientDone, ClientGone
  <2>3. CASE Daemon
    BY <2>3, Zenon DEF Daemon, DaemonReadTag, DaemonReadField, DaemonReadLength,
       DaemonReadByte, DaemonLog, DaemonAnswer, DaemonWrite, DaemonGone, DaemonReady
  <2>4. CASE Rest \/ UNCHANGED vars
    BY <2>4, Zenon DEF Rest, vars
  <2>5. QED
    BY <2>1, <2>2, <2>3, <2>4, Zenon DEF Next
<1>2. upQueue' = upQueue /\ upCut' = upCut
  BY <1>1, Zenon DEF upQueue, upCut
<1>3. QED
  BY <1>1, <1>2, UpStutters

LEMMA StepsUp ==
    ASSUME IInv, InStep, ToCome, [Next]_vars
    PROVE  UpStep
<1>1. CASE ~ daemonUp
  BY <1>1, UpClosed
<1>2. CASE daemonUp /\ Proxy
  <2>1. dread' = dread /\ ProxyNext /\ InHand
    BY <1>2, Zenon DEF Proxy, InStep
  <2>2. QED
    BY <1>2, <2>1, FromClientUp, IntoDaemonUp, FromDaemonUp, IntoClientUp, WriteOutUp,
       Zenon DEF ProxyNext
<1>3. CASE daemonUp /\ (Client \/ Daemon)
  BY <1>3, ClientUp, DaemonUpward
<1>4. CASE Rest \/ UNCHANGED vars
  <2>1. UNCHANGED << pc, held, p2d, c2p, daemonUp, failed, dread >>
    BY <1>4, Zenon DEF Rest, vars
  <2>2. heldUp' = heldUp
    BY <2>1, Zenon DEF heldUp
  <2>3. QED
    BY <2>1, <2>2, UpLeft, Zenon
<1>5. QED
  BY <1>1, <1>2, <1>3, <1>4, Zenon DEF Next

LEMMA InitUp == Init => Up!Init
<1> SUFFICES ASSUME Init PROVE Up!Init
  OBVIOUS
<1>1. /\ c2p = << >> /\ p2d = << >> /\ held = << >> /\ pc = "op"
      /\ daemonUp = TRUE /\ failed = FALSE /\ dread = 0
  BY DEF Init, ProxyInit
<1>2. heldUp = << >>
  BY <1>1, Zenon DEF heldUp
<1>3. << >> \o << >> = << >>
  OBVIOUS
<1>4. upQueue = << >> /\ upCut = FALSE
  BY <1>1, <1>2, <1>3 DEF upQueue, upCut
<1>5. QED
  BY <1>1, <1>4, Zenon DEF Up!Init

\* What the client sends reaches the daemon as over a direct connection, given
\* that it sends operations this version knows and writes its bools as
\* serialize_bool does.  Without the first the proxy drops what it has read and
\* looks for an opcode in the middle of an operation (the run session_undecodable).
THEOREM UpTransparent == ScriptsConform => (Spec => UpIsLink)
<1> SUFFICES ASSUME ScriptsConform PROVE Spec => UpIsLink
  OBVIOUS
<1>1. Init => Up!Init
  BY InitUp
<1>2. Init => IInv /\ InStep /\ ToCome
  BY InitIInv, InitInStep, InitToCome
<1>3. IInv /\ InStep /\ ToCome /\ [Next]_vars => (IInv /\ InStep /\ ToCome)'
  BY IInvInductive, InStepInductive, ToComeInductive DEF InStep
<1>4. IInv /\ InStep /\ ToCome /\ [Next]_vars => UpStep
  BY StepsUp
<1>5. QED
  BY <1>1, <1>2, <1>3, <1>4, PTL DEF Spec, UpIsLink, Up!Spec, UpStep
=============================================================================
