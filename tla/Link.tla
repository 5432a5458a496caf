-------------------------------- MODULE Link --------------------------------
(***************************************************************************)
(* One direction of a direct connection between a client and a daemon,     *)
(* which is what the proxy is meant to be indistinguishable from: what is  *)
(* sent arrives once, unaltered and in order, until the connection is cut. *)
(* A cut may lose what was last sent and has not arrived; nothing sent     *)
(* later ever arrives.                                                     *)
(***************************************************************************)
EXTENDS Naturals, Sequences

VARIABLES
    queue,      \* sent and not yet arrived
    arrived,    \* how much has arrived
    cut         \* has the connection been cut?

vars == << queue, arrived, cut >>

Init == queue = << >> /\ arrived = 0 /\ cut = FALSE

\* Nothing is said of what is sent, only that it goes to the end of the queue.
Send ==
    /\ ~ cut
    /\ Len(queue') = Len(queue) + 1
    /\ SubSeq(queue', 1, Len(queue)) = queue
    /\ UNCHANGED << arrived, cut >>

Arrive ==
    /\ queue # << >>
    /\ queue' = Tail(queue)
    /\ arrived' = arrived + 1
    /\ UNCHANGED cut

Cut ==
    /\ cut' = TRUE
    /\ \E n \in 0 .. Len(queue) : queue' = SubSeq(queue, 1, n)
    /\ UNCHANGED arrived

Next == Send \/ Arrive \/ Cut

Spec == Init /\ [][Next]_vars
=============================================================================
