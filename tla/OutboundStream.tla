--------------------------- MODULE OutboundStream ---------------------------
(***************************************************************************)
(* What a Session promises of its outbound path: the client receives the   *)
(* accepted packets 1, 2, 3, ... in that order, each once and none         *)
(* skipped, until the connection is cut; then nothing more is accepted.    *)
(***************************************************************************)
EXTENDS Naturals, Sequences

VARIABLES accepted, received, cut

streamVars == <<accepted, received, cut>>

Init == accepted = 0 /\ received = <<>> /\ cut = FALSE

AcceptPacket ==
    /\ ~cut
    /\ accepted' = accepted + 1
    /\ UNCHANGED <<received, cut>>

\* Some of the accepted packets reach the client, and the write may have been the
\* last one.
Transmit ==
    /\ \E n \in Len(received)..accepted : received' = [i \in 1..n |-> i]
    /\ cut' \in {cut, TRUE}
    /\ UNCHANGED accepted

CutConnection == cut' = TRUE /\ UNCHANGED <<accepted, received>>

Next == AcceptPacket \/ Transmit \/ CutConnection

Spec == Init /\ [][Next]_streamVars
=============================================================================
