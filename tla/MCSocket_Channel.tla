-------------------------- MODULE MCSocket_Channel --------------------------
(* Instances of Socket_Channel for TLC. *)
EXTENDS Socket_Channel

CONSTANTS Short, Long       \* the encoded lengths of even and odd messages

MCMessages == 1 .. 3
MCTwoMessages == 1 .. 2
LengthOf == [m \in Messages |-> IF m % 2 = 0 THEN Short ELSE Long]

Pieces == Cardinality({i \in DOMAIN Parsed : Parsed[i] = Garbage})

\* The third message is pushed last.  A stream that two threads read at once is
\* followed for the first two, up to the first piece of garbage or the loss of
\* part of a frame; one that only lost part of a frame to the second piece.
FirstGarbage ==
    /\ tasks <= 1
    /\ 3 \in ToSet(pushed) => pushed[Len(pushed)] = 3 /\ Len(pushed) = 3
    /\ IF overlapped THEN Pieces = 0 /\ ~truncated /\ Len(pushed) <= 2
       ELSE Pieces <= 1
=============================================================================
