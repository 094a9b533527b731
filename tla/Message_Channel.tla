---------------------------- MODULE Message_Channel ----------------------------
(***************************************************************************)
(* What a Channel promises the two peers: a message that was written is    *)
(* delivered at most once, in the order of the writes as long as one       *)
(* thread at a time reads, and without a gap when the sender keeps a       *)
(* message until all of it is sent; and nothing but messages that were     *)
(* written is delivered as long as the stream is intact.                   *)
(***************************************************************************)
EXTENDS Integers, Sequences

CONSTANTS Messages, Garbage

VARIABLES
    written, delivered,     \* the messages, in the order they were
    readByOne,              \* whether one thread at a time has read so far
    kept,                   \* whether the sender keeps what is not sent
    intact                  \* whether no frame was cut, nor read by two threads

vars == <<written, delivered>>

Init == written = <<>> /\ delivered = <<>>

Write(m) ==
    /\ \A k \in 1 .. Len(written) : written[k] # m
    /\ written' = Append(written, m)
    /\ UNCHANGED delivered

\* The k-th message that was written.
Deliver(k) ==
    /\ \A i \in 1 .. Len(delivered) : delivered[i] # written[k]
    /\ readByOne => \A i \in 1 .. Len(delivered), j \in 1 .. Len(written) :
            delivered[i] = written[j] => j < k
    /\ kept => k = Len(delivered) + 1
    /\ delivered' = Append(delivered, written[k])
    /\ UNCHANGED written

DeliverGarbage ==
    /\ ~intact
    /\ delivered' = Append(delivered, Garbage)
    /\ UNCHANGED written

Next ==
    \/ \E m \in Messages : Write(m)
    \/ \E k \in 1 .. Len(written) : Deliver(k)
    \/ DeliverGarbage

Spec == Init /\ [][Next]_vars
=============================================================================
