---------------------------- MODULE Bounded_Fifo ----------------------------
(***************************************************************************)
(* What Common::Buffer promises its callers: a first-in first-out queue of *)
(* at most Capacity elements, moved in batches.  A batch that does not fit *)
(* and a request for more than there is are refused as a whole.            *)
(***************************************************************************)
EXTENDS Integers, Sequences

CONSTANTS Capacity,
          Batches       \* the ranges callers enqueue

VARIABLES items,
          call,         \* the last call
          result        \* what it gave its caller

vars == <<items, call, result>>

\* What a caller asked for.
Asked(op, batch, n) == [op |-> op, batch |-> batch, n |-> n]

Done(elems) == [ok |-> TRUE, elems |-> elems]
Refused     == [ok |-> FALSE, elems |-> <<>>]

Init ==
    /\ items = <<>>
    /\ call = Asked("none", <<>>, 0)
    /\ result = Done(<<>>)

Enqueue(batch) ==
    IF Len(items) + Len(batch) <= Capacity
    THEN items' = items \o batch /\ result' = Done(<<>>)
    ELSE UNCHANGED items /\ result' = Refused

Dequeue(count) ==
    IF count <= Len(items)
    THEN /\ items' = SubSeq(items, count + 1, Len(items))
         /\ result' = Done(SubSeq(items, 1, count))
    ELSE UNCHANGED items /\ result' = Refused

Read(index) ==
    /\ result' = IF index < Len(items) THEN Done(<<items[index + 1]>>) ELSE Refused
    /\ UNCHANGED items

Clear ==
    /\ items' = <<>>
    /\ result' = Done(<<>>)

Next ==
    \/ \E batch \in Batches : Enqueue(batch) /\ call' = Asked("enqueue", batch, 0)
    \/ \E n \in 0 .. Capacity + 1 :
        \/ Dequeue(n) /\ call' = Asked("dequeue", <<>>, n)
        \/ Read(n) /\ call' = Asked("read", <<>>, n)
    \/ Clear /\ call' = Asked("clear", <<>>, 0)

Spec == Init /\ [][Next]_vars
=============================================================================
