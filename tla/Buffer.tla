------------------------------- MODULE Buffer -------------------------------
(***************************************************************************)
(* Common/Buffer.hpp: the ring buffer a channel collects the bytes of its  *)
(* socket in.  Every method is one critical section of _lock.  A buffer of *)
(* a trivially copyable T is filled and emptied by at most two memcpy, one *)
(* up to the end of _data and one from its start; any other T is copied    *)
(* element by element.                                                     *)
(***************************************************************************)
EXTENDS Integers, Sequences

CONSTANTS Elems, Capacity, Batches, TriviallyCopyable,
          Unwritten     \* what _data holds where nothing was ever stored

ASSUME BufferAssumption ==
    /\ Capacity \in Nat \ {0}
    /\ Batches \subseteq Seq(Elems)
    /\ TriviallyCopyable \in BOOLEAN

VARIABLES data, head, tail, size,
          call,         \* history: the last call, with its arguments
          result        \* what it gave its caller

vars == <<data, head, tail, size, call, result>>

\* What a caller asked for.
Asked(op, batch, n) == [op |-> op, batch |-> batch, n |-> n]

Slots == 0 .. Capacity - 1

Done(elems) == [ok |-> TRUE, elems |-> elems]
Refused     == [ok |-> FALSE, elems |-> <<>>]   \* an exception

Init ==
    /\ data = [k \in Slots |-> Unwritten]
    /\ head = 0 /\ tail = 0 /\ size = 0
    /\ call = Asked("none", <<>>, 0)
    /\ result = Done(<<>>)

Smaller(m, n) == IF m <= n THEN m ELSE n

\* Mutant: everything is copied in one piece, up to the end of the array.
Stored_NoWrap(batch) ==
    [k \in Slots |->
        IF tail <= k /\ k < tail + Len(batch) THEN batch[k - tail + 1]
        ELSE data[k]]

\* _data after a batch has been copied in at _tail: firstPart elements up to
\* the end of the array, the others from its start.
Stored(batch) ==
    LET firstPart == Smaller(Capacity - tail, Len(batch)) IN
    [k \in Slots |->
        IF tail <= k /\ k < tail + firstPart THEN batch[k - tail + 1]
        ELSE IF k < Len(batch) - firstPart THEN batch[firstPart + k + 1]
        ELSE data[k]]

\* The count elements copied out from _head, in the same two parts.
Loaded(count) ==
    LET firstPart == Smaller(Capacity - head, count) IN
    [i \in 1 .. count |->
        IF i <= firstPart THEN data[head + i - 1] ELSE data[i - firstPart - 1]]

\* Mutant: one step per batch.
Advance_Once(index, count) == (index + Smaller(count, 1)) % Capacity

\* _head and _tail after count elements: the element-wise loops advance them
\* once per element, and the line that follows both branches advances them by
\* count (again).
Advance(index, count) ==
    IF TriviallyCopyable THEN (index + count) % Capacity
    ELSE (((index + count) % Capacity) + count) % Capacity

Enqueue(batch) ==
    IF Len(batch) > Capacity - size
    THEN result' = Refused /\ UNCHANGED <<data, head, tail, size>>
    ELSE /\ data' = Stored(batch)
         /\ tail' = Advance(tail, Len(batch))
         /\ size' = size + Len(batch)
         /\ result' = Done(<<>>)
         /\ UNCHANGED head

Dequeue(count) ==
    IF count > size
    THEN result' = Refused /\ UNCHANGED <<data, head, tail, size>>
    ELSE /\ result' = Done(Loaded(count))
         /\ head' = Advance(head, count)
         /\ size' = size - count
         /\ UNCHANGED <<data, tail>>

At(index) ==
    /\ result' = IF index >= size THEN Refused
                 ELSE Done(<<data[(head + index) % Capacity]>>)
    /\ UNCHANGED <<data, head, tail, size>>

\* operator[] does not look at _size; its callers do.
Subscript(index) ==
    /\ index < size
    /\ result' = Done(<<data[(head + index) % Capacity]>>)
    /\ UNCHANGED <<data, head, tail, size>>

Clear ==
    /\ head' = 0 /\ tail' = 0 /\ size' = 0
    /\ result' = Done(<<>>)
    /\ UNCHANGED data

Next ==
    \/ \E batch \in Batches : Enqueue(batch) /\ call' = Asked("enqueue", batch, 0)
    \/ \E n \in 0 .. Capacity + 1 :
        \/ Dequeue(n) /\ call' = Asked("dequeue", <<>>, n)
        \/ (At(n) \/ Subscript(n)) /\ call' = Asked("read", <<>>, n)
    \/ Clear /\ call' = Asked("clear", <<>>, 0)

Spec == Init /\ [][Next]_vars

-----------------------------------------------------------------------------
(* Properties                                                               *)

\* Three fields for two degrees of freedom.
EndsMeet == tail = (head + size) % Capacity

\* Every field has its type: _head and _tail stay inside _data (Buffer.hpp:119,
\* :149), _size within its Capacity, and the three agree, so that what is stored
\* next follows what is stored last.
TypeOK ==
    /\ data \in [Slots -> Elems \cup {Unwritten}]
    /\ head \in Slots /\ tail \in Slots
    /\ size \in 0 .. Capacity
    /\ result.ok \in BOOLEAN
    /\ EndsMeet

\* What the buffer holds, oldest first.
Contents == [i \in 1 .. size |-> data[(head + i - 1) % Capacity]]

\* Whatever the positions _head and _tail have wandered to, batches come out
\* in the order and with the elements they went in with, a read gives the
\* element at its index, and a refused call changes nothing.
Fifo == INSTANCE Bounded_Fifo WITH items <- Contents
ImplementsFifo == Fifo!Spec
=============================================================================
