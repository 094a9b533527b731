--------------------------- MODULE Buffer_proofs ---------------------------
(***************************************************************************)
(* Proofs about Buffer for every capacity, every element type that is      *)
(* trivially copyable and every batch.                                     *)
(***************************************************************************)
EXTENDS Buffer, TLAPS

\* An index advanced by no more than the capacity wraps at most once.
LEMMA Wrap ==
    ASSUME NEW a \in Slots, NEW b \in 0 .. Capacity
    PROVE  /\ (a + b) % Capacity = IF a + b < Capacity THEN a + b
                                   ELSE a + b - Capacity
           /\ (a + b) % Capacity \in Slots
<1>1. Capacity \in Nat \ {0} /\ a \in Nat /\ b \in Nat
  BY BufferAssumption DEF BufferAssumption, Slots
<1>2. CASE a + b < Capacity
  BY <1>1, <1>2 DEF Slots
<1>3. CASE a + b >= Capacity
  <2>1. a + b - Capacity \in 0 .. Capacity - 1
    BY <1>1, <1>3 DEF Slots
  <2>2. (a + b) % Capacity = a + b - Capacity
    BY <1>1, <2>1
  <2> QED BY <1>1, <1>3, <2>1, <2>2 DEF Slots
<1> QED BY <1>1, <1>2, <1>3

LEMMA EnqueueEffect ==
    ASSUME TriviallyCopyable, TypeOK, NEW batch \in Seq(Elems),
           Len(batch) <= Capacity - size, Enqueue(batch)
    PROVE  /\ TypeOK'
           /\ Contents' = Contents \o batch
<1>0. /\ Capacity \in Nat \ {0} /\ Len(batch) \in Nat
      /\ head \in Nat /\ tail \in Nat /\ head < Capacity /\ tail < Capacity
      /\ size \in Nat /\ size <= Capacity
      /\ Len(batch) <= Capacity - size
  BY BufferAssumption DEF BufferAssumption, TypeOK, Slots
<1>a. /\ head \in Slots /\ tail \in Slots
      /\ data \in [Slots -> Elems \cup {Unwritten}]
  BY DEF TypeOK
<1>b. ~(Len(batch) > Capacity - size)
  BY <1>0
<1>c. data' = Stored(batch) /\ result' = Done(<<>>)
  BY <1>b DEF Enqueue
<1>d. tail' = (tail + Len(batch)) % Capacity
  BY <1>b DEF Enqueue, Advance
<1>1. size' = size + Len(batch) /\ head' = head
  BY <1>b DEF Enqueue
<1>2. \/ head + size < Capacity /\ tail = head + size
      \/ head + size >= Capacity /\ tail = head + size - Capacity
  <2>1. size \in 0 .. Capacity
    BY DEF TypeOK
  <2>2. (head + size) % Capacity = IF head + size < Capacity THEN head + size
                                   ELSE head + size - Capacity
    BY <1>a, <2>1, Wrap
  <2> QED BY <1>0, <2>2 DEF TypeOK, EndsMeet
<1>3. tail' = IF tail + Len(batch) < Capacity THEN tail + Len(batch)
              ELSE tail + Len(batch) - Capacity
  <2>1. Len(batch) \in 0 .. Capacity
    BY <1>0
  <2>2. (tail + Len(batch)) % Capacity =
          IF tail + Len(batch) < Capacity THEN tail + Len(batch)
          ELSE tail + Len(batch) - Capacity
    BY <1>a, <2>1, Wrap
  <2> QED BY <1>d, <2>2
<1> DEFINE first == Smaller(Capacity - tail, Len(batch))
<1>4. \A k \in Slots :
        data'[k] = IF tail <= k /\ k < tail + first THEN batch[k - tail + 1]
                   ELSE IF k < Len(batch) - first THEN batch[first + k + 1]
                   ELSE data[k]
  BY <1>c DEF Stored
<1>5. /\ first \in Nat
      /\ \/ Capacity - tail <= Len(batch) /\ first = Capacity - tail
         \/ Capacity - tail > Len(batch) /\ first = Len(batch)
  BY <1>0 DEF Smaller
<1> HIDE DEF first
<1>6. TypeOK'
  <2>1. data' \in [Slots -> Elems \cup {Unwritten}]
    <3>1. \A k \in Slots : data'[k] \in Elems \cup {Unwritten}
      <4> SUFFICES ASSUME NEW k \in Slots PROVE data'[k] \in Elems \cup {Unwritten}
        OBVIOUS
      <4>0. k \in Nat /\ k < Capacity
        BY <1>0 DEF Slots
      <4>1. CASE tail <= k /\ k < tail + first
        <5>1. k - tail + 1 \in 1 .. Len(batch)
          BY <1>0, <1>5, <4>0, <4>1
        <5> QED BY <1>4, <4>1, <5>1
      <4>2. CASE ~(tail <= k /\ k < tail + first) /\ k < Len(batch) - first
        <5>1. first + k + 1 \in 1 .. Len(batch)
          BY <1>0, <1>5, <4>0, <4>2
        <5> QED BY <1>4, <4>2, <5>1
      <4> QED BY <1>a, <1>4, <4>1, <4>2
    <3>2. data' = [k \in Slots |-> data'[k]]
      BY <1>c DEF Stored
    <3> QED BY <3>1, <3>2
  <2>2. head' \in Slots /\ tail' \in Slots /\ size' \in 0 .. Capacity
    BY <1>0, <1>a, <1>1, <1>3 DEF Slots
  <2>3. tail' = (head' + size') % Capacity
    <3>1. size' \in 0 .. Capacity
      BY <2>2
    <3>2. (head + size') % Capacity = IF head + size' < Capacity THEN head + size'
                                      ELSE head + size' - Capacity
      BY <1>a, <3>1, Wrap
    <3>3. tail' = IF head + size' < Capacity THEN head + size'
                  ELSE head + size' - Capacity
      BY <1>0, <1>1, <1>2, <1>3
    <3> QED BY <1>1, <3>2, <3>3
  <2> QED BY <1>c, <2>1, <2>2, <2>3 DEF TypeOK, EndsMeet, Done
<1>7. Contents' = Contents \o batch
  <2>1. /\ Contents' = [i \in 1 .. size' |-> data'[(head' + i - 1) % Capacity]]
        /\ Contents = [i \in 1 .. size |-> data[(head + i - 1) % Capacity]]
    BY DEF Contents
  <2>2. Contents \in Seq(Elems \cup {Unwritten}) /\ Len(Contents) = size
    <3>1. \A i \in 1 .. size : (head + i - 1) % Capacity \in Slots
      <4> SUFFICES ASSUME NEW i \in 1 .. size
                   PROVE  (head + i - 1) % Capacity \in Slots
        OBVIOUS
      <4>1. i - 1 \in 0 .. Capacity /\ head + i - 1 = head + (i - 1)
        BY <1>0
      <4> QED BY <1>a, <4>1, Wrap
    <3>2. \A i \in 1 .. size : Contents[i] \in Elems \cup {Unwritten}
      BY <1>a, <2>1, <3>1
    <3> QED BY <1>0, <2>1, <3>2
  <2>3. ASSUME NEW i \in 1 .. size'
        PROVE  Contents'[i] = IF i <= size THEN Contents[i] ELSE batch[i - size]
    <3> DEFINE k == (head + i - 1) % Capacity
    <3>0. i \in Nat /\ i >= 1 /\ i <= size + Len(batch)
      BY <1>0, <1>1
    <3>1. /\ k \in Slots /\ k \in Nat
          /\ \/ head + i - 1 < Capacity /\ k = head + i - 1
             \/ head + i - 1 >= Capacity /\ k = head + i - 1 - Capacity
      <4>1. i - 1 \in 0 .. Capacity /\ head + i - 1 = head + (i - 1)
        BY <1>0, <3>0
      <4>2. k \in Slots /\ k = IF head + i - 1 < Capacity THEN head + i - 1
                               ELSE head + i - 1 - Capacity
        BY <1>a, <4>1, Wrap
      <4> HIDE DEF k
      <4> QED BY <1>0, <3>0, <4>2 DEF Slots
    <3>2. Contents'[i] = data'[k]
      BY <1>1, <2>1
    <3> HIDE DEF k
    <3>3. CASE i <= size
      <4>1. i \in 1 .. size
        BY <1>0, <1>1, <3>3
      <4>2. Contents[i] = data[k]
        BY <2>1, <4>1 DEF k
      <4>3. ~(tail <= k /\ k < tail + first) /\ ~(k < Len(batch) - first)
        BY <1>0, <1>2, <1>5, <3>0, <3>1, <4>1
      <4> QED BY <1>4, <3>1, <3>2, <3>3, <4>2, <4>3
    <3>4. CASE i > size
      <4>1. i - size \in 1 .. Len(batch)
        BY <1>0, <1>1, <3>4
      <4>2. CASE i - size <= first
        <5>1. tail <= k /\ k < tail + first /\ k - tail + 1 = i - size
          BY <1>0, <1>2, <1>5, <3>0, <3>1, <4>1, <4>2
        <5> QED BY <1>0, <1>4, <3>1, <3>2, <3>4, <4>1, <5>1
      <4>3. CASE i - size > first
        <5>1. ~(tail <= k /\ k < tail + first) /\ k < Len(batch) - first
              /\ first + k + 1 = i - size
          BY <1>0, <1>2, <1>5, <3>0, <3>1, <4>1, <4>3
        <5> QED BY <1>0, <1>4, <3>1, <3>2, <3>4, <4>1, <5>1
      <4> QED BY <1>0, <1>5, <4>1, <4>2, <4>3
    <3> QED BY <1>0, <1>1, <3>3, <3>4
  <2>4. Contents \o batch = [i \in 1 .. size' |-> IF i <= size THEN Contents[i]
                                                   ELSE batch[i - size]]
    <3> DEFINE both == Contents \o batch
    <3>1. batch \in Seq(Elems \cup {Unwritten})
      OBVIOUS
    <3>2. both \in Seq(Elems \cup {Unwritten}) /\ Len(both) = size'
      BY <1>0, <1>1, <2>2, <3>1
    <3>4. \A i \in 1 .. size' : both[i] = IF i <= size THEN Contents[i]
                                         ELSE batch[i - size]
      BY <1>0, <1>1, <2>2, <3>1
    <3> HIDE DEF both
    <3>3. both = [i \in 1 .. size' |-> both[i]]
      BY <3>2
    <3>5. both = [i \in 1 .. size' |-> IF i <= size THEN Contents[i]
                                       ELSE batch[i - size]]
      BY <3>3, <3>4
    <3> QED BY <3>5 DEF both
  <2> QED BY <2>1, <2>3, <2>4
<1> QED BY <1>6, <1>7

\* The slot of the i-th element, and Contents as a sequence.
LEMMA ContentsSeq ==
    ASSUME TypeOK
    PROVE  /\ Contents \in Seq(Elems \cup {Unwritten}) /\ Len(Contents) = size
           /\ \A i \in 1 .. size :
                /\ (head + i - 1) % Capacity \in Slots
                /\ (head + i - 1) % Capacity =
                     IF head + i - 1 < Capacity THEN head + i - 1
                     ELSE head + i - 1 - Capacity
                /\ Contents[i] = data[(head + i - 1) % Capacity]
<1>0. /\ Capacity \in Nat \ {0} /\ size \in Nat /\ size <= Capacity /\ head \in Nat
      /\ head \in Slots /\ data \in [Slots -> Elems \cup {Unwritten}]
  BY BufferAssumption DEF BufferAssumption, TypeOK, Slots
<1>1. ASSUME NEW i \in 1 .. size
      PROVE  /\ (head + i - 1) % Capacity \in Slots
             /\ (head + i - 1) % Capacity =
                  IF head + i - 1 < Capacity THEN head + i - 1
                  ELSE head + i - 1 - Capacity
  <2>1. i - 1 \in 0 .. Capacity /\ head + i - 1 = head + (i - 1)
    BY <1>0
  <2> QED BY <1>0, <2>1, Wrap
<1>2. /\ Contents = [i \in 1 .. size |-> Contents[i]]
      /\ \A i \in 1 .. size : Contents[i] = data[(head + i - 1) % Capacity]
  BY DEF Contents
<1>3. \A i \in 1 .. size : Contents[i] \in Elems \cup {Unwritten}
  BY <1>0, <1>1, <1>2
<1>4. Contents \in Seq(Elems \cup {Unwritten}) /\ Len(Contents) = size
  BY <1>0, <1>2, <1>3
<1> QED BY <1>1, <1>2, <1>4

LEMMA DequeueEffect ==
    ASSUME TriviallyCopyable, TypeOK, NEW count \in Nat, count <= size,
           Dequeue(count)
    PROVE  /\ TypeOK'
           /\ Contents' = SubSeq(Contents, count + 1, Len(Contents))
           /\ result' = Done(SubSeq(Contents, 1, count))
<1>0. /\ Capacity \in Nat \ {0} /\ size \in Nat /\ size <= Capacity
      /\ head \in Nat /\ head < Capacity /\ tail \in Nat /\ tail < Capacity
      /\ count <= size
  BY BufferAssumption DEF BufferAssumption, TypeOK, Slots
<1>a. head \in Slots /\ data \in [Slots -> Elems \cup {Unwritten}]
  BY DEF TypeOK
<1>b. ~(count > size)
  BY <1>0
<1>c. result' = Done(Loaded(count)) /\ data' = data /\ tail' = tail
  BY <1>b DEF Dequeue
<1>d. head' = (head + count) % Capacity
  BY <1>b DEF Dequeue, Advance
<1>1. size' = size - count
  BY <1>b DEF Dequeue
<1>2. \/ head + count < Capacity /\ head' = head + count
      \/ head + count >= Capacity /\ head' = head + count - Capacity
  <2>1. count \in 0 .. Capacity
    BY <1>0
  <2>2. (head + count) % Capacity = IF head + count < Capacity THEN head + count
                                    ELSE head + count - Capacity
    BY <1>a, <2>1, Wrap
  <2> QED BY <1>0, <1>d, <2>2
<1>3. \/ head + size < Capacity /\ tail = head + size
      \/ head + size >= Capacity /\ tail = head + size - Capacity
  <2>1. size \in 0 .. Capacity
    BY DEF TypeOK
  <2>2. (head + size) % Capacity = IF head + size < Capacity THEN head + size
                                   ELSE head + size - Capacity
    BY <1>a, <2>1, Wrap
  <2> QED BY <1>0, <2>2 DEF TypeOK, EndsMeet
<1>4. TypeOK'
  <2>1. head' \in Slots /\ size' \in 0 .. Capacity
    BY <1>0, <1>1, <1>2 DEF Slots
  <2>2. (head' + size') % Capacity = IF head' + size' < Capacity THEN head' + size'
                                     ELSE head' + size' - Capacity
    BY <2>1, Wrap
  <2>3. tail' = IF head' + size' < Capacity THEN head' + size'
                ELSE head' + size' - Capacity
    <3>1. tail = IF head' + size' < Capacity THEN head' + size'
                 ELSE head' + size' - Capacity
      BY <1>0, <1>1, <1>2, <1>3
    <3> QED BY <1>c, <3>1
  <2> QED BY <1>c, <2>1, <2>2, <2>3 DEF TypeOK, EndsMeet, Done
<1>5. Loaded(count) = SubSeq(Contents, 1, count)
  <2> DEFINE first == Smaller(Capacity - head, count)
             sub == SubSeq(Contents, 1, count)
  <2>1. /\ first \in Nat
        /\ \/ Capacity - head <= count /\ first = Capacity - head
           \/ Capacity - head > count /\ first = count
    BY <1>0 DEF Smaller
  <2>2. Loaded(count) = [i \in 1 .. count |-> IF i <= first THEN data[head + i - 1]
                                              ELSE data[i - first - 1]]
    BY DEF Loaded
  <2>3. /\ sub \in Seq(Elems \cup {Unwritten}) /\ Len(sub) = count
        /\ \A i \in 1 .. count : sub[i] = Contents[i]
    BY <1>0, ContentsSeq
  <2> HIDE DEF first, sub
  <2>4. sub = [i \in 1 .. count |-> sub[i]]
    BY <2>3
  <2>5. ASSUME NEW i \in 1 .. count
        PROVE  sub[i] = IF i <= first THEN data[head + i - 1] ELSE data[i - first - 1]
    <3>0. i \in Nat /\ i >= 1 /\ i <= count /\ i \in 1 .. size
      BY <1>0
    <3> DEFINE k == (head + i - 1) % Capacity
    <3>1. /\ sub[i] = data[k]
          /\ k = IF head + i - 1 < Capacity THEN head + i - 1
                 ELSE head + i - 1 - Capacity
      BY <2>3, <3>0, ContentsSeq
    <3> HIDE DEF k
    <3>2. k = IF i <= first THEN head + i - 1 ELSE i - first - 1
      BY <1>0, <2>1, <3>0, <3>1
    <3> QED BY <3>1, <3>2
  <2>6. sub = [i \in 1 .. count |-> IF i <= first THEN data[head + i - 1]
                                    ELSE data[i - first - 1]]
    BY <2>4, <2>5
  <2> QED BY <2>2, <2>6 DEF sub
<1>6. Contents' = SubSeq(Contents, count + 1, Len(Contents))
  <2> DEFINE sub == SubSeq(Contents, count + 1, Len(Contents))
  <2>1. Len(Contents) = size /\ Contents \in Seq(Elems \cup {Unwritten})
    BY ContentsSeq
  <2>2. /\ sub \in Seq(Elems \cup {Unwritten}) /\ Len(sub) = size - count
        /\ \A i \in 1 .. size - count : sub[i] = Contents[count + i]
    BY <1>0, <2>1
  <2> HIDE DEF sub
  <2>3. sub = [i \in 1 .. size - count |-> sub[i]]
    BY <2>2
  <2>4. Contents' = [i \in 1 .. size - count |-> data[(head' + i - 1) % Capacity]]
    BY <1>1, <1>c DEF Contents
  <2>5. ASSUME NEW i \in 1 .. size - count
        PROVE  sub[i] = data[(head' + i - 1) % Capacity]
    <3>0. i \in Nat /\ i >= 1 /\ i <= size - count /\ count + i \in 1 .. size
      BY <1>0
    <3> DEFINE k == (head + (count + i) - 1) % Capacity
               j == (head' + i - 1) % Capacity
    <3>1. k = IF head + (count + i) - 1 < Capacity THEN head + (count + i) - 1
              ELSE head + (count + i) - 1 - Capacity
      BY <3>0, ContentsSeq
    <3>2. sub[i] = data[k]
      BY <2>2, <3>0, ContentsSeq
    <3>3. j = IF head' + i - 1 < Capacity THEN head' + i - 1
              ELSE head' + i - 1 - Capacity
      <4>1. i - 1 \in 0 .. Capacity /\ head' \in Slots
        BY <1>0, <1>4, <3>0 DEF TypeOK
      <4>2. head' \in Int
        BY <1>0, <1>2
      <4>3. head' + i - 1 = head' + (i - 1)
        BY <3>0, <4>2
      <4> QED BY <4>1, <4>3, Wrap
    <3> HIDE DEF k, j
    <3>4. k = j
      BY <1>0, <1>2, <3>0, <3>1, <3>3
    <3> QED BY <3>2, <3>4 DEF j
  <2> QED BY <2>3, <2>4, <2>5 DEF sub
<1> QED BY <1>4, <1>5, <1>6, <1>c

LEMMA ReadEffect ==
    ASSUME TypeOK, NEW index \in Nat, At(index) \/ Subscript(index)
    PROVE  TypeOK' /\ Fifo!Read(index)
<1>0. size \in Nat /\ Len(Contents) = size
  BY ContentsSeq, BufferAssumption DEF TypeOK, BufferAssumption
<1>1. UNCHANGED <<data, head, tail, size>>
  BY DEF At, Subscript
<1>2. Contents' = Contents
  BY <1>1 DEF Contents
<1>3. ASSUME index < size
      PROVE  Done(<<data[(head + index) % Capacity]>>) = Done(<<Contents[index + 1]>>)
  <2>1. index + 1 \in 1 .. size /\ head + (index + 1) - 1 = head + index
    BY <1>0, <1>3, BufferAssumption DEF TypeOK, Slots, BufferAssumption
  <2> QED BY <2>1, ContentsSeq
<1>4. result' = IF index < size THEN Done(<<Contents[index + 1]>>) ELSE Refused
  <2>1. index >= size <=> ~(index < size)
    BY <1>0
  <2> QED BY <1>3, <2>1 DEF At, Subscript
<1>5. TypeOK'
  BY <1>1, <1>4 DEF TypeOK, EndsMeet, Done, Refused
<1> QED BY <1>0, <1>2, <1>4, <1>5 DEF Fifo!Read, Fifo!Done, Fifo!Refused, Done, Refused

LEMMA EmptyContents == ASSUME size = 0 PROVE Contents = <<>>
BY DEF Contents

LEMMA BufferInit == Init => TypeOK /\ Fifo!Init
<1> SUFFICES ASSUME Init PROVE TypeOK /\ Fifo!Init
  OBVIOUS
<1>1. Capacity \in Nat \ {0}
  BY BufferAssumption DEF BufferAssumption
<1>2. 0 \in Slots /\ 0 % Capacity = 0
  <2>1. 0 \in Slots /\ 0 \in 0 .. Capacity
    BY <1>1 DEF Slots
  <2>2. (0 + 0) % Capacity = 0
    BY <1>1, <2>1, Wrap
  <2> QED BY <2>1, <2>2
<1>3. TypeOK
  BY <1>1, <1>2 DEF Init, TypeOK, EndsMeet, Done
<1>4. Contents = <<>>
  BY EmptyContents DEF Init
<1> QED BY <1>3, <1>4 
  DEF Init, Fifo!Init, Fifo!Done, Done, Fifo!Asked, Asked

LEMMA BufferStep ==
    ASSUME TriviallyCopyable, TypeOK, [Next]_vars
    PROVE  TypeOK' /\ [Fifo!Next]_(Fifo!vars)
<1>0. /\ Capacity \in Nat \ {0} /\ size \in Nat /\ size <= Capacity
      /\ Len(Contents) = size
  BY ContentsSeq, BufferAssumption DEF TypeOK, BufferAssumption
<1>1. ASSUME NEW batch \in Batches, Enqueue(batch),
             call' = Asked("enqueue", batch, 0)
      PROVE  TypeOK' /\ Fifo!Next
  <2>1. batch \in Seq(Elems) /\ Len(batch) \in Nat
    BY BufferAssumption DEF BufferAssumption
  <2>2. CASE Len(batch) > Capacity - size
    <3>1. result' = Refused /\ UNCHANGED <<data, head, tail, size>>
      BY <1>1, <2>2 DEF Enqueue
    <3>2. Contents' = Contents /\ TypeOK'
      BY <3>1 DEF Contents, TypeOK, EndsMeet, Refused
    <3>3. ~(Len(Contents) + Len(batch) <= Capacity)
      BY <1>0, <2>1, <2>2
    <3> QED
      BY <1>1, <3>1, <3>2, <3>3
      DEF Fifo!Next, Fifo!Enqueue, Fifo!Refused, Refused, Fifo!Asked, Asked
  <2>3. CASE Len(batch) <= Capacity - size
    <3>1. TypeOK' /\ Contents' = Contents \o batch
      BY <1>1, <2>1, <2>3, EnqueueEffect
    <3>2. result' = Done(<<>>)
      <4>1. ~(Len(batch) > Capacity - size)
        BY <1>0, <2>1, <2>3
      <4> QED BY <1>1, <4>1 DEF Enqueue
    <3>3. Len(Contents) + Len(batch) <= Capacity
      BY <1>0, <2>1, <2>3
    <3> QED
      BY <1>1, <3>1, <3>2, <3>3
      DEF Fifo!Next, Fifo!Enqueue, Fifo!Done, Done, Fifo!Asked, Asked
  <2> QED BY <1>0, <2>1, <2>2, <2>3
<1>2. ASSUME NEW n \in 0 .. Capacity + 1, Dequeue(n),
             call' = Asked("dequeue", <<>>, n)
      PROVE  TypeOK' /\ Fifo!Next
  <2>1. n \in Nat
    BY <1>0
  <2>2. CASE n > size
    <3>1. result' = Refused /\ UNCHANGED <<data, head, tail, size>>
      BY <1>2, <2>2 DEF Dequeue
    <3>2. Contents' = Contents /\ TypeOK'
      BY <3>1 DEF Contents, TypeOK, EndsMeet, Refused
    <3>3. ~(n <= Len(Contents))
      BY <1>0, <2>1, <2>2
    <3> QED
      BY <1>2, <3>1, <3>2, <3>3
      DEF Fifo!Next, Fifo!Dequeue, Fifo!Refused, Refused, Fifo!Asked, Asked
  <2>3. CASE n <= size
    BY <1>0, <1>2, <2>1, <2>3, DequeueEffect
    DEF Fifo!Next, Fifo!Dequeue, Fifo!Done, Done, Fifo!Asked, Asked
  <2> QED BY <1>0, <2>1, <2>2, <2>3
<1>3. ASSUME NEW n \in 0 .. Capacity + 1, At(n) \/ Subscript(n),
             call' = Asked("read", <<>>, n)
      PROVE  TypeOK' /\ Fifo!Next
  <2>1. n \in Nat
    BY <1>0
  <2> QED BY <1>3, <2>1, ReadEffect DEF Fifo!Next, Fifo!Asked, Asked
<1>4. CASE Clear /\ call' = Asked("clear", <<>>, 0)
  <2>1. 0 \in Slots /\ (0 + 0) % Capacity = 0 /\ 0 \in 0 .. Capacity
    <3>1. 0 \in Slots /\ 0 \in 0 .. Capacity
      BY <1>0 DEF Slots
    <3> QED BY <1>0, <3>1, Wrap
  <2>2. TypeOK'
    BY <1>4, <2>1 DEF Clear, TypeOK, EndsMeet, Done
  <2>3. Contents' = <<>>
    BY <1>4, EmptyContents DEF Clear, Contents
  <2> QED
    BY <1>4, <2>2, <2>3
    DEF Clear, Fifo!Next, Fifo!Clear, Fifo!Done, Done, Fifo!Asked, Asked
<1>5. CASE UNCHANGED vars
  BY <1>5 DEF vars, TypeOK, EndsMeet, Contents, Fifo!vars
<1> QED BY <1>1, <1>2, <1>3, <1>4, <1>5 DEF Next

\* The indices stay inside _data and agree with the size, and every other field
\* keeps its type, whatever is enqueued, dequeued, looked at or refused.
THEOREM BufferTypeCorrect ==
    ASSUME TriviallyCopyable
    PROVE  Spec => []TypeOK
<1>1. TypeOK /\ [Next]_vars => TypeOK'
  BY BufferStep
<1> QED BY <1>1, BufferInit, PTL DEF Spec

\* For a trivially copyable element type the ring is a bounded first-in
\* first-out queue, whatever its capacity and wherever its ends have moved.
THEOREM BufferIsFifo ==
    ASSUME TriviallyCopyable
    PROVE  Spec => ImplementsFifo
<1>1. TypeOK /\ [Next]_vars => TypeOK' /\ [Fifo!Next]_(Fifo!vars)
  BY BufferStep
<1> QED BY <1>1, BufferInit, PTL DEF Spec, ImplementsFifo, Fifo!Spec
=============================================================================
