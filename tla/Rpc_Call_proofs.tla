--------------------------- MODULE Rpc_Call_proofs ---------------------------
(***************************************************************************)
(* Proofs about Rpc_Call: a remote call is a call, for every method, every *)
(* type of its parameters and result, and every value of them.             *)
(***************************************************************************)
EXTENDS Rpc_Call, Data_Stream_proofs

-----------------------------------------------------------------------------
(* Streams and what is sent of them                                         *)

IsStream(s, big, host) ==
    /\ s = [mem |-> s.mem, size |-> Len(s.mem), pos |-> s.pos, big |-> big, host |-> host]
    /\ s.mem \in Seq(Byte)

\* What a value is written as between machines of one kind
Bare == Encoded(FALSE)

LEMMA BareStands ==
    ASSUME NEW s, Swaps(s) = FALSE
    PROVE  /\ Encoded(Swaps(s)) = Bare
           /\ \A x, from, to : Stands(s, x, from, to)
                = (At(s.mem, from, Bare[x]) /\ to = from + Len(Bare[x]))
<1>1. Encoded(Swaps(s)) = Bare
  BY DEF Bare
<1> QED BY <1>1 DEF Stands

LEMMA BareBytes ==
    ASSUME NEW x \in Writable
    PROVE  Bare[x] \in Seq(Byte) /\ Len(Bare[x]) \in Nat \ {0}
<1> DEFINE swaps == FALSE
<1>1. Bare = Encoded(swaps)
  BY DEF Bare
<1> HIDE DEF swaps
<1> QED BY <1>1, EncodedBytes

LEMMA StreamFacts ==
    ASSUME NEW s, NEW big, NEW host, IsStream(s, big, host)
    PROVE  /\ s.mem \in Seq(Byte) /\ s.size = Len(s.mem) /\ Len(s.mem) \in Nat
           /\ s.big = big /\ s.host = host
           /\ Data(s) = s.mem
<1> DEFINE mem == s.mem
           pos == s.pos
<1>1. /\ s = [mem |-> mem, size |-> Len(mem), pos |-> pos, big |-> big, host |-> host]
      /\ mem \in Seq(Byte)
  BY DEF IsStream
<1> HIDE DEF mem, pos
<1>2. s.mem = mem /\ s.size = Len(mem) /\ s.big = big /\ s.host = host
  BY <1>1
<1>3. Len(mem) \in Nat /\ SubSeq(mem, 1, Len(mem)) = mem
  BY <1>1, SubSeqFull
<1> QED BY <1>1, <1>2, <1>3 DEF Data

LEMMA AtStart ==
    ASSUME NEW s, NEW big, NEW host, IsStream(s, big, host), s.pos = 0
    PROVE  s.pos <= Len(s.mem)
<1> DEFINE n == Len(s.mem)
<1>1. n \in Nat
  BY StreamFacts
<1> HIDE DEF n
<1>2. 0 <= n
  BY <1>1
<1> QED BY <1>2 DEF n

LEMMA SwapsNot ==
    ASSUME NEW s, NEW host, IsStream(s, host, host)
    PROVE  Swaps(s) = FALSE
BY StreamFacts DEF Swaps

LEMMA NewStreams ==
    ASSUME NEW host
    PROVE  /\ IsStream(NewStream(host), host, host)
           /\ NewStream(host).mem = <<>> /\ NewStream(host).pos = 0
BY DEF NewStream, IsStream

\* A write puts the value's bytes behind what there is.
LEMMA Writes ==
    ASSUME NEW s, NEW big, NEW host, IsStream(s, big, host), NEW x \in Writable
    PROVE  /\ IsStream(Written(s, x), big, host)
           /\ Written(s, x).pos = s.pos
           /\ Written(s, x).mem = s.mem \o Encoded(Swaps(s))[x]
           /\ Swaps(Written(s, x)) = Swaps(s)
<1> DEFINE mem == s.mem
           pos == s.pos
           bytes == Encoded(Swaps(s))[x]
           more == mem \o bytes
           t == Written(s, x)
<1>1. /\ s = [mem |-> mem, size |-> Len(mem), pos |-> pos, big |-> big, host |-> host]
      /\ mem \in Seq(Byte) /\ Data(s) = mem
  BY StreamFacts DEF IsStream
<1>2. bytes \in Seq(Byte)
  BY EncodedBytes
<1>3. t = [s EXCEPT !.mem = more, !.size = s.size + Len(bytes)]
  BY <1>1 DEF Written, WriteMemory
<1> HIDE DEF mem, pos, bytes
<1>4. more \in Seq(Byte) /\ Len(more) = Len(mem) + Len(bytes)
  BY <1>1, <1>2, ConcatProperties
<1> HIDE DEF more, t
<1>5. t = [mem |-> more, size |-> Len(more), pos |-> pos, big |-> big, host |-> host]
  BY <1>1, <1>3, <1>4
<1>6. t.mem = more /\ t.pos = pos /\ t.big = big /\ t.host = host /\ s.big = big /\ s.host = host
  BY <1>1, <1>5
<1>7. IsStream(t, big, host)
  BY <1>4, <1>5, <1>6 DEF IsStream
<1>8. Swaps(t) = Swaps(s)
  BY <1>6 DEF Swaps
<1> QED BY <1>6, <1>7, <1>8 DEF t, pos, more, mem, bytes

\* What a package is sent as
LEMMA Sends ==
    ASSUME NEW host, NEW x \in Writable
    PROVE  Data(Written(NewStream(host), x)) = Bare[x]
<1> DEFINE s == NewStream(host)
           bytes == Bare[x]
<1>1. IsStream(s, host, host) /\ s.mem = <<>> /\ Swaps(s) = FALSE
  BY NewStreams, SwapsNot
<1>2. bytes \in Seq(Byte)
  BY BareBytes
<1> HIDE DEF s
<1>3. IsStream(Written(s, x), host, host) /\ Written(s, x).mem = <<>> \o bytes
  BY <1>1, BareStands, Writes DEF bytes
<1>4. Data(Written(s, x)) = <<>> \o bytes
  BY <1>3, StreamFacts
<1> HIDE DEF bytes
<1>5. <<>> \o bytes = bytes
  BY <1>2
<1> QED BY <1>4, <1>5 DEF s, bytes

\* A package is read as it was sent, whatever the byte orders of the machines.
LEMMA Delivered ==
    ASSUME NEW host, NEW x \in Writable
    PROVE  Read(Loaded(NewStream(host), Bare[x]), x.type).value = x.value
<1> DEFINE bytes == Bare[x]
           s == Loaded(NewStream(host), bytes)
<1>1. bytes \in Seq(Byte) /\ Len(bytes) \in Nat
  BY BareBytes
<1> HIDE DEF bytes
<1>2. s = [NewStream(host) EXCEPT !.mem = bytes, !.pos = 0]
  <2>1. /\ NewStream(host).mem = <<>> /\ NewStream(host).size = 0
    BY DEF NewStream
  <2>2. SubSeq(<<>>, Len(bytes) + 1, 0) = <<>>
    BY <1>1
  <2>3. bytes \o <<>> = bytes
    BY <1>1
  <2> QED BY <2>1, <2>2, <2>3 DEF Loaded
<1>3. s.mem = bytes /\ s.pos = 0 /\ s.big = host /\ s.host = host
  BY <1>2 DEF NewStream
<1> HIDE DEF s
<1>4. Swaps(s) = FALSE
  BY <1>3 DEF Swaps
<1>5. Stands(s, x, 0, Len(bytes))
  <2>1. At(bytes, 0, bytes)
    BY <1>1 DEF At
  <2>2. Stands(s, x, 0, Len(bytes))
          = (At(s.mem, 0, Bare[x]) /\ Len(bytes) = 0 + Len(Bare[x]))
    BY <1>4, BareStands
  <2>3. Len(bytes) = 0 + Len(bytes)
    BY <1>1
  <2> QED BY <1>3, <2>1, <2>2, <2>3 DEF bytes
<1>6. ReadBack(s, x, 0, Len(bytes))
  BY <1>1, <1>3, <1>5, ReadsBack
<1>7. Read(s, x.type).value = x.value
  BY <1>3, <1>6 DEF Read, ReadBack, Result
<1> QED BY <1>7 DEF s, bytes

\* A stream travels as a field.
LEMMA FieldsTravel ==
    ASSUME NEW s, NEW big \in BOOLEAN, NEW host, IsStream(s, big, host), s.pos = 0,
           Len(s.mem) < HugeLength, NEW there
    PROVE  /\ FieldsOf(s) \in StreamFields
           /\ IsStream(FromFields(FieldsOf(s), there), big, there)
           /\ FromFields(FieldsOf(s), there).mem = s.mem
           /\ FromFields(FieldsOf(s), there).pos = 0
<1> DEFINE mem == s.mem
           N == Len(mem)
           flag == IF s.big THEN <<1>> ELSE <<0>>
           chars == [i \in 1 .. N |-> <<mem[i]>>]
           zero == Int32(0)
           back == [i \in DOMAIN chars |-> chars[i][1]]
           t == FromFields(FieldsOf(s), there)
<1>1. mem \in Seq(Byte) /\ N \in Nat /\ s.size = N /\ s.big = big
  BY StreamFacts
<1>2. zero \in Bytes(4) /\ Length(zero) = 0
  <2>1. 0 \in 0 .. HugeLength - 1
    BY DEF HugeLength
  <2> QED BY <2>1, Lengths
<1>3. flag \in Bytes(1) /\ ((flag = <<1>>) = big)
  <2>1. <<1>> \in Bytes(1) /\ <<0>> \in Bytes(1) /\ <<0>> # <<1>>
    BY DEF Bytes, Byte
  <2> QED BY <1>1, <2>1
<1>4. FieldsOf(s) = <<flag, chars, zero>>
  BY <1>1 DEF FieldsOf
<1> HIDE DEF mem
<1>5. chars \in Seq(Bytes(1)) /\ Len(chars) = N
  <2>1. \A i \in 1 .. N : <<mem[i]>> \in Bytes(1)
    <3> TAKE i \in 1 .. N
    <3>1. mem[i] \in Byte
      BY <1>1
    <3> QED BY <3>1 DEF Bytes
  <2>2. chars \in [1 .. N -> Bytes(1)]
    BY <2>1
  <2> QED BY <1>1, <2>2
<1>6. back = mem
  <2>1. DOMAIN chars = 1 .. N
    OBVIOUS
  <2>2. \A i \in 1 .. N : chars[i][1] = mem[i]
    OBVIOUS
  <2>3. back = [i \in 1 .. N |-> mem[i]]
    BY <2>1, <2>2
  <2>4. mem = [i \in 1 .. N |-> mem[i]]
    BY <1>1
  <2> QED BY <2>3, <2>4
<1> HIDE DEF flag, chars, zero
<1>7. FieldsOf(s) \in StreamFields
  <2>1. Len(chars) < HugeLength
    BY <1>5 DEF mem
  <2> QED BY <1>2, <1>3, <1>4, <1>5, <2>1 DEF StreamFields
<1>8. t = [NewStream(there) EXCEPT !.big = (flag = <<1>>), !.mem = back, !.size = Len(chars), !.pos = Length(zero)]
  BY <1>4 DEF FromFields
<1> HIDE DEF back
<1>9. t = [mem |-> mem, size |-> N, pos |-> 0, big |-> big, host |-> there]
  BY <1>2, <1>3, <1>5, <1>6, <1>8 DEF NewStream
<1>10. IsStream(t, big, there) /\ t.mem = mem /\ t.pos = 0
  <2> HIDE DEF t
  <2>1. t.mem = mem /\ t.pos = 0
    BY <1>9
  <2> QED BY <1>1, <1>9, <2>1 DEF IsStream
<1> QED BY <1>7, <1>10 DEF t, mem

-----------------------------------------------------------------------------
(* The arguments in the request, the last one first                         *)

\* Behind the arguments after "low" ends each, one before the next.
LaidOut(mem, args, low, marks) ==
    /\ marks \in [low .. Len(args) -> Nat] /\ marks[Len(args)] = 0
    /\ \A i \in low + 1 .. Len(args) :
        /\ At(mem, marks[i], Bare[args[i]])
        /\ marks[i - 1] = marks[i] + Len(Bare[args[i]])

LEMMA GivenBytes ==
    ASSUME NEW args \in Seq(Given)
    PROVE  /\ Len(args) \in Nat
           /\ \A i \in 1 .. Len(args) :
                /\ args[i] \in Given /\ args[i] \in Writable
                /\ Bare[args[i]] \in Seq(Byte) /\ Len(Bare[args[i]]) \in Nat \ {0}
<1>1. Len(args) \in Nat /\ \A i \in 1 .. Len(args) : args[i] \in Given
  OBVIOUS
<1>2. Given \subseteq Writable
  BY DEF Writable
<1> QED BY <1>1, <1>2, BareBytes

LEMMA LaidNone ==
    ASSUME NEW args \in Seq(Given)
    PROVE  \E marks : LaidOut(<<>>, args, Len(args), marks) /\ marks[Len(args)] = 0
<1> DEFINE N == Len(args)
           marks == [i \in N .. N |-> 0]
<1>1. N \in Nat
  OBVIOUS
<1> HIDE DEF N
<1>2. marks \in [N .. N -> Nat] /\ marks[N] = 0 /\ ~(\E i \in N + 1 .. N : TRUE)
  BY <1>1
<1> HIDE DEF marks
<1>3. LaidOut(<<>>, args, N, marks)
  BY <1>2 DEF LaidOut, N
<1> QED BY <1>2, <1>3 DEF N

LEMMA LaidMore ==
    ASSUME NEW mem \in Seq(Byte), NEW args \in Seq(Given), NEW low \in 1 .. Len(args),
           NEW marks, LaidOut(mem, args, low, marks), marks[low] = Len(mem)
    PROVE  \E more : /\ LaidOut(mem \o Bare[args[low]], args, low - 1, more)
                     /\ more[low - 1] = Len(mem \o Bare[args[low]])
<1> DEFINE N == Len(args)
           bytes == Bare[args[low]]
           longer == mem \o bytes
           more == [i \in low - 1 .. N |-> IF i = low - 1 THEN Len(longer) ELSE marks[i]]
<1>1. /\ N \in Nat /\ bytes \in Seq(Byte)
      /\ \A i \in 1 .. N : Bare[args[i]] \in Seq(Byte)
  BY GivenBytes
<1>2. /\ marks \in [low .. N -> Nat] /\ marks[N] = 0
      /\ \A i \in low + 1 .. N : /\ At(mem, marks[i], Bare[args[i]])
                                 /\ marks[i - 1] = marks[i] + Len(Bare[args[i]])
  BY DEF LaidOut
<1>3. longer \in Seq(Byte) /\ Len(longer) = Len(mem) + Len(bytes) /\ Len(longer) \in Nat
  <2> HIDE DEF bytes
  <2> QED BY <1>1, Concatenated
<1>4. At(longer, Len(mem), bytes)
  <2> HIDE DEF bytes
  <2> QED BY <1>1, AtBack
<1> HIDE DEF N
<1>5. ASSUME NEW i \in low + 1 .. N PROVE At(longer, marks[i], Bare[args[i]])
  <2>1. i \in 1 .. N /\ i \in low .. N
    BY <1>1 DEF N
  <2>2. At(mem, marks[i], Bare[args[i]]) /\ marks[i] \in Nat /\ Bare[args[i]] \in Seq(Byte)
    BY <1>1, <1>2, <2>1
  <2> HIDE DEF bytes
  <2> QED BY <1>1, <2>2, AtFront
<1> HIDE DEF longer, bytes
<1>6. low \in Nat /\ 1 <= low /\ low <= N
  BY <1>1 DEF N
<1>7. more \in [low - 1 .. N -> Nat]
  <2> SUFFICES ASSUME NEW i \in low - 1 .. N
               PROVE  (IF i = low - 1 THEN Len(longer) ELSE marks[i]) \in Nat
    OBVIOUS
  <2>1. i # low - 1 => i \in low .. N
    BY <1>1, <1>6
  <2> QED BY <1>2, <1>3, <2>1
<1>8. \A i \in low .. N : more[i] = marks[i]
  BY <1>1, <1>6
<1>9. more[low - 1] = Len(longer) /\ more[N] = 0
  <2>1. more[low - 1] = Len(longer)
    BY <1>1, <1>6
  <2>2. N \in low .. N
    BY <1>1, <1>6
  <2> QED BY <1>2, <1>8, <2>1, <2>2
<1> HIDE DEF more
<1>10. ASSUME NEW i \in (low - 1) + 1 .. N
       PROVE  /\ At(longer, more[i], Bare[args[i]])
              /\ more[i - 1] = more[i] + Len(Bare[args[i]])
  <2>1. CASE i = low
    <3>1. more[i] = Len(mem)
      BY <1>6, <1>8, <2>1
    <3>2. more[i - 1] = Len(longer)
      BY <1>9, <2>1
    <3> QED BY <1>3, <1>4, <2>1, <3>1, <3>2 DEF bytes
  <2>2. CASE i # low
    <3>1. i \in low + 1 .. N /\ i \in low .. N /\ i - 1 \in low .. N
      BY <1>1, <1>6, <2>2
    <3>2. more[i] = marks[i] /\ more[i - 1] = marks[i - 1]
      BY <1>8, <3>1
    <3> QED BY <1>2, <1>5, <3>1, <3>2
  <2> QED BY <2>1, <2>2
<1>11. LaidOut(longer, args, low - 1, more)
  BY <1>7, <1>9, <1>10 DEF LaidOut, N
<1> QED BY <1>9, <1>11 DEF longer, bytes

\* How long all the arguments are does not depend on their order.
LEMMA LaidShort ==
    ASSUME NEW mem, NEW args \in Seq(Given), Short(args),
           NEW marks, LaidOut(mem, args, 0, marks), marks[0] = Len(mem)
    PROVE  Len(mem) < HugeLength
<1> DEFINE N == Len(args)
           seqs == [i \in DOMAIN args |-> Bare[args[i]]]
           flat == FlattenSeq(seqs)
<1>1. /\ N \in Nat /\ DOMAIN args = 1 .. N
      /\ \A i \in 1 .. N : Bare[args[i]] \in Seq(Byte) /\ Len(Bare[args[i]]) \in Nat
  BY GivenBytes
<1>2. seqs \in Seq(Seq(Byte)) /\ Len(seqs) = N /\ \A i \in 1 .. N : seqs[i] = Bare[args[i]]
  <2> HIDE DEF N
  <2>1. seqs = [i \in 1 .. N |-> Bare[args[i]]]
    BY <1>1
  <2>2. seqs \in [1 .. N -> Seq(Byte)]
    BY <1>1, <2>1
  <2> HIDE DEF seqs
  <2> QED BY <1>1, <2>1, <2>2
<1>3. Len(flat) < HugeLength
  BY DEF Short, Bare
<1> HIDE DEF seqs
<1>4. PICK cut \in [0 .. N -> Nat] :
        /\ cut[0] = 0 /\ cut[N] = Len(flat)
        /\ \A i \in 1 .. N : Cut(flat, seqs, cut, i)
  BY <1>2, Flattened
<1> HIDE DEF N, flat
<1>5. /\ marks \in [0 .. N -> Nat] /\ marks[N] = 0
      /\ \A i \in 1 .. N : marks[i - 1] = marks[i] + Len(Bare[args[i]])
  <2>1. 0 + 1 = 1
    OBVIOUS
  <2> QED BY <2>1 DEF LaidOut, N
<1>6. \A i \in 1 .. N : cut[i] = cut[i - 1] + Len(Bare[args[i]])
  BY <1>2, <1>4 DEF Cut
<1> DEFINE Sum(j) == j <= N => marks[0] = marks[j] + cut[j]
<1>7. Sum(0)
  <2>1. 0 \in 0 .. N
    BY <1>1
  <2> QED BY <1>4, <1>5, <2>1
<1>8. ASSUME NEW j \in Nat, Sum(j), j + 1 <= N
      PROVE  marks[0] = marks[j + 1] + cut[j + 1]
  <2>1. j + 1 \in 1 .. N /\ (j + 1) - 1 = j /\ j \in 0 .. N /\ j + 1 \in 0 .. N
    BY <1>1, <1>8
  <2> DEFINE l == Len(Bare[args[j + 1]])
  <2>2. marks[j] = marks[j + 1] + l /\ cut[j + 1] = cut[j] + l /\ l \in Nat
    BY <1>1, <1>5, <1>6, <2>1
  <2>3. marks[j] \in Nat /\ marks[j + 1] \in Nat /\ cut[j] \in Nat /\ cut[j + 1] \in Nat
    BY <1>4, <1>5, <2>1
  <2> HIDE DEF l
  <2>4. marks[0] = marks[j] + cut[j]
    BY <1>8, <2>1
  <2> DEFINE a == marks[j + 1]
             b == cut[j]
  <2>5. marks[0] = (a + l) + b /\ cut[j + 1] = b + l /\ a \in Nat /\ b \in Nat /\ l \in Nat
    BY <2>2, <2>3, <2>4
  <2> HIDE DEF a, b
  <2>6. (a + l) + b = a + (b + l)
    BY <2>5
  <2> QED BY <2>5, <2>6 DEF a
<1>9. \A j \in Nat : Sum(j) => Sum(j + 1)
  BY <1>8
<1>10. \A j \in Nat : Sum(j)
  <2> HIDE DEF Sum
  <2> DEFINE M == {j \in Nat : Sum(j)}
  <2>1. 0 \in M /\ \A j \in Nat : j \in M => j + 1 \in M
    BY <1>7, <1>9
  <2> HIDE DEF M
  <2>2. Nat \subseteq M
    BY <2>1, Induction
  <2> QED BY <2>2 DEF M
<1>11. marks[0] = marks[N] + cut[N]
  BY <1>1, <1>10
<1>12. N \in 0 .. N
  BY <1>1
<1> QED BY <1>3, <1>4, <1>5, <1>11, <1>12

\* One value is as short as its bytes.
LEMMA ShortOne ==
    ASSUME NEW x \in Given, Short(<<x>>)
    PROVE  Len(Bare[x]) < HugeLength
<1> DEFINE args == <<x>>
           bytes == Bare[x]
           marks == [i \in 0 .. 1 |-> IF i = 1 THEN 0 ELSE Len(bytes)]
<1>1. args \in Seq(Given) /\ Len(args) = 1 /\ args[1] = x
  OBVIOUS
<1>2. bytes \in Seq(Byte) /\ Len(bytes) \in Nat
  <2>1. x \in Writable
    BY DEF Writable
  <2> QED BY <2>1, BareBytes
<1> HIDE DEF args, bytes
<1>3. marks \in [0 .. 1 -> Nat] /\ marks[1] = 0 /\ marks[0] = Len(bytes)
  BY <1>2
<1> HIDE DEF marks
<1>4. At(bytes, 0, bytes)
  BY <1>2 DEF At
<1>5. LaidOut(bytes, args, 0, marks)
  <2> SUFFICES ASSUME NEW i \in 0 + 1 .. 1
               PROVE  /\ At(bytes, marks[i], Bare[args[i]])
                      /\ marks[i - 1] = marks[i] + Len(Bare[args[i]])
    BY <1>1, <1>3 DEF LaidOut
  <2>1. i = 1 /\ 1 - 1 = 0
    OBVIOUS
  <2>2. Bare[args[1]] = bytes
    BY <1>1 DEF bytes
  <2> QED BY <1>2, <1>3, <1>4, <2>1, <2>2
<1>6. Short(args)
  BY DEF args
<1>7. Len(bytes) < HugeLength
  BY <1>1, <1>3, <1>5, <1>6, LaidShort
<1> QED BY <1>7 DEF bytes

LEMMA LaidStands ==
    ASSUME NEW s, s.mem \in Seq(Byte), Swaps(s) = FALSE, NEW args \in Seq(Given),
           NEW marks, LaidOut(s.mem, args, 0, marks), NEW i \in 1 .. Len(args)
    PROVE  /\ args[i] \in Writable
           /\ marks[i] \in Nat /\ marks[i - 1] \in Nat
           /\ Stands(s, args[i], marks[i], marks[i - 1])
<1> DEFINE N == Len(args)
<1>1. N \in Nat /\ args[i] \in Writable
  BY GivenBytes
<1> HIDE DEF N
<1>2. i \in 0 + 1 .. N /\ i \in 0 .. N /\ i - 1 \in 0 .. N
  BY <1>1 DEF N
<1>3. marks[i] \in Nat /\ marks[i - 1] \in Nat
  BY <1>2 DEF LaidOut, N
<1>4. At(s.mem, marks[i], Bare[args[i]]) /\ marks[i - 1] = marks[i] + Len(Bare[args[i]])
  BY <1>2 DEF LaidOut, N
<1>5. Stands(s, args[i], marks[i], marks[i - 1])
  BY <1>4, BareStands
<1> QED BY <1>1, <1>3, <1>5

LEMMA LaidAhead ==
    ASSUME NEW s, s.mem \in Seq(Byte), Swaps(s) = FALSE, NEW args \in Seq(Given),
           NEW marks, LaidOut(s.mem, args, 0, marks), marks[0] = Len(s.mem)
    PROVE  Ahead(s, 0, Len(args))
<1> DEFINE N == Len(args)
           values == [i \in 1 .. N |-> args[(N - i) + 1]]
           ends == [i \in 0 .. N |-> marks[N - i]]
<1>1. N \in Nat /\ \A i \in 1 .. N : args[i] \in Writable
  BY GivenBytes
<1>2. marks \in [0 .. N -> Nat] /\ marks[N] = 0
  BY DEF LaidOut
<1>3. \A i \in 1 .. N : Stands(s, args[i], marks[i], marks[i - 1])
  BY LaidStands
<1> HIDE DEF N
<1>4. values \in [1 .. N -> Writable]
  <2> SUFFICES ASSUME NEW i \in 1 .. N PROVE args[(N - i) + 1] \in Writable
    OBVIOUS
  <2>1. (N - i) + 1 \in 1 .. N
    BY <1>1
  <2> QED BY <1>1, <2>1
<1>5. ends \in [0 .. N -> Nat]
  <2> SUFFICES ASSUME NEW i \in 0 .. N PROVE marks[N - i] \in Nat
    OBVIOUS
  <2>1. N - i \in 0 .. N
    BY <1>1
  <2> QED BY <1>2, <2>1
<1>6. ends[0] = 0 /\ ends[N] = Len(s.mem)
  <2>1. 0 \in 0 .. N /\ N \in 0 .. N /\ N - 0 = N /\ N - N = 0
    BY <1>1
  <2> QED BY <1>2, <2>1
<1>7. ASSUME NEW i \in 1 .. N PROVE Stands(s, values[i], ends[i - 1], ends[i])
  <2> DEFINE j == (N - i) + 1
  <2>1. j \in 1 .. N /\ N - (i - 1) = j /\ N - i = j - 1 /\ i - 1 \in 0 .. N /\ i \in 0 .. N
    BY <1>1
  <2>2. values[i] = args[j] /\ ends[i - 1] = marks[N - (i - 1)] /\ ends[i] = marks[N - i]
    BY <2>1
  <2> HIDE DEF j, values, ends
  <2> QED BY <1>3, <2>1, <2>2
<1> HIDE DEF values, ends
<1>8. AheadOf(s, 0, N, values, ends)
  BY <1>1, <1>4, <1>5, <1>6, <1>7 DEF AheadOf
<1>9. N <= N
  BY <1>1
<1> QED BY <1>1, <1>8, <1>9 DEF Ahead, N

\* Only the memory and the byte orders matter to what is ahead.
LEMMA AheadSame ==
    ASSUME NEW s, NEW t, s.mem = t.mem, Swaps(s) = Swaps(t), NEW pos, NEW k,
           Ahead(s, pos, k)
    PROVE  Ahead(t, pos, k)
<1>1. \A x, from, to : Stands(s, x, from, to) = Stands(t, x, from, to)
  BY DEF Stands
<1>2. \A m, values, marks : AheadOf(s, pos, m, values, marks) => AheadOf(t, pos, m, values, marks)
  BY <1>1 DEF AheadOf
<1> QED BY <1>2 DEF Ahead

\* The types with no class in them have parts with none.
Free == {T \in Types : ClassFree[T]}

LEMMA FreeParts ==
    /\ Free \in SUBSET Types
    /\ \A T \in Free : T.kind # "custom" /\ \A i \in DOMAIN T.of : T.of[i] \in Free
<1> DEFINE Body(f) == [T \in Types |-> T.kind # "custom" /\ \A i \in DOMAIN T.of : f[T.of[i]]]
           Good(f, n) == \A T \in Types : Nesting[T] < n => f[T] = Body(f)[T]
           Exists(n) == \E f : Good(f, n)
<1>0. /\ Nesting \in [Types -> Nat]
      /\ \A T \in Types : \A i \in DOMAIN T.of : T.of[i] \in Types /\ Nesting[T.of[i]] < Nesting[T]
  BY DataAssumption DEF WellFormed
<1>a. ASSUME NEW f, NEW n \in Nat, Good(f, n)
      PROVE  /\ \A T \in Types : Nesting[T] < n + 1 => Body(Body(f))[T] = Body(f)[T]
             /\ Good(Body(f), n + 1)
  <2> DEFINE g == Body(f)
  <2>1. ASSUME NEW T \in Types, Nesting[T] < n + 1 PROVE Body(g)[T] = g[T]
    <3>1. ASSUME NEW i \in DOMAIN T.of PROVE f[T.of[i]] = g[T.of[i]]
      <4>1. T.of[i] \in Types /\ Nesting[T.of[i]] < Nesting[T]
        BY <1>0
      <4>2. Nesting[T.of[i]] < n
        BY <1>0, <2>1, <4>1
      <4> QED BY <1>a, <4>1, <4>2
    <3>2. Body(g)[T] = (T.kind # "custom" /\ \A i \in DOMAIN T.of : g[T.of[i]])
      OBVIOUS
    <3>3. g[T] = (T.kind # "custom" /\ \A i \in DOMAIN T.of : f[T.of[i]])
      OBVIOUS
    <3> HIDE DEF g
    <3>4. (\A i \in DOMAIN T.of : g[T.of[i]]) = (\A i \in DOMAIN T.of : f[T.of[i]])
      BY <3>1, Zenon
    <3> QED BY <3>2, <3>3, <3>4, Zenon
  <2> HIDE DEF g
  <2> QED BY <2>1 DEF g
<1>b. Exists(0)
  <2>1. \A T \in Types : ~(Nesting[T] < 0)
    BY <1>0
  <2>2. Good(<<>>, 0)
    BY <2>1
  <2> HIDE DEF Good
  <2> QED BY <2>2
<1>c. \A n \in Nat : Exists(n) => Exists(n + 1)
  <2> HIDE DEF Good, Body
  <2> SUFFICES ASSUME NEW n \in Nat, NEW f, Good(f, n) PROVE Exists(n + 1)
    OBVIOUS
  <2>1. Good(Body(f), n + 1)
    BY <1>a
  <2> QED BY <2>1
<1>d. \A n \in Nat : Exists(n)
  <2> HIDE DEF Exists
  <2> DEFINE S == {n \in Nat : Exists(n)}
  <2>1. 0 \in S /\ \A n \in Nat : n \in S => n + 1 \in S
    BY <1>b, <1>c
  <2> HIDE DEF S
  <2>2. Nat \subseteq S
    BY <2>1, Induction
  <2> QED BY <2>2 DEF S
<1>1. \E f : f = Body(f)
  <2>1. PICK n \in Nat : \A T \in Types : Nesting[T] < n
    BY NestingBound
  <2>2. PICK f : Good(f, n)
    BY <1>d
  <2>4. \A T \in Types : Nesting[T] < n + 1
    BY <1>0, <2>1
  <2>5. \A T \in Types : Body(Body(f))[T] = Body(f)[T]
    <3> HIDE DEF Good, Body
    <3> QED BY <1>a, <2>2, <2>4
  <2>6. Body(Body(f)) = Body(f)
    BY <2>5, Zenon
  <2> QED BY <2>6
<1>2. ClassFree = CHOOSE f : f = Body(f)
  BY DEF ClassFree
<1>3. ClassFree = Body(ClassFree)
  <2> HIDE DEF Body
  <2> QED BY <1>1, <1>2
<1>4. \A T \in Types : ClassFree[T] = Body(ClassFree)[T]
  <2> HIDE DEF Body
  <2> QED BY <1>3
<1>5. \A T \in Types :
        ClassFree[T] = (T.kind # "custom" /\ \A i \in DOMAIN T.of : ClassFree[T.of[i]])
  BY <1>4
<1>6. ASSUME NEW T \in Types, ClassFree[T]
      PROVE  T.kind # "custom" /\ \A i \in DOMAIN T.of : T.of[i] \in Types /\ ClassFree[T.of[i]]
  <2>1. T.kind # "custom" /\ \A i \in DOMAIN T.of : ClassFree[T.of[i]]
    BY <1>5, <1>6, Zenon
  <2> QED BY <1>0, <2>1
<1> QED BY <1>6 DEF Free

-----------------------------------------------------------------------------
(* The inductive invariant                                                  *)

TypeInv ==
    /\ call \in Calls
    /\ clientBig \in BOOLEAN /\ serverBig \in BOOLEAN
    /\ stage \in {"write", "sent", "read", "respond", "answered", "done"}

\* The arguments written stand in the stream, the last one first.
InvWrite ==
    stage = "write" =>
        /\ IsStream(stream, clientBig, clientBig) /\ stream.pos = 0
        /\ todo \in 0 .. Len(call.args)
        /\ \E marks : LaidOut(stream.mem, call.args, todo, marks) /\ marks[todo] = Len(stream.mem)
        /\ received = <<>>

Request == Typed(RequestType, <<call.method, FieldsOf(stream), Id>>)

AllLaidOut ==
    \E marks : LaidOut(stream.mem, call.args, 0, marks) /\ marks[0] = Len(stream.mem)

\* The request is on its way.
InvSent ==
    stage = "sent" =>
        /\ IsStream(stream, clientBig, clientBig) /\ stream.pos = 0
        /\ AllLaidOut
        /\ packet = Bare[Request]
        /\ received = <<>>

\* The stream has arrived, and is read up to where the next argument stands.
Past(k) == [i \in 1 .. Len(call.args) - k |-> call.args[k + i].value]
InvRead ==
    stage = "read" =>
        /\ Known
        /\ IsStream(stream, clientBig, serverBig)
        /\ todo \in 0 .. Len(Handler.params)
        /\ response = <<Id>>
        /\ AllLaidOut
        /\ RightToLeft /\ WellMatched =>
             /\ \E marks : /\ LaidOut(stream.mem, call.args, 0, marks)
                           /\ marks[0] = Len(stream.mem)
                           /\ marks[todo] = stream.pos
             /\ received = Past(todo)

\* Where no class is expected there are at least as many values ahead as reads.
Fits ==
    /\ Known
    /\ clientBig = serverBig
    /\ Len(call.args) = Len(Handler.params)
    /\ \A i \in DOMAIN Handler.params : ClassFree[Handler.params[i]]
InvAhead ==
    Fits =>
        /\ stage = "read" => Ahead(stream, stream.pos, todo)
        /\ stream.pos <= Len(stream.mem)

\* What the server answers
ResultStream(result) ==
    IF Handler.ret = Void THEN NewStream(serverBig)
    ELSE Written(NewStream(serverBig), Typed(Handler.ret, result))
Answer(result, text) == response = <<FieldsOf(result), text, Id>>
Applied ==
    \/ \E text \in Errors : made = Error(text) /\ Answer(NewStream(serverBig), text)
    \/ \E result \in Handler.results :
         made = Value(result) /\ Answer(ResultStream(result), <<>>)
InvResponse ==
    stage \in {"respond", "answered", "done"} =>
        /\ ~Known => made = Error(NotFound) /\ Answer(NewStream(serverBig), NotFound)
        /\ Known => Applied /\ (RightToLeft /\ WellMatched => received = ValuesOf(call.args))
InvAnswered ==
    stage = "answered" => packet = Bare[Typed(ResponseType, response)]

InvHistory ==
    /\ stage \in {"write", "sent", "read"} => made = Pending
    /\ stage # "done" => returned = Pending

IInv ==
    /\ TypeInv /\ InvWrite /\ InvSent /\ InvRead /\ InvAhead
    /\ InvResponse /\ InvAnswered /\ InvHistory

LEMMA CallFacts ==
    ASSUME TypeInv
    PROVE  /\ call.method \in Text /\ call.args \in Seq(Given) /\ Short(call.args)
           /\ Len(call.args) \in Nat
<1>1. call.method \in Text /\ call.args \in Seq(Given) /\ Short(call.args)
  BY CallAssumption DEF TypeInv
<1> QED BY <1>1

LEMMA HandlerFacts ==
    ASSUME Known
    PROVE  /\ Handler.params \in Seq(Types)
           /\ Len(Handler.params) \in Nat
           /\ \A result \in Handler.results :
                IF Handler.ret = Void THEN result = <<>>
                ELSE /\ Typed(Handler.ret, result) \in Given
                     /\ Short(<<Typed(Handler.ret, result)>>)
<1>1. Handlers[call.method].params \in Seq(Types)
  BY CallAssumption DEF Known
<1>2. \A result \in Handlers[call.method].results :
        IF Handlers[call.method].ret = Void THEN result = <<>>
        ELSE /\ Typed(Handlers[call.method].ret, result) \in Given
             /\ Short(<<Typed(Handlers[call.method].ret, result)>>)
  BY CallAssumption DEF Known
<1> QED BY <1>1, <1>2 DEF Handler

\* The type and the value of what is written
LEMMA TypedParts == \A T, v : Typed(T, v).type = T /\ Typed(T, v).value = v
BY DEF Typed

\* Requests and responses can be written.
LEMMA Requests ==
    ASSUME NEW method \in Text, NEW fields \in StreamFields
    PROVE  Typed(RequestType, <<method, fields, Id>>) \in Writable
<1>1. Id \in Text
  BY CallAssumption
<1>2. Typed(RequestType, <<method, fields, Id>>) \in Of(RequestType, Text \X StreamFields \X Text)
  BY <1>1 DEF Typed, Of
<1> QED BY <1>2 DEF Writable, Packaged

LEMMA Responses ==
    ASSUME NEW fields \in StreamFields, NEW text \in Text
    PROVE  Typed(ResponseType, <<fields, text, Id>>) \in Writable
<1>1. Id \in Text
  BY CallAssumption
<1>2. Typed(ResponseType, <<fields, text, Id>>) \in Of(ResponseType, StreamFields \X Text \X Text)
  BY <1>1 DEF Typed, Of
<1> QED BY <1>2 DEF Writable, Packaged

LEMMA InvInit ==
    ASSUME Init
    PROVE  IInv
<1>1. /\ call \in Calls /\ clientBig \in BOOLEAN /\ serverBig \in BOOLEAN /\ stage = "write"
      /\ stream = NewStream(clientBig) /\ todo = Len(call.args) /\ received = <<>>
      /\ made = Pending /\ returned = Pending
  BY CallAssumption DEF Init
<1>2. TypeInv
  BY <1>1 DEF TypeInv
<1>3. /\ IsStream(stream, clientBig, clientBig) /\ stream.mem = <<>> /\ stream.pos = 0
  BY <1>1, NewStreams
<1>4. Len(call.args) \in Nat /\ call.args \in Seq(Given)
  BY <1>2, CallFacts
<1>5. InvWrite
  <2>1. PICK marks : LaidOut(<<>>, call.args, Len(call.args), marks) /\ marks[Len(call.args)] = 0
    BY <1>4, LaidNone
  <2>2. todo \in 0 .. Len(call.args) /\ Len(<<>>) = 0
    BY <1>1, <1>4
  <2>3. LaidOut(stream.mem, call.args, todo, marks) /\ marks[todo] = Len(stream.mem)
    BY <1>1, <1>3, <2>1, <2>2
  <2> QED BY <1>1, <1>3, <2>2, <2>3 DEF InvWrite
<1>6. InvAhead
  BY <1>1, <1>3 DEF InvAhead
<1> QED BY <1>1, <1>2, <1>5, <1>6 DEF IInv, InvSent, InvRead, InvResponse, InvAnswered, InvHistory

LEMMA InvWriteArgument ==
    ASSUME IInv, WriteArgument
    PROVE  IInv'
<1> DEFINE x == call.args[todo]
<1>1. /\ stage = "write" /\ todo > 0 /\ stream' = Written(stream, x) /\ todo' = todo - 1
      /\ UNCHANGED <<call, clientBig, serverBig, stage, packet, received, response, made, returned>>
  BY DEF WriteArgument, NextWritten
<1>2. TypeInv /\ InvWrite /\ InvHistory
  BY DEF IInv
<1>3. /\ IsStream(stream, clientBig, clientBig) /\ stream.pos = 0 /\ todo \in 0 .. Len(call.args)
      /\ received = <<>>
  BY <1>1, <1>2 DEF InvWrite
<1>4. PICK marks : LaidOut(stream.mem, call.args, todo, marks) /\ marks[todo] = Len(stream.mem)
  BY <1>1, <1>2 DEF InvWrite
<1>5. call.args \in Seq(Given) /\ todo \in 1 .. Len(call.args) /\ Len(call.args) \in Nat
  BY <1>1, <1>2, <1>3, CallFacts
<1>6. x \in Writable
  BY <1>5, GivenBytes
<1> HIDE DEF x
<1>7. /\ IsStream(stream', clientBig, clientBig) /\ stream'.pos = 0
      /\ stream'.mem = stream.mem \o Bare[x]
  <2>1. Encoded(Swaps(stream)) = Bare
    BY <1>3, SwapsNot, BareStands
  <2> QED BY <1>1, <1>3, <1>6, <2>1, Writes
<1>8. stream.mem \in Seq(Byte)
  BY <1>3, StreamFacts
<1>9. PICK more : /\ LaidOut(stream.mem \o Bare[x], call.args, todo - 1, more)
                  /\ more[todo - 1] = Len(stream.mem \o Bare[x])
  BY <1>4, <1>5, <1>8, LaidMore DEF x
<1>10. InvWrite'
  <2>1. LaidOut(stream'.mem, call'.args, todo', more) /\ more[todo'] = Len(stream'.mem)
    BY <1>1, <1>7, <1>9
  <2>2. todo' \in 0 .. Len(call'.args)
    BY <1>1, <1>5
  <2> QED BY <1>1, <1>3, <1>7, <2>1, <2>2 DEF InvWrite
<1>11. InvAhead'
  <2>2. stage' # "read"
    BY <1>1
  <2>3. stream'.pos <= Len(stream'.mem)
    BY <1>7, AtStart
  <2> QED BY <2>2, <2>3 DEF InvAhead
<1>12. TypeInv' /\ InvHistory'
  BY <1>1, <1>2 DEF TypeInv, InvHistory
<1> QED BY <1>1, <1>10, <1>11, <1>12 DEF IInv, InvSent, InvRead, InvResponse, InvAnswered

\* A stream as it is sent is short enough to be a field.
LEMMA SentFields ==
    ASSUME TypeInv, IsStream(stream, clientBig, clientBig), stream.pos = 0, AllLaidOut
    PROVE  /\ Len(stream.mem) < HugeLength
           /\ FieldsOf(stream) \in StreamFields /\ Request \in Writable
<1>1. call.method \in Text /\ call.args \in Seq(Given) /\ Short(call.args)
  BY CallFacts
<1>2. Len(stream.mem) < HugeLength
  <2>1. PICK marks : LaidOut(stream.mem, call.args, 0, marks) /\ marks[0] = Len(stream.mem)
    BY DEF AllLaidOut
  <2> QED BY <1>1, <2>1, LaidShort
<1>3. FieldsOf(stream) \in StreamFields
  BY <1>2, FieldsTravel DEF TypeInv
<1> QED BY <1>1, <1>2, <1>3, Requests DEF Request

LEMMA InvSendRequest ==
    ASSUME IInv, SendRequest
    PROVE  IInv'
<1>1. /\ stage = "write" /\ todo = 0 /\ stage' = "sent"
      /\ packet' = Data(Written(NewStream(clientBig), Request))
      /\ UNCHANGED <<call, clientBig, serverBig, stream, todo, received, response, made, returned>>
  BY DEF SendRequest, Request
<1>2. TypeInv /\ InvWrite /\ InvHistory
  BY DEF IInv
<1>3. /\ IsStream(stream, clientBig, clientBig) /\ stream.pos = 0 /\ received = <<>> /\ AllLaidOut
  BY <1>1, <1>2 DEF InvWrite, AllLaidOut
<1>4. Request \in Writable
  BY <1>2, <1>3, SentFields
<1>5. packet' = Bare[Request]
  BY <1>1, <1>4, Sends
<1>6. AllLaidOut' /\ Request' = Request
  BY <1>1, <1>3 DEF AllLaidOut, Request
<1>7. InvSent'
  BY <1>1, <1>3, <1>5, <1>6 DEF InvSent
<1>8. InvAhead'
  <2>1. stream.pos <= Len(stream.mem)
    BY <1>3, AtStart
  <2> QED BY <1>1, <2>1 DEF InvAhead
<1>9. TypeInv' /\ InvHistory'
  BY <1>1, <1>2 DEF TypeInv, InvHistory
<1> QED BY <1>1, <1>7, <1>8, <1>9 DEF IInv, InvWrite, InvRead, InvResponse, InvAnswered

\* The package that arrives is the one that was sent.
LEMMA RequestArrives ==
    ASSUME TypeInv, IsStream(stream, clientBig, clientBig), stream.pos = 0, AllLaidOut,
           packet = Bare[Request]
    PROVE  Read(Loaded(NewStream(serverBig), packet), RequestType).value
             = <<call.method, FieldsOf(stream), Id>>
<1>1. Request \in Writable
  BY SentFields
<1>2. Read(Loaded(NewStream(serverBig), Bare[Request]), Request.type).value = Request.value
  BY <1>1, Delivered
<1>3. Request.type = RequestType /\ Request.value = <<call.method, FieldsOf(stream), Id>>
  BY TypedParts DEF Request
<1> QED BY <1>2, <1>3

\* What does not change during a call
LEMMA CallStays ==
    ASSUME UNCHANGED <<call, clientBig, serverBig>>
    PROVE  /\ Known' <=> Known
           /\ Handler' = Handler
           /\ WellMatched' <=> WellMatched
           /\ Fits' <=> Fits
           /\ \A k : Past(k)' = Past(k)
<1>1. call' = call /\ clientBig' = clientBig /\ serverBig' = serverBig
  OBVIOUS
<1>2. (Known' <=> Known) /\ Handler' = Handler
  BY <1>1 DEF Known, Handler
<1>3. WellMatched' <=> WellMatched
  BY <1>1, <1>2 DEF WellMatched
<1>4. Fits' <=> Fits
  BY <1>1, <1>2 DEF Fits
<1>5. \A k : Past(k)' = Past(k)
  BY <1>1 DEF Past
<1> QED BY <1>2, <1>3, <1>4, <1>5

LEMMA WellMatchedLength ==
    ASSUME Known, WellMatched, call.args \in Seq(Given)
    PROVE  Len(Handler.params) = Len(call.args)
<1> DEFINE args == call.args
           types == [i \in 1 .. Len(args) |-> args[i].type]
<1>1. TypesOf(args) = Handler.params
  BY DEF WellMatched
<1>2. args \in Seq(Given)
  OBVIOUS
<1> HIDE DEF args
<1>3. Len(args) \in Nat /\ DOMAIN args = 1 .. Len(args)
  BY <1>2
<1>4. TypesOf(args) = types
  BY <1>3 DEF TypesOf
<1>5. Len(types) = Len(args)
  BY <1>3
<1> QED BY <1>1, <1>4, <1>5 DEF args

LEMMA PastNone ==
    ASSUME Len(call.args) \in Nat
    PROVE  Past(Len(call.args)) = <<>>
<1> DEFINE N == Len(call.args)
<1>1. N \in Nat
  OBVIOUS
<1> HIDE DEF N
<1>2. N - N = 0
  BY <1>1
<1>3. [i \in 1 .. N - N |-> call.args[N + i].value] = <<>>
  BY <1>2
<1> QED BY <1>3 DEF Past, N

LEMMA InvReceiveRequest ==
    ASSUME IInv, ReceiveRequest
    PROVE  IInv'
<1> DEFINE request == Read(Loaded(NewStream(serverBig), packet), RequestType).value
           N == Len(call.args)
<1>1. /\ stage = "sent"
      /\ stream' = FromFields(request[2], serverBig)
      /\ IF request[1] \in DOMAIN Handlers
         THEN /\ todo' = Len(Handlers[request[1]].params)
              /\ stage' = "read"
              /\ response' = <<request[3]>>
              /\ UNCHANGED made
         ELSE /\ Respond(NewStream(serverBig), NotFound, request[3])
              /\ made' = Error(NotFound)
              /\ UNCHANGED todo
      /\ UNCHANGED <<call, clientBig, serverBig, packet, received, returned>>
  BY DEF ReceiveRequest
<1>2. TypeInv /\ InvSent /\ InvHistory
  BY DEF IInv
<1>3. /\ IsStream(stream, clientBig, clientBig) /\ stream.pos = 0 /\ AllLaidOut
      /\ packet = Bare[Request] /\ received = <<>>
  BY <1>1, <1>2 DEF InvSent
<1>4. request[1] = call.method /\ request[2] = FieldsOf(stream) /\ request[3] = Id
  BY <1>2, <1>3, RequestArrives
<1>5. Len(stream.mem) < HugeLength
  BY <1>2, <1>3, SentFields
<1> HIDE DEF request
<1>6. /\ IsStream(stream', clientBig, serverBig) /\ stream'.mem = stream.mem /\ stream'.pos = 0
  <2>1. stream' = FromFields(FieldsOf(stream), serverBig)
    BY <1>1, <1>4
  <2>2. clientBig \in BOOLEAN
    BY <1>2 DEF TypeInv
  <2> QED BY <1>3, <1>5, <2>1, <2>2, FieldsTravel
<1>7. call.args \in Seq(Given) /\ N \in Nat
  BY <1>2, CallFacts
<1>8. PICK marks : LaidOut(stream.mem, call.args, 0, marks) /\ marks[0] = Len(stream.mem)
  BY <1>3 DEF AllLaidOut
<1>9. call' = call /\ clientBig' = clientBig /\ serverBig' = serverBig /\ received' = <<>>
  BY <1>1, <1>3
<1>10. AllLaidOut'
  BY <1>6, <1>8, <1>9 DEF AllLaidOut
<1>11. /\ Known' <=> Known
       /\ Handler' = Handler
       /\ WellMatched' <=> WellMatched
       /\ Fits' <=> Fits
       /\ \A k : Past(k)' = Past(k)
  BY <1>9, CallStays
<1>12. TypeInv'
  <2>1. stage' \in {"read", "respond"}
    BY <1>1 DEF Respond
  <2> QED BY <1>2, <1>9, <2>1 DEF TypeInv
<1>13. CASE Known
  <2>1. /\ todo' = Len(Handler.params) /\ stage' = "read" /\ response' = <<Id>> /\ made' = made
        /\ returned' = returned
    BY <1>1, <1>4, <1>13 DEF Known, Handler
  <2>2. Len(Handler.params) \in Nat
    BY <1>13, HandlerFacts
  <2>3. IsStream(stream, clientBig, serverBig)' /\ AllLaidOut' /\ response' = <<Id>>
    BY <1>6, <1>9, <1>10, <2>1
  <2>4. todo' \in 0 .. Len(Handler'.params)
    BY <1>11, <2>1, <2>2
  <2>5. ASSUME RightToLeft, WellMatched
        PROVE  /\ \E m : /\ LaidOut(stream'.mem, call'.args, 0, m)
                         /\ m[0] = Len(stream'.mem)
                         /\ m[todo'] = stream'.pos
               /\ received' = Past(todo)'
    <3>1. todo' = N
      BY <1>7, <1>13, <2>1, <2>5, WellMatchedLength
    <3>2. marks[N] = 0
      BY <1>8 DEF LaidOut
    <3>3. LaidOut(stream'.mem, call'.args, 0, marks) /\ marks[0] = Len(stream'.mem)
      BY <1>6, <1>8, <1>9
    <3>4. marks[todo'] = stream'.pos
      BY <1>6, <3>1, <3>2
    <3>5. Past(N) = <<>>
      BY <1>7, PastNone
    <3>6. received' = Past(todo)'
      BY <1>9, <3>1, <3>5 DEF Past
    <3> QED BY <3>3, <3>4, <3>6
  <2>6. InvRead'
    BY <1>11, <1>13, <2>3, <2>4, <2>5 DEF InvRead
  <2>7. InvAhead'
    <3>1. stream'.pos <= Len(stream'.mem)
      BY <1>6, AtStart
    <3>2. ASSUME Fits PROVE Ahead(stream', stream'.pos, todo')
      <4>1. clientBig = serverBig /\ todo' = N
        BY <2>1, <3>2 DEF Fits
      <4>2. stream'.mem \in Seq(Byte) /\ Swaps(stream') = FALSE
        BY <1>6, <4>1, StreamFacts, SwapsNot
      <4>3. LaidOut(stream'.mem, call.args, 0, marks) /\ marks[0] = Len(stream'.mem)
        BY <1>6, <1>8
      <4>4. Ahead(stream', 0, N)
        BY <1>7, <4>2, <4>3, LaidAhead
      <4> QED BY <1>6, <4>1, <4>4
    <3>3. Ahead(stream, stream.pos, todo)' = Ahead(stream', stream'.pos, todo')
      OBVIOUS
    <3> QED BY <1>11, <3>1, <3>2, <3>3 DEF InvAhead
  <2>8. InvHistory'
    BY <1>1, <1>2, <2>1 DEF InvHistory
  <2> QED BY <1>12, <2>1, <2>6, <2>7, <2>8
          DEF IInv, InvWrite, InvSent, InvResponse, InvAnswered
<1>14. CASE ~Known
  <2>1. /\ stage' = "respond" /\ made' = Error(NotFound) /\ returned' = returned
        /\ response' = <<FieldsOf(NewStream(serverBig)), NotFound, Id>>
    BY <1>1, <1>4, <1>14 DEF Known, Respond
  <2>2. Answer(NewStream(serverBig), NotFound)'
    BY <1>9, <2>1 DEF Answer
  <2>3. InvResponse'
    BY <1>11, <1>14, <2>1, <2>2 DEF InvResponse
  <2>4. InvAhead'
    BY <1>11, <1>14 DEF InvAhead, Fits
  <2>5. InvHistory'
    BY <1>1, <1>2, <2>1 DEF InvHistory
  <2> QED BY <1>12, <2>1, <2>3, <2>4, <2>5
          DEF IInv, InvWrite, InvSent, InvRead, InvAnswered
<1> QED BY <1>13, <1>14

\* A read moves the position only.
LEMMA Moved ==
    ASSUME NEW s, NEW big, NEW host, IsStream(s, big, host), NEW p
    PROVE  /\ IsStream([s EXCEPT !.pos = p], big, host)
           /\ [s EXCEPT !.pos = p].mem = s.mem
           /\ [s EXCEPT !.pos = p].pos = p
           /\ Swaps([s EXCEPT !.pos = p]) = Swaps(s)
<1> DEFINE t == [s EXCEPT !.pos = p]
           mem == s.mem
           pos == s.pos
<1>1. /\ s = [mem |-> mem, size |-> Len(mem), pos |-> pos, big |-> big, host |-> host]
      /\ mem \in Seq(Byte)
  BY DEF IsStream
<1> HIDE DEF mem, pos
<1>2. t = [mem |-> mem, size |-> Len(mem), pos |-> p, big |-> big, host |-> host]
  BY <1>1
<1> HIDE DEF t
<1>3. t.mem = mem /\ t.pos = p /\ t.big = big /\ t.host = host /\ s.big = big /\ s.host = host
  BY <1>1, <1>2
<1>4. IsStream(t, big, host)
  BY <1>1, <1>2, <1>3 DEF IsStream
<1>5. Swaps(t) = Swaps(s)
  BY <1>3 DEF Swaps
<1> QED BY <1>3, <1>4, <1>5 DEF t, mem

LEMMA PastOne ==
    ASSUME call.args \in Seq(Given), NEW k \in 1 .. Len(call.args)
    PROVE  <<call.args[k].value>> \o Past(k) = Past(k - 1)
<1> DEFINE N == Len(call.args)
           value(i) == call.args[i].value
           S == {value(i) : i \in 1 .. N}
           one == <<value(k)>>
           rest == [i \in 1 .. N - k |-> value(k + i)]
           all == [i \in 1 .. N - (k - 1) |-> value((k - 1) + i)]
<1>1. N \in Nat /\ k \in 1 .. N
  OBVIOUS
<1> HIDE DEF N, value
<1>2. one \in Seq(S) /\ Len(one) = 1 /\ one[1] = value(k)
  <2>1. value(k) \in S
    BY <1>1
  <2> HIDE DEF S
  <2> QED BY <2>1
<1>3. rest \in Seq(S) /\ Len(rest) = N - k
  <2>1. N - k \in Nat /\ \A i \in 1 .. N - k : value(k + i) \in S
    <3> SUFFICES ASSUME NEW i \in 1 .. N - k PROVE value(k + i) \in S
      BY <1>1
    <3>1. k + i \in 1 .. N
      BY <1>1
    <3> QED BY <3>1
  <2> QED BY <2>1
<1>4. all \in Seq(S) /\ Len(all) = N - k + 1
  <2>1. N - (k - 1) \in Nat /\ \A i \in 1 .. N - (k - 1) : value((k - 1) + i) \in S
    <3> SUFFICES ASSUME NEW i \in 1 .. N - (k - 1) PROVE value((k - 1) + i) \in S
      BY <1>1
    <3>1. (k - 1) + i \in 1 .. N
      BY <1>1
    <3> QED BY <3>1
  <2>2. N - (k - 1) = N - k + 1
    BY <1>1
  <2> QED BY <2>1, <2>2
<1>5. \A i \in 1 .. N - k : rest[i] = value(k + i)
  OBVIOUS
<1>6. \A i \in 1 .. N - k + 1 : all[i] = value((k - 1) + i)
  <2>1. N - (k - 1) = N - k + 1
    BY <1>1
  <2> QED BY <2>1
<1> HIDE DEF one, rest, all, S
<1>7. /\ one \o rest \in Seq(S) /\ Len(one \o rest) = Len(one) + Len(rest)
      /\ \A i \in 1 .. Len(one) + Len(rest) :
           (one \o rest)[i] = IF i <= Len(one) THEN one[i] ELSE rest[i - Len(one)]
  BY <1>2, <1>3, ConcatProperties
<1> DEFINE both == one \o rest
<1>8. both \in Seq(S) /\ Len(both) = N - k + 1
  BY <1>1, <1>2, <1>3, <1>7
<1>9. ASSUME NEW i \in 1 .. N - k + 1 PROVE both[i] = all[i]
  <2>1. both[i] = IF i <= 1 THEN one[i] ELSE rest[i - 1]
    BY <1>1, <1>2, <1>3, <1>7
  <2>2. CASE i = 1
    <3>1. (k - 1) + 1 = k
      BY <1>1
    <3> QED BY <1>2, <1>6, <2>1, <2>2, <3>1
  <2>3. CASE i # 1
    <3>1. i - 1 \in 1 .. N - k /\ k + (i - 1) = (k - 1) + i /\ ~(i <= 1)
      BY <1>1, <2>3
    <3>2. rest[i - 1] = value(k + (i - 1))
      BY <1>5, <3>1
    <3>3. all[i] = value((k - 1) + i)
      BY <1>6
    <3> QED BY <2>1, <3>1, <3>2, <3>3
  <2> QED BY <2>2, <2>3
<1> HIDE DEF both
<1>10. both = all
  BY <1>4, <1>8, <1>9, SeqEqual
<1> QED BY <1>10 DEF both, one, rest, all, value, N, Past

\* A well-matched argument is read where it stands.
LEMMA ArgumentRead ==
    ASSUME TypeInv, Known, WellMatched, RightToLeft,
           IsStream(stream, clientBig, serverBig),
           todo \in 1 .. Len(Handler.params),
           NEW marks, LaidOut(stream.mem, call.args, 0, marks), marks[todo] = stream.pos
    PROVE  Read(stream, Handler.params[NextParam])
             = Result(TRUE, call.args[todo].value, marks[todo - 1])
<1> DEFINE x == call.args[todo]
<1>1. call.args \in Seq(Given) /\ Len(call.args) \in Nat
  BY CallFacts
<1>2. todo \in 1 .. Len(call.args)
  BY <1>1, WellMatchedLength
<1>3. NextParam = todo
  BY DEF NextParam
<1>4. Handler.params[todo] = x.type
  <2>1. TypesOf(call.args) = Handler.params
    BY DEF WellMatched
  <2>2. DOMAIN call.args = 1 .. Len(call.args)
    BY <1>1
  <2>3. TypesOf(call.args)[todo] = x.type
    BY <1>2, <2>2 DEF TypesOf
  <2> QED BY <2>1, <2>3
<1> HIDE DEF x
<1>5. stream.mem \in Seq(Byte) /\ Swaps(stream) = FALSE
  <2>1. clientBig = serverBig
    BY DEF WellMatched
  <2> QED BY <2>1, StreamFacts, SwapsNot
<1>6. /\ x \in Writable /\ marks[todo] \in Nat
      /\ Stands(stream, x, marks[todo], marks[todo - 1])
  BY <1>1, <1>2, <1>5, LaidStands DEF x
<1>7. ReadBack(stream, x, marks[todo], marks[todo - 1])
  BY <1>5, <1>6, ReadsBack
<1> QED BY <1>3, <1>4, <1>7 DEF Read, ReadBack, x

LEMMA NextParams ==
    ASSUME Known, todo \in 1 .. Len(Handler.params)
    PROVE  NextParam \in DOMAIN Handler.params /\ Handler.params[NextParam] \in Types
<1>1. Handler.params \in Seq(Types) /\ Len(Handler.params) \in Nat
  BY HandlerFacts
<1>2. NextParam \in 1 .. Len(Handler.params)
  BY <1>1 DEF NextParam
<1> QED BY <1>1, <1>2

LEMMA InvReadArgument ==
    ASSUME IInv, ReadArgument
    PROVE  IInv'
<1> DEFINE T == Handler.params[NextParam]
           argument == Read(stream, T)
           x == call.args[todo]
<1>1. /\ stage = "read" /\ todo > 0 /\ todo' = todo - 1
      /\ stream' = [stream EXCEPT !.pos = argument.pos]
      /\ received' = IF RightToLeft THEN <<argument.value>> \o received
                     ELSE Append(received, argument.value)
      /\ UNCHANGED <<call, clientBig, serverBig, stage, packet, response, made, returned>>
  BY DEF ReadArgument
<1>2. TypeInv /\ InvRead /\ InvAhead /\ InvHistory
  BY DEF IInv
<1>3. /\ Known /\ IsStream(stream, clientBig, serverBig) /\ response = <<Id>> /\ AllLaidOut
      /\ todo \in 0 .. Len(Handler.params)
  BY <1>1, <1>2 DEF InvRead
<1>4. call.args \in Seq(Given) /\ Len(call.args) \in Nat /\ Len(Handler.params) \in Nat
  BY <1>2, <1>3, CallFacts, HandlerFacts
<1>5. todo \in 1 .. Len(Handler.params) /\ todo - 1 \in 0 .. Len(Handler.params)
      /\ todo - 1 \in Nat /\ (todo - 1) + 1 = todo
  BY <1>1, <1>3, <1>4
<1>6. NextParam \in DOMAIN Handler.params /\ T \in Types
  BY <1>3, <1>5, NextParams
<1> HIDE DEF argument
<1>7. /\ IsStream(stream', clientBig, serverBig) /\ stream'.mem = stream.mem
      /\ stream'.pos = argument.pos /\ Swaps(stream') = Swaps(stream)
  BY <1>1, <1>3, Moved
<1>8. call' = call /\ clientBig' = clientBig /\ serverBig' = serverBig
  BY <1>1
<1>9. /\ Known' <=> Known
      /\ Handler' = Handler
      /\ WellMatched' <=> WellMatched
      /\ Fits' <=> Fits
      /\ \A k : Past(k)' = Past(k)
  BY <1>8, CallStays
<1>10. AllLaidOut'
  BY <1>3, <1>7, <1>8 DEF AllLaidOut
<1>11. InvRead'
  <2>1. ASSUME RightToLeft, WellMatched
        PROVE  /\ \E m : /\ LaidOut(stream'.mem, call'.args, 0, m)
                         /\ m[0] = Len(stream'.mem)
                         /\ m[todo'] = stream'.pos
               /\ received' = Past(todo)'
    <3>1. PICK m : /\ LaidOut(stream.mem, call.args, 0, m)
                   /\ m[0] = Len(stream.mem)
                   /\ m[todo] = stream.pos
      BY <1>1, <1>2, <2>1 DEF InvRead
    <3>2. argument = Result(TRUE, x.value, m[todo - 1])
      BY <1>2, <1>3, <1>5, <2>1, <3>1, ArgumentRead DEF argument
    <3>3. argument.value = x.value /\ argument.pos = m[todo - 1]
      BY <3>2 DEF Result
    <3>4. received = Past(todo)
      BY <1>1, <1>2, <2>1 DEF InvRead
    <3>5. todo \in 1 .. Len(call.args)
      BY <1>3, <1>4, <1>5, <2>1, WellMatchedLength
    <3>6. received' = Past(todo - 1)
      <4>1. received' = <<x.value>> \o Past(todo)
        BY <1>1, <2>1, <3>3, <3>4
      <4> QED BY <1>4, <3>5, <4>1, PastOne
    <3>7. Past(todo)' = Past(todo - 1)
      BY <1>1, <1>8 DEF Past
    <3>8. LaidOut(stream'.mem, call'.args, 0, m) /\ m[0] = Len(stream'.mem)
      BY <1>7, <1>8, <3>1
    <3>9. m[todo'] = stream'.pos
      BY <1>1, <1>7, <3>3
    <3> QED BY <3>6, <3>7, <3>8, <3>9
  <2>2. IsStream(stream, clientBig, serverBig)' /\ response' = <<Id>>
    BY <1>1, <1>3, <1>7, <1>8
  <2>3. todo' \in 0 .. Len(Handler'.params)
    BY <1>1, <1>5, <1>9
  <2> QED BY <1>3, <1>9, <1>10, <2>1, <2>2, <2>3 DEF InvRead
<1>12. InvAhead'
  <2>1. ASSUME Fits PROVE Ahead(stream', stream'.pos, todo') /\ stream'.pos <= Len(stream'.mem)
    <3>1. Ahead(stream, stream.pos, (todo - 1) + 1) /\ stream.mem \in Seq(Byte)
      BY <1>1, <1>2, <1>3, <1>5, <2>1, StreamFacts DEF InvAhead
    <3>2. T \in Free
      BY <1>6, <2>1 DEF Fits, Free
    <3>3. stream.pos \in Nat
      BY <1>5, <3>1, AheadInside
    <3>4. Ahead(stream, Decoded(stream)[T][stream.pos].pos, todo - 1)
      <4> HIDE DEF T
      <4> QED BY <1>5, <3>1, <3>2, <3>3, FreeParts, ReadKeeps
    <3>5. Ahead(stream, stream'.pos, todo')
      BY <1>1, <1>7, <3>4 DEF argument, Read
    <3>6. Ahead(stream', stream'.pos, todo')
      BY <1>7, <3>5, AheadSame
    <3>7. stream'.pos <= Len(stream'.mem)
      BY <1>1, <1>5, <3>6, AheadInside
    <3> QED BY <3>6, <3>7
  <2>2. Ahead(stream, stream.pos, todo)' = Ahead(stream', stream'.pos, todo')
    OBVIOUS
  <2> QED BY <1>9, <2>1, <2>2 DEF InvAhead
<1>13. TypeInv' /\ InvHistory'
  BY <1>1, <1>2 DEF TypeInv, InvHistory
<1> QED BY <1>1, <1>11, <1>12, <1>13 DEF IInv, InvWrite, InvSent, InvResponse, InvAnswered

LEMMA PastAll ==
    ASSUME call.args \in Seq(Given)
    PROVE  Past(0) = ValuesOf(call.args)
<1> DEFINE N == Len(call.args)
<1>1. N \in Nat /\ DOMAIN call.args = 1 .. N
  OBVIOUS
<1> HIDE DEF N
<1>2. 1 .. N - 0 = 1 .. N /\ \A i \in 1 .. N : 0 + i = i
  BY <1>1
<1>3. [i \in 1 .. N - 0 |-> call.args[0 + i].value] = [i \in 1 .. N |-> call.args[i].value]
  BY <1>2
<1> QED BY <1>1, <1>3 DEF Past, ValuesOf, N

\* The function has run, or thrown, and its answer is made.
LEMMA InvAnswer ==
    ASSUME IInv, stage = "read", todo = 0, stage' = "respond",
           UNCHANGED <<call, clientBig, serverBig, stream, todo, packet, received, returned>>,
           Applied'
    PROVE  IInv'
<1>1. /\ TypeInv /\ InvRead /\ InvAhead /\ InvHistory
      /\ call' = call /\ clientBig' = clientBig /\ serverBig' = serverBig
      /\ stream' = stream /\ received' = received /\ returned' = returned
  BY DEF IInv
<1>2. /\ Known' <=> Known
      /\ WellMatched' <=> WellMatched
      /\ Fits' <=> Fits
  BY <1>1, CallStays
<1>3. Known
  BY <1>1 DEF InvRead
<1>4. ASSUME RightToLeft, WellMatched PROVE received' = ValuesOf(call'.args)
  <2>1. received = Past(0)
    BY <1>1, <1>4 DEF InvRead
  <2>2. call.args \in Seq(Given)
    BY <1>1, CallFacts
  <2> QED BY <1>1, <2>1, <2>2, PastAll
<1>5. InvResponse'
  BY <1>2, <1>3, <1>4 DEF InvResponse
<1>6. InvAhead'
  BY <1>1, <1>2 DEF InvAhead
<1>7. TypeInv' /\ InvHistory'
  BY <1>1 DEF TypeInv, InvHistory
<1> QED BY <1>5, <1>6, <1>7 DEF IInv, InvWrite, InvSent, InvRead, InvAnswered

LEMMA InvApply ==
    ASSUME IInv, Apply
    PROVE  IInv'
<1>1. /\ stage = "read" /\ todo = 0 /\ stage' = "respond"
      /\ UNCHANGED <<call, clientBig, serverBig, stream, todo, packet, received, returned>>
  BY DEF Apply, Respond
<1>2. PICK result \in Handler.results :
        made' = Value(result) /\ response' = <<FieldsOf(ResultStream(result)), <<>>, response[1]>>
  BY DEF Apply, Respond, ResultStream
<1>3. InvRead
  BY DEF IInv
<1>4. response[1] = Id
  BY <1>1, <1>3 DEF InvRead
<1>5. Handler' = Handler /\ serverBig' = serverBig
  BY <1>1, CallStays
<1>6. ResultStream(result)' = ResultStream(result)
  BY <1>5 DEF ResultStream
<1>7. Answer(ResultStream(result), <<>>)'
  BY <1>2, <1>4, <1>6 DEF Answer
<1>8. Applied'
  BY <1>2, <1>5, <1>7 DEF Applied
<1> QED BY <1>1, <1>8, InvAnswer

LEMMA InvThrow ==
    ASSUME IInv, Throw
    PROVE  IInv'
<1>1. /\ stage = "read" /\ todo = 0 /\ stage' = "respond"
      /\ UNCHANGED <<call, clientBig, serverBig, stream, todo, packet, received, returned>>
  BY DEF Throw, Respond
<1>2. PICK text \in Errors :
        made' = Error(text) /\ response' = <<FieldsOf(NewStream(serverBig)), text, response[1]>>
  BY DEF Throw, Respond
<1>3. InvRead
  BY DEF IInv
<1>4. response[1] = Id
  BY <1>1, <1>3 DEF InvRead
<1>5. Answer(NewStream(serverBig), text)'
  BY <1>1, <1>2, <1>4 DEF Answer
<1>6. Applied'
  BY <1>2, <1>5 DEF Applied
<1> QED BY <1>1, <1>6, InvAnswer

\* The stream of a result: what it holds, and that it is short enough to be a field
LEMMA ResultStreams ==
    ASSUME Known, serverBig \in BOOLEAN, NEW result \in Handler.results
    PROVE  LET s == ResultStream(result)
               returns == Typed(Handler.ret, result)
           IN  /\ IsStream(s, serverBig, serverBig) /\ s.pos = 0 /\ Len(s.mem) < HugeLength
               /\ Handler.ret # Void => returns \in Writable /\ s.mem = Bare[returns]
<1> DEFINE s == ResultStream(result)
           returns == Typed(Handler.ret, result)
           new == NewStream(serverBig)
<1>1. IsStream(new, serverBig, serverBig) /\ new.mem = <<>> /\ new.pos = 0
  BY NewStreams
<1>2. CASE Handler.ret = Void
  <2>1. s = new
    BY <1>2 DEF ResultStream
  <2>2. Len(<<>>) < HugeLength
    BY DEF HugeLength
  <2> QED BY <1>1, <1>2, <2>1, <2>2
<1>3. CASE Handler.ret # Void
  <2>1. returns \in Given /\ Short(<<returns>>)
    BY <1>3, HandlerFacts
  <2>2. s = Written(new, returns)
    BY <1>3 DEF ResultStream
  <2> HIDE DEF s, returns, new
  <2>3. returns \in Writable
    BY <2>1 DEF Writable
  <2>4. Len(Bare[returns]) < HugeLength /\ Bare[returns] \in Seq(Byte)
    BY <2>1, <2>3, ShortOne, BareBytes
  <2>5. Swaps(new) = FALSE
    BY <1>1, SwapsNot
  <2>6. Encoded(Swaps(new)) = Bare
    BY <2>5, BareStands
  <2>7. IsStream(s, serverBig, serverBig) /\ s.pos = 0 /\ s.mem = <<>> \o Bare[returns]
    BY <1>1, <2>2, <2>3, <2>6, Writes
  <2> DEFINE bytes == Bare[returns]
  <2>8. <<>> \o bytes = bytes
    <3> HIDE DEF bytes
    <3>1. bytes \in Seq(Byte)
      BY <2>4 DEF bytes
    <3> QED BY <3>1
  <2>9. s.mem = Bare[returns] /\ Len(s.mem) < HugeLength
    BY <2>4, <2>7, <2>8
  <2> QED BY <2>3, <2>7, <2>9 DEF s, returns
<1> QED BY <1>2, <1>3

\* Every answer can be written.
LEMMA Answers ==
    ASSUME TypeInv, InvResponse, stage \in {"respond", "answered", "done"}
    PROVE  /\ Typed(ResponseType, response) \in Writable
           /\ response[3] = Id
<1> DEFINE new == NewStream(serverBig)
           Sound(s, text) == /\ IsStream(s, serverBig, serverBig) /\ s.pos = 0
                             /\ Len(s.mem) < HugeLength /\ text \in Text
<1>1. serverBig \in BOOLEAN
  BY DEF TypeInv
<1>2. IsStream(new, serverBig, serverBig) /\ new.pos = 0 /\ Len(new.mem) < HugeLength
  <2>1. new.mem = <<>>
    BY NewStreams
  <2>2. Len(<<>>) < HugeLength
    BY DEF HugeLength
  <2> QED BY <2>1, <2>2, NewStreams
<1>3. <<>> \in Text /\ NotFound \in Text /\ Errors \subseteq Text
  <2>1. <<>> \in Text
    BY DEF Text, HugeLength
  <2> QED BY <2>1, CallAssumption
<1>4. PICK s, text : Sound(s, text) /\ Answer(s, text)
  <2>1. CASE ~Known
    <3>1. Answer(new, NotFound)
      BY <2>1 DEF InvResponse
    <3> QED BY <1>2, <1>3, <3>1
  <2>2. CASE Known
    <3>1. Applied
      BY <2>2 DEF InvResponse
    <3>2. CASE \E text \in Errors : made = Error(text) /\ Answer(new, text)
      BY <1>2, <1>3, <3>2
    <3>3. CASE \E result \in Handler.results :
                 made = Value(result) /\ Answer(ResultStream(result), <<>>)
      <4>1. PICK result \in Handler.results : Answer(ResultStream(result), <<>>)
        BY <3>3
      <4> DEFINE s == ResultStream(result)
      <4>2. IsStream(s, serverBig, serverBig) /\ s.pos = 0 /\ Len(s.mem) < HugeLength
        BY <1>1, <2>2, ResultStreams
      <4> QED BY <1>3, <4>1, <4>2
    <3> QED BY <3>1, <3>2, <3>3 DEF Applied
  <2> QED BY <2>1, <2>2
<1>5. FieldsOf(s) \in StreamFields
  BY <1>1, <1>4, FieldsTravel
<1>6. response = <<FieldsOf(s), text, Id>>
  BY <1>4 DEF Answer
<1> QED BY <1>4, <1>5, <1>6, Responses

\* An answer that is made stays as it is.
LEMMA AnswerStays ==
    ASSUME InvResponse, stage \in {"respond", "answered"},
           UNCHANGED <<call, clientBig, serverBig, received, response, made>>
    PROVE  InvResponse'
<1>1. /\ call' = call /\ clientBig' = clientBig /\ serverBig' = serverBig
      /\ received' = received /\ response' = response /\ made' = made
  OBVIOUS
<1>2. /\ Known' <=> Known
      /\ Handler' = Handler
      /\ WellMatched' <=> WellMatched
  BY <1>1, CallStays
<1>3. \A s, text : Answer(s, text)' <=> Answer(s, text)
  BY <1>1 DEF Answer
<1>4. \A result : ResultStream(result)' = ResultStream(result)
  BY <1>1, <1>2 DEF ResultStream
<1>5. Applied' <=> Applied
  <2>1. (\E text \in Errors : made = Error(text) /\ Answer(NewStream(serverBig), text))'
          <=> \E text \in Errors : made = Error(text) /\ Answer(NewStream(serverBig), text)
    BY <1>1 DEF Answer
  <2>2. (\E result \in Handler.results :
             made = Value(result) /\ Answer(ResultStream(result), <<>>))'
          <=> \E result \in Handler.results :
             made = Value(result) /\ Answer(ResultStream(result), <<>>)
    BY <1>1, <1>2, <1>4 DEF Answer
  <2> QED BY <2>1, <2>2 DEF Applied
<1>6. Answer(NewStream(serverBig), NotFound)' <=> Answer(NewStream(serverBig), NotFound)
  BY <1>1 DEF Answer
<1> QED BY <1>1, <1>2, <1>5, <1>6 DEF InvResponse

LEMMA InvSendResponse ==
    ASSUME IInv, SendResponse
    PROVE  IInv'
<1> DEFINE x == Typed(ResponseType, response)
<1>1. /\ stage = "respond" /\ stage' = "answered"
      /\ packet' = Data(Written(NewStream(serverBig), x))
      /\ UNCHANGED <<call, clientBig, serverBig, stream, todo, received, response, made, returned>>
  BY DEF SendResponse
<1>2. TypeInv /\ InvResponse /\ InvAhead /\ InvHistory
  BY DEF IInv
<1>3. x \in Writable
  BY <1>1, <1>2, Answers
<1> HIDE DEF x
<1>4. packet' = Bare[x]
  BY <1>1, <1>3, Sends
<1>5. InvAnswered'
  BY <1>1, <1>4 DEF InvAnswered, x
<1>6. /\ Known' <=> Known
      /\ Handler' = Handler
      /\ WellMatched' <=> WellMatched
      /\ Fits' <=> Fits
  BY <1>1, CallStays
<1>7. InvResponse'
  BY <1>1, <1>2, AnswerStays
<1>8. InvAhead'
  BY <1>1, <1>2, <1>6 DEF InvAhead
<1>9. TypeInv' /\ InvHistory'
  BY <1>1, <1>2 DEF TypeInv, InvHistory
<1> QED BY <1>1, <1>5, <1>7, <1>8, <1>9 DEF IInv, InvWrite, InvSent, InvRead

LEMMA InvReceiveResponse ==
    ASSUME IInv, ReceiveResponse
    PROVE  IInv'
<1>1. /\ stage = "answered" /\ stage' = "done"
      /\ UNCHANGED <<call, clientBig, serverBig, stream, todo, packet, received, response, made>>
  BY DEF ReceiveResponse
<1>2. TypeInv /\ InvResponse /\ InvAhead
  BY DEF IInv
<1>3. Fits' <=> Fits
  BY <1>1, CallStays
<1>4. InvResponse'
  BY <1>1, <1>2, AnswerStays
<1>5. InvAhead'
  BY <1>1, <1>2, <1>3 DEF InvAhead
<1>6. TypeInv' /\ InvHistory'
  BY <1>1, <1>2 DEF TypeInv, InvHistory
<1> QED BY <1>1, <1>4, <1>5, <1>6 DEF IInv, InvWrite, InvSent, InvRead, InvAnswered

LEMMA InvStutters ==
    ASSUME IInv, UNCHANGED vars
    PROVE  IInv'
<1>1. /\ call' = call /\ clientBig' = clientBig /\ serverBig' = serverBig /\ stage' = stage
      /\ stream' = stream /\ todo' = todo /\ packet' = packet /\ received' = received
      /\ response' = response /\ made' = made /\ returned' = returned
  BY DEF vars
<1>2. /\ Known' <=> Known
      /\ Handler' = Handler
      /\ WellMatched' <=> WellMatched
      /\ Fits' <=> Fits
      /\ \A k : Past(k)' = Past(k)
  BY <1>1, CallStays
<1>3. AllLaidOut' <=> AllLaidOut
  BY <1>1 DEF AllLaidOut
<1>4. TypeInv' /\ InvHistory' /\ InvAnswered'
  BY <1>1 DEF IInv, TypeInv, InvHistory, InvAnswered
<1>5. InvWrite'
  BY <1>1 DEF IInv, InvWrite
<1>6. InvSent'
  <2>1. Request' = Request
    BY <1>1 DEF Request
  <2> QED BY <1>1, <1>3, <2>1 DEF IInv, InvSent
<1>7. InvRead'
  <2>1. received' = Past(todo)' <=> received = Past(todo)
    BY <1>1, <1>2
  <2> QED BY <1>1, <1>2, <1>3, <2>1 DEF IInv, InvRead
<1>8. InvAhead'
  <2>1. Ahead(stream, stream.pos, todo)' <=> Ahead(stream, stream.pos, todo)
    BY <1>1
  <2> QED BY <1>1, <1>2, <2>1 DEF IInv, InvAhead
<1>9. InvResponse'
  <2>1. CASE stage \in {"respond", "answered"}
    BY <1>1, <2>1, AnswerStays DEF IInv
  <2>2. CASE stage = "done"
    <3>1. Applied' <=> Applied
      BY <1>1, <1>2 DEF Applied, Answer, ResultStream
    <3> QED BY <1>1, <1>2, <2>2, <3>1 DEF IInv, InvResponse, Answer
  <2>3. CASE stage \notin {"respond", "answered", "done"}
    BY <1>1, <2>3 DEF InvResponse
  <2> QED BY <2>1, <2>2, <2>3
<1> QED BY <1>4, <1>5, <1>6, <1>7, <1>8, <1>9 DEF IInv

LEMMA InvStep ==
    ASSUME IInv, [Next]_vars
    PROVE  IInv'
<1>1. CASE WriteArgument
  BY <1>1, InvWriteArgument
<1>2. CASE SendRequest
  BY <1>2, InvSendRequest
<1>3. CASE ReceiveRequest
  BY <1>3, InvReceiveRequest
<1>4. CASE ReadArgument
  BY <1>4, InvReadArgument
<1>5. CASE Apply
  BY <1>5, InvApply
<1>6. CASE Throw
  BY <1>6, InvThrow
<1>7. CASE SendResponse
  BY <1>7, InvSendResponse
<1>8. CASE ReceiveResponse
  BY <1>8, InvReceiveResponse
<1>9. CASE Done \/ UNCHANGED vars
  BY <1>9, InvStutters DEF Done
<1> QED BY <1>1, <1>2, <1>3, <1>4, <1>5, <1>6, <1>7, <1>8, <1>9 DEF Next

(***************************************************************************)
(* What is true at every step of a call: the arguments stand one behind    *)
(* the other in the stream, the request carries that stream, the server    *)
(* reads it from where the next argument stands, and the response carries  *)
(* what the function did (Rpc_Client::call, Function_Handler::call).       *)
(***************************************************************************)
THEOREM Invariance == Spec => []IInv
<1>1. Init => IInv
  BY InvInit
<1>2. IInv /\ [Next]_vars => IInv'
  BY InvStep
<1> QED BY <1>1, <1>2, PTL DEF Spec

(***************************************************************************)
(* The server never reads past the request, whatever types it expects and  *)
(* whatever the arguments are, as long as they are as many and no class is *)
(* expected (Data_Stream::read and its helpers).                           *)
(***************************************************************************)
THEOREM DataSafety == Spec => []StaysInData
<1>1. IInv => StaysInData
  BY DEF IInv, InvAhead, Fits, StaysInData
<1> QED BY <1>1, Invariance, PTL

-----------------------------------------------------------------------------
(* Reading in step                                                          *)

LEMMA UnreadValues ==
    ASSUME RightToLeft, call.args \in Seq(Given), todo \in 0 .. Len(call.args)
    PROVE  /\ Unread \in Seq(Given) /\ Len(Unread) = todo
           /\ \A i \in 1 .. todo : Unread[i] = call.args[todo - i + 1]
<1> DEFINE first == SubSeq(call.args, 1, todo)
<1>1. Len(call.args) \in Nat /\ todo \in Nat
  OBVIOUS
<1>2. first \in Seq(Given) /\ Len(first) = todo /\ \A i \in 1 .. todo : first[i] = call.args[i]
  BY <1>1
<1>3. Unread = Reverse(first)
  BY DEF Unread
<1> HIDE DEF first
<1>4. Unread = [i \in 1 .. todo |-> first[(todo - i) + 1]]
  BY <1>2, <1>3 DEF Reverse
<1>5. ASSUME NEW i \in 1 .. todo
      PROVE  (todo - i) + 1 \in 1 .. todo /\ first[(todo - i) + 1] = call.args[todo - i + 1]
  <2>1. (todo - i) + 1 \in 1 .. todo
    BY <1>1
  <2> QED BY <1>2, <2>1
<1>6. \A i \in 1 .. todo : first[(todo - i) + 1] \in Given
  BY <1>2, <1>5
<1>7. Unread \in Seq(Given) /\ Len(Unread) = todo
  BY <1>1, <1>4, <1>6
<1> QED BY <1>4, <1>5, <1>7

LEMMA InStep ==
    ASSUME RightToLeft, IInv
    PROVE  ReadsInStep
<1> SUFFICES ASSUME stage = "read", WellMatched
             PROVE  ReadAll(stream, TypesOf(Unread))
                      = Result(TRUE, ValuesOf(Unread), Len(stream.mem))
  BY DEF ReadsInStep
<1> DEFINE N == Len(call.args)
           types == TypesOf(Unread)
           values == ValuesOf(Unread)
           reads == [i \in DOMAIN types |-> Decoded(stream)[types[i]]]
           stops == TRUE
<1>1. /\ Known /\ IsStream(stream, clientBig, serverBig)
      /\ todo \in 0 .. Len(Handler.params) /\ TypeInv
  BY DEF IInv, InvRead
<1>2. call.args \in Seq(Given) /\ N \in Nat
  BY <1>1, CallFacts
<1>3. todo \in 0 .. N
  BY <1>1, <1>2, WellMatchedLength
<1>4. PICK marks : /\ LaidOut(stream.mem, call.args, 0, marks)
                   /\ marks[0] = Len(stream.mem) /\ marks[todo] = stream.pos
  BY DEF IInv, InvRead
<1> DEFINE cut == [i \in 0 .. todo |-> marks[todo - i]]
<1>5. /\ Unread \in Seq(Given) /\ Len(Unread) = todo /\ todo \in Nat
      /\ \A i \in 1 .. todo : Unread[i] = call.args[todo - i + 1]
  BY <1>2, <1>3, UnreadValues
<1>6. /\ types = [i \in 1 .. todo |-> Unread[i].type]
      /\ values = [i \in 1 .. todo |-> Unread[i].value]
  <2>1. DOMAIN Unread = 1 .. todo
    BY <1>5
  <2> QED BY <2>1 DEF TypesOf, ValuesOf
<1> HIDE DEF types, values
<1>7. Len(reads) = todo /\ \A i \in 1 .. todo : reads[i] = Decoded(stream)[Unread[i].type]
  <2>1. reads = [i \in 1 .. todo |-> Decoded(stream)[types[i]]]
    BY <1>6
  <2>2. \A i \in 1 .. todo : types[i] = Unread[i].type
    BY <1>6
  <2> HIDE DEF reads
  <2> QED BY <1>5, <2>1, <2>2
<1>8. values = [i \in 1 .. todo |-> values[i]]
  BY <1>6
<1>9. cut[0] = stream.pos /\ cut[todo] = Len(stream.mem)
  <2>1. 0 \in 0 .. todo /\ todo \in 0 .. todo /\ todo - 0 = todo /\ todo - todo = 0
    BY <1>5
  <2> QED BY <1>4, <2>1
<1>10. stream.mem \in Seq(Byte) /\ Swaps(stream) = FALSE
  <2>1. clientBig = serverBig
    BY DEF WellMatched
  <2> QED BY <1>1, <2>1, StreamFacts, SwapsNot
<1> HIDE DEF reads
<1>11. ASSUME NEW i \in 1 .. todo
       PROVE  reads[i][cut[i - 1]] = Result(TRUE, values[i], cut[i])
  <2> DEFINE k == todo - i + 1
             x == call.args[k]
  <2>1. /\ k \in 1 .. N /\ i - 1 \in 0 .. todo /\ i \in 0 .. todo
        /\ todo - (i - 1) = k /\ todo - i = k - 1
    BY <1>2, <1>3
  <2>2. cut[i - 1] = marks[k] /\ cut[i] = marks[k - 1]
    BY <2>1
  <2>3. reads[i] = Decoded(stream)[x.type] /\ values[i] = x.value
    BY <1>5, <1>6, <1>7
  <2> HIDE DEF k, x, cut, N
  <2>4. x \in Writable /\ marks[k] \in Nat /\ Stands(stream, x, marks[k], marks[k - 1])
    BY <1>2, <1>4, <1>10, <2>1, LaidStands DEF N, x
  <2>5. ReadBack(stream, x, marks[k], marks[k - 1])
    BY <1>10, <2>4, ReadsBack
  <2> QED BY <2>2, <2>3, <2>5 DEF ReadBack
<1> HIDE DEF cut
<1>12. EachReads(reads, todo, values, cut)
  BY <1>7, <1>8, <1>11 DEF EachReads
<1> HIDE DEF stops
<1>13. RowGets(reads, todo, values, cut, stops)
  BY <1>5, <1>12, RowReads
<1>14. InARow(reads, stream.pos, stops) = Result(TRUE, values, Len(stream.mem))
  BY <1>9, <1>13 DEF RowGets
<1> QED BY <1>14 DEF ReadAll, reads, types, values, stops

(***************************************************************************)
(* Where get_args evaluates its reads from right to left, every read finds *)
(* its own argument: the values still to come are exactly what the stream  *)
(* still holds (Rpc_Client::call's write_args, Function_Handler::get_args).*)
(***************************************************************************)
THEOREM InStepAlways ==
    ASSUME RightToLeft
    PROVE  Spec => []ReadsInStep
<1>1. IInv => ReadsInStep
  BY InStep
<1> QED BY <1>1, Invariance, PTL

-----------------------------------------------------------------------------
(* A remote call is a call                                                  *)

LEMMA Outcomes ==
    /\ \A v : Value(v) # Pending
    /\ \A text : Error(text) # Pending
    /\ \A text : Error(text).error = text
<1>1. \A v : Value(v) # Pending
  <2> TAKE v
  <2>1. DOMAIN Value(v) = {"value"} /\ DOMAIN Pending = {"how"}
    BY DEF Value, Pending
  <2> QED BY <2>1
<1>2. \A text : Error(text) # Pending
  <2> TAKE text
  <2>1. DOMAIN Error(text) = {"error"} /\ DOMAIN Pending = {"how"}
    BY DEF Error, Pending
  <2> QED BY <2>1
<1>3. \A text : Error(text).error = text
  BY DEF Error
<1> QED BY <1>1, <1>2, <1>3

\* The result's stream, arrived at a client of the server's kind, is read as the
\* result.
LEMMA ResultArrives ==
    ASSUME TypeInv, Known, clientBig = serverBig, NEW result \in Handler.results,
           Handler.ret # Void
    PROVE  Read(FromFields(FieldsOf(ResultStream(result)), clientBig), Handler.ret).value = result
<1> DEFINE s == ResultStream(result)
           x == Typed(Handler.ret, result)
           t == FromFields(FieldsOf(s), clientBig)
           n == Len(Bare[x])
<1>1. serverBig \in BOOLEAN
  BY DEF TypeInv
<1>2. /\ IsStream(s, serverBig, serverBig) /\ s.pos = 0 /\ Len(s.mem) < HugeLength
      /\ x \in Writable /\ s.mem = Bare[x]
  BY <1>1, ResultStreams
<1> HIDE DEF s
<1>3. IsStream(t, serverBig, clientBig) /\ t.mem = Bare[x] /\ t.pos = 0
  BY <1>1, <1>2, FieldsTravel
<1>4. t.mem \in Seq(Byte) /\ Swaps(t) = FALSE
  BY <1>3, StreamFacts, SwapsNot
<1> HIDE DEF t
<1>5. x.type = Handler.ret /\ x.value = result
  BY TypedParts
<1>6. Bare[x] \in Seq(Byte) /\ n \in Nat
  BY <1>2, BareBytes
<1> HIDE DEF x
<1>7. Stands(t, x, 0, n)
  <2>1. At(Bare[x], 0, Bare[x])
    <3> DEFINE bytes == Bare[x]
    <3>1. bytes \in Seq(Byte)
      BY <1>6
    <3> HIDE DEF bytes
    <3>2. At(bytes, 0, bytes)
      BY <3>1 DEF At
    <3> QED BY <3>2 DEF bytes
  <2>2. Stands(t, x, 0, n) = (At(t.mem, 0, Bare[x]) /\ n = 0 + Len(Bare[x]))
    BY <1>4, BareStands
  <2>3. n = 0 + n
    BY <1>6
  <2> QED BY <1>3, <2>1, <2>2, <2>3
<1>8. ReadBack(t, x, 0, n)
  BY <1>2, <1>4, <1>7, ReadsBack
<1>9. Read(t, x.type).value = x.value
  BY <1>3, <1>8 DEF Read, ReadBack, Result
<1> QED BY <1>5, <1>9 DEF s, t

\* What the caller gets is what the function did.
LEMMA ReturnedAsMade ==
    ASSUME IInv, ReceiveResponse, WellMatched
    PROVE  returned' = made /\ made # Pending
<1> DEFINE answer == Read(Loaded(NewStream(clientBig), packet), ResponseType).value
<1>1. /\ stage = "answered"
      /\ returned' = IF Failed(answer[2]) THEN Error(answer[2])
                     ELSE IF ~Known \/ Handler.ret = Void THEN Value(<<>>)
                     ELSE Value(Read(FromFields(answer[1], clientBig), Handler.ret).value)
  BY DEF ReceiveResponse
<1>2. TypeInv /\ InvResponse /\ packet = Bare[Typed(ResponseType, response)]
  BY <1>1 DEF IInv, InvAnswered
<1>3. Typed(ResponseType, response) \in Writable
  BY <1>1, <1>2, Answers
<1>4. answer = response
  <2> DEFINE x == Typed(ResponseType, response)
  <2>1. x.type = ResponseType /\ x.value = response
    BY TypedParts
  <2> HIDE DEF x
  <2>2. Read(Loaded(NewStream(clientBig), Bare[x]), x.type).value = x.value
    BY <1>3, Delivered DEF x
  <2>3. packet = Bare[x]
    BY <1>2 DEF x
  <2> QED BY <2>1, <2>2, <2>3
<1> HIDE DEF answer
<1>5. <<>> \notin {NotFound} \cup Errors
  BY CallAssumption
<1>6. CASE ~Known
  <2>1. made = Error(NotFound) /\ Answer(NewStream(serverBig), NotFound)
    BY <1>1, <1>2, <1>6 DEF InvResponse
  <2>2. answer[2] = NotFound
    BY <1>4, <2>1 DEF Answer
  <2> QED BY <1>1, <1>5, <2>1, <2>2, Outcomes DEF Failed
<1>7. CASE Known
  <2>1. Applied
    BY <1>1, <1>2, <1>7 DEF InvResponse
  <2>2. CASE \E text \in Errors : made = Error(text) /\ Answer(NewStream(serverBig), text)
    <3>1. PICK text \in Errors : made = Error(text) /\ Answer(NewStream(serverBig), text)
      BY <2>2
    <3>2. answer[2] = text
      BY <1>4, <3>1 DEF Answer
    <3> QED BY <1>1, <1>5, <3>1, <3>2, Outcomes DEF Failed
  <2>3. CASE \E result \in Handler.results :
               made = Value(result) /\ Answer(ResultStream(result), <<>>)
    <3>1. PICK result \in Handler.results :
            made = Value(result) /\ Answer(ResultStream(result), <<>>)
      BY <2>3
    <3>2. answer[1] = FieldsOf(ResultStream(result)) /\ answer[2] = <<>>
      BY <1>4, <3>1 DEF Answer
    <3>3. ~Failed(answer[2])
      BY <3>2 DEF Failed
    <3>4. CASE Handler.ret = Void
      <4>1. result = <<>>
        BY <1>7, <3>4, HandlerFacts
      <4> QED BY <1>1, <3>1, <3>3, <3>4, <4>1, Outcomes
    <3>5. CASE Handler.ret # Void
      <4>1. clientBig = serverBig
        BY DEF WellMatched
      <4>2. Read(FromFields(answer[1], clientBig), Handler.ret).value = result
        BY <1>2, <1>7, <3>2, <3>5, <4>1, ResultArrives
      <4> QED BY <1>1, <1>7, <3>1, <3>3, <3>5, <4>2, Outcomes
    <3> QED BY <3>4, <3>5
  <2> QED BY <2>1, <2>2, <2>3 DEF Applied
<1> QED BY <1>6, <1>7

\* What the function was applied to, as a call sees it
Seen == IF made = Pending \/ ~Known THEN Pending ELSE Value(received)

LEMMA LocalInit ==
    ASSUME Init
    PROVE  Local!Init
BY DEF Init, Local!Init

\* Every step of a remote call is one of a call, or none.
LEMMA LocalStep ==
    ASSUME RightToLeft, IInv, [Next]_vars
    PROVE  [WellMatched => Local!Next]_(Local!vars)
<1> DEFINE Stays == made' = made /\ returned' = returned /\ Seen' = Seen
<1>1. ASSUME Stays PROVE [WellMatched => Local!Next]_(Local!vars)
  BY <1>1 DEF Local!vars, Seen
<1>2. ASSUME call' = call, made' = made, returned' = returned, made = Pending PROVE Stays
  BY <1>2 DEF Seen
<1>3. ASSUME call' = call, made' = made, received' = received, returned' = returned PROVE Stays
  <2>1. Known' <=> Known
    BY <1>3 DEF Known
  <2> QED BY <1>3, <2>1 DEF Seen
<1> HIDE DEF Stays
<1>4. CASE WriteArgument
  <2>1. call' = call /\ made' = made /\ received' = received /\ returned' = returned
    BY <1>4 DEF WriteArgument
  <2> QED BY <1>1, <1>3, <2>1
<1>5. CASE SendRequest
  <2>1. call' = call /\ made' = made /\ received' = received /\ returned' = returned
    BY <1>5 DEF SendRequest
  <2> QED BY <1>1, <1>3, <2>1
<1>6. CASE ReadArgument
  <2>1. call' = call /\ made' = made /\ returned' = returned /\ made = Pending
    BY <1>6 DEF ReadArgument, IInv, InvHistory
  <2> QED BY <1>1, <1>2, <2>1
<1>7. CASE SendResponse
  <2>1. call' = call /\ made' = made /\ received' = received /\ returned' = returned
    BY <1>7 DEF SendResponse
  <2> QED BY <1>1, <1>3, <2>1
<1>8. CASE Done \/ UNCHANGED vars
  <2>1. call' = call /\ made' = made /\ received' = received /\ returned' = returned
    BY <1>8 DEF Done, vars
  <2> QED BY <1>1, <1>3, <2>1
<1>9. CASE ReceiveRequest
  <2> DEFINE request == Read(Loaded(NewStream(serverBig), packet), RequestType).value
  <2>1. /\ stage = "sent" /\ call' = call /\ received' = received /\ returned' = returned
        /\ IF request[1] \in DOMAIN Handlers THEN made' = made ELSE made' = Error(NotFound)
    BY <1>9 DEF ReceiveRequest
  <2>2. TypeInv /\ InvSent /\ made = Pending
    BY <2>1 DEF IInv, InvHistory
  <2>3. request[1] = call.method
    <3>1. /\ IsStream(stream, clientBig, clientBig) /\ stream.pos = 0 /\ AllLaidOut
          /\ packet = Bare[Request]
      BY <2>1, <2>2 DEF InvSent
    <3> QED BY <2>2, <3>1, RequestArrives
  <2> HIDE DEF request
  <2>4. CASE Known
    <3>1. made' = made
      BY <2>1, <2>3, <2>4 DEF Known
    <3> QED BY <1>1, <1>2, <2>1, <2>2, <3>1
  <2>5. CASE ~Known
    <3>1. made' = Error(NotFound) /\ ~Known'
      BY <2>1, <2>3, <2>5 DEF Known
    <3>2. Local!Refuse
      BY <2>1, <2>2, <2>5, <3>1 DEF Local!Refuse
    <3> QED BY <3>2 DEF Local!Next
  <2> QED BY <2>4, <2>5
<1>10. CASE Apply \/ Throw
  <2>1. /\ stage = "read" /\ todo = 0 /\ call' = call /\ received' = received /\ returned' = returned
        /\ \/ \E result \in Handler.results : made' = Value(result)
           \/ \E text \in Errors : made' = Error(text)
    BY <1>10 DEF Apply, Throw
  <2>2. TypeInv /\ InvRead /\ made = Pending
    BY <2>1 DEF IInv, InvHistory
  <2>3. Known
    BY <2>1, <2>2 DEF InvRead
  <2>4. Known' <=> Known
    BY <2>1 DEF Known
  <2>5. SUFFICES ASSUME WellMatched PROVE Local!Apply
    BY DEF Local!Next
  <2>6. received = ValuesOf(call.args)
    <3>1. received = Past(0)
      BY <2>1, <2>2, <2>5 DEF InvRead
    <3> QED BY <2>2, <3>1, CallFacts, PastAll
  <2>7. made' # Pending
    BY <2>1, Outcomes
  <2>8. made' \in (IF Known THEN {Value(v) : v \in Handler.results} ELSE {})
                  \cup {Error(text) : text \in Errors}
    BY <2>1, <2>3
  <2> QED BY <2>1, <2>2, <2>3, <2>4, <2>6, <2>7, <2>8 DEF Local!Apply
<1>11. CASE ReceiveResponse
  <2>1. /\ stage = "answered" /\ call' = call /\ received' = received /\ made' = made
    BY <1>11 DEF ReceiveResponse
  <2>2. returned = Pending
    BY <2>1 DEF IInv, InvHistory
  <2>3. Known' <=> Known
    BY <2>1 DEF Known
  <2>4. SUFFICES ASSUME WellMatched PROVE Local!Return
    BY DEF Local!Next
  <2>5. returned' = made /\ made # Pending
    BY <1>11, <2>4, ReturnedAsMade
  <2> QED BY <2>1, <2>2, <2>3, <2>5 DEF Local!Return
<1> QED BY <1>4, <1>5, <1>6, <1>7, <1>8, <1>9, <1>10, <1>11 DEF Next

(***************************************************************************)
(* A remote call is a call: between machines of one kind, a function that  *)
(* is passed what it takes is applied to the arguments given, in their     *)
(* order, and its result or its exception's text is what the caller gets,  *)
(* for every type and value of them (RpcServerTest.cpp:17).                *)
(***************************************************************************)
THEOREM CallRefinement ==
    ASSUME RightToLeft
    PROVE  Spec => ImplementsLocalCall
<1>1. Init => Local!Init
  BY LocalInit
<1>2. IInv /\ [Next]_vars => [WellMatched => Local!Next]_(Local!vars)
  BY LocalStep
<1> QED BY <1>1, <1>2, Invariance, PTL DEF Spec, ImplementsLocalCall
=============================================================================
