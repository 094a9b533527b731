---------------------------- MODULE Data_Stream ----------------------------
(***************************************************************************)
(* Core/Data_Stream.{h,cpp} and Core/enable_serializable.h: what a stream  *)
(* holds after a write, and what a read finds, returns and leaves behind.  *)
(* A type is [kind, of]: "of" has the types of the elements, of key and    *)
(* mapped value, or of the fields.  A value is: of a scalar its bytes, the *)
(* lowest first; of a string its characters; of a vector or list a         *)
(* sequence, of a set a set, of a map a function, of a class the sequence  *)
(* of its SERIALIZE fields.  The recursions are functions on the types and *)
(* values that a program has, each with its parts.                         *)
(***************************************************************************)
EXTENDS Integers, Sequences, SequencesExt

CONSTANTS
    Types,          \* the types that are written and read
    Nesting,        \* how deep the parts of each are nested
    Given           \* the [type, value] pairs that calls pass

\* Data_Type, and the bytes of each scalar type
Tag == [bool |-> 0, char |-> 1, int32 |-> 2, int64 |-> 3, float |-> 4,
        double |-> 5, string |-> 6, vector |-> 7, list |-> 8, map |-> 9,
        set |-> 10, custom |-> 11]
Width == [bool |-> 1, char |-> 1, int32 |-> 4, int64 |-> 8, float |-> 4,
          double |-> 8]

\* The composite types, and how many types each is made of.  unordered_set and
\* unordered_map are written like, and can be read as, their ordered kin.
Arity == [vector |-> 1, list |-> 1, set |-> 1, map |-> 2]
Containers == DOMAIN Arity

Plain(kind) == [kind |-> kind, of |-> <<>>]
Class(fields) == [kind |-> "custom", of |-> fields]
Typed(T, value) == [type |-> T, value |-> value]

Bool == Plain("bool")
Char == Plain("char")
I32 == Plain("int32")
String == Plain("string")
Characters == [kind |-> "vector", of |-> <<Char>>]

\* A stream has itself a SERIALIZE(is_big_endian, _buf, _pos); the packages
\* SERIALIZE(method, params, id) and SERIALIZE(result, error, id).
StreamType == Class(<<Bool, Characters, I32>>)
RequestType == Class(<<String, StreamType, String>>)
ResponseType == Class(<<StreamType, String, String>>)
PackageTypes == {Bool, Char, I32, String, Characters, StreamType, RequestType, ResponseType}

\* mem is what _buf.data() points at, of which size() bytes count; big is
\* is_big_endian and host the byte order of the machine.  A pos beyond mem is
\* a read that went past the memory.
NewStream(host) ==
    [mem |-> <<>>, size |-> 0, pos |-> 0, big |-> host, host |-> host]

Data(s) == SubSeq(s.mem, 1, s.size)

\* load copies over what is there and does not resize.
Loaded(s, data) ==
    [s EXCEPT !.mem = data \o SubSeq(s.mem, Len(data) + 1, s.size), !.pos = 0]

-----------------------------------------------------------------------------
(* Values                                                                   *)

\* An int32_t below 2^16, and back; a larger one is no length of a stream here.
HugeLength == 2^16
Int32(n) == <<n % 256, n \div 256, 0, 0>>
Length(bytes) ==
    IF bytes[3] = 0 /\ bytes[4] = 0 THEN bytes[1] + 256 * bytes[2] ELSE HugeLength

\* What a container's loop or a class writes, in its order.
Items(T, value) ==
    CASE T.kind = "set" -> SetToSeq(value)
      [] T.kind = "map" ->
           LET keys == SetToSeq(DOMAIN value)
           IN  [i \in 1 .. 2 * Len(keys) |->
                  IF i % 2 = 1 THEN keys[(i + 1) \div 2] ELSE value[keys[i \div 2]]]
      [] T.kind \in {"vector", "list", "custom"} -> value
      [] OTHER -> <<>>

\* Keys and mapped values alternate.
PartType(T, i) == T.of[((i - 1) % Len(T.of)) + 1]
Parts(x) == [i \in DOMAIN Items(x.type, x.value) |->
                Typed(PartType(x.type, i), Items(x.type, x.value)[i])]

Byte == 0 .. 255
Text == {text \in Seq(Byte) : Len(text) < HugeLength}
ASequence(v) == v \in Seq({v[i] : i \in DOMAIN v})

\* What a value of a type is, its parts left aside.
WellShaped(x) ==
    CASE x.type.kind \in DOMAIN Width -> x.value \in [1 .. Width[x.type.kind] -> Byte]
      [] x.type.kind = "string" -> x.value \in Text
      [] x.type.kind = "custom" -> ASequence(x.value) /\ Len(x.value) = Len(x.type.of)
      [] x.type.kind \in {"vector", "list"} ->
           ASequence(x.value) /\ Len(x.value) < HugeLength
      [] x.type.kind = "set" ->
           IsFiniteSet(x.value) /\ Cardinality(x.value) < HugeLength
      [] x.type.kind = "map" ->
           /\ x.value \in [DOMAIN x.value -> {x.value[k] : k \in DOMAIN x.value}]
           /\ IsFiniteSet(DOMAIN x.value) /\ Cardinality(DOMAIN x.value) < HugeLength

WellFormed(T) ==
    /\ DOMAIN T = {"kind", "of"}
    /\ T.of \in Seq(Types)
    /\ T.kind \in DOMAIN Tag
    /\ T.kind \in Containers => Len(T.of) = Arity[T.kind]
    /\ T.kind \notin Containers \cup {"custom"} => T.of = <<>>
    /\ \A i \in DOMAIN T.of : Nesting[T.of[i]] < Nesting[T]

ASSUME DataAssumption ==
    /\ IsFiniteSet(Types)
    /\ PackageTypes \subseteq Types
    /\ Nesting \in [Types -> Nat]
    /\ \A T \in Types : WellFormed(T)
    /\ \A x \in Given :
        /\ DOMAIN x = {"type", "value"} /\ x.type \in Types /\ WellShaped(x)
        /\ \A i \in DOMAIN Parts(x) : Parts(x)[i] \in Given

\* The packages and their parts, and all there is to write
Of(T, values) == [type : {T}, value : values]
Bytes(n) == [1 .. n -> Byte]
StreamFields ==
    Bytes(1) \X {chars \in Seq(Bytes(1)) : Len(chars) < HugeLength} \X Bytes(4)
Packaged ==
    Of(Bool, Bytes(1)) \cup Of(Char, Bytes(1)) \cup Of(I32, Bytes(4))
    \cup Of(String, Text)
    \cup Of(Characters, {chars \in Seq(Bytes(1)) : Len(chars) < HugeLength})
    \cup Of(StreamType, StreamFields)
    \cup Of(RequestType, Text \X StreamFields \X Text)
    \cup Of(ResponseType, StreamFields \X Text \X Text)
Writable == Given \cup Packaged

-----------------------------------------------------------------------------
(* Writing                                                                  *)

\* How the bytes of a number stand in the stream, low byte first unless the
\* flag is not the machine's.
Swaps(s) == s.big # s.host
Ordered(swaps, bytes) == IF swaps THEN Reverse(bytes) ELSE bytes

\* Mutant: keys and mapped values are counted one by one.
Count_Items(T, items) == Len(items)
Count(T, items) == Len(items) \div Len(T.of)

\* What is written before the parts: the tag, and a length, the characters of a
\* string or the bytes of a number
Header(x, swaps) ==
    LET T == x.type
        counted(n) == <<Tag[T.kind], Tag.int32>> \o Ordered(swaps, Int32(n))
    IN CASE T.kind = "custom" -> <<Tag.custom>>
         [] T.kind = "string" -> counted(Len(x.value)) \o x.value
         [] T.kind \in Containers -> counted(Count(T, Items(T, x.value)))
         [] OTHER -> <<Tag[T.kind]>> \o Ordered(swaps, x.value)

WriteMemory(s, bytes) ==
    [s EXCEPT !.mem = Data(s) \o bytes, !.size = s.size + Len(bytes)]

\* operator<< and write, by type; write_args, and the loop over a container
Encoded(swaps) ==
    LET bytes[x \in Writable] ==
          Header(x, swaps) \o FlattenSeq([i \in DOMAIN Parts(x) |-> bytes[Parts(x)[i]]])
    IN  bytes
Written(s, x) == WriteMemory(s, Encoded(Swaps(s))[x])

-----------------------------------------------------------------------------
(* Reading                                                                  *)

\* A local that no read has set holds any bytes, or is empty.
Unset(T) == IF T.kind = "set" THEN {} ELSE <<>>

Result(ok, value, pos) == [ok |-> ok, value |-> value, pos |-> pos]

\* Reads in a row: read_args stops at one that fails, a container does not look.
InARow(reads, pos, stops) ==
    LET row[i \in 0 .. Len(reads)] ==
          IF i = 0 THEN Result(TRUE, <<>>, pos)
          ELSE LET before == row[i - 1]
                   next == reads[i][before.pos]
               IN  IF stops /\ ~before.ok THEN before
                   ELSE Result(before.ok /\ next.ok, Append(before.value, next.value), next.pos)
    IN  row[Len(reads)]

\* The tag is looked at where the stream stands, there or not, and left there if
\* it is another.
Finds(s, T, pos) == pos < Len(s.mem) /\ s.mem[pos + 1] = Tag[T.kind]
Mismatch(s, T, pos) == Result(FALSE, Unset(T), IF pos < Len(s.mem) THEN pos ELSE pos + 1)

ReadScalar(s, T, pos) ==
    LET end == pos + 1 + Width[T.kind]
    IN  IF ~Finds(s, T, pos) THEN Mismatch(s, T, pos)
        ELSE IF end > Len(s.mem) THEN Result(FALSE, Unset(T), end)
        ELSE Result(TRUE, Ordered(Swaps(s), SubSeq(s.mem, pos + 2, end)), end)

\* A length that is not there is a local no read has set.
ReadLength(s, pos) ==
    LET size == ReadScalar(s, I32, pos)
    IN  [n |-> IF size.ok THEN Length(size.value) ELSE HugeLength, pos |-> size.pos]

\* A length read in the wrong place, or more than there is data for, runs off the
\* memory.
ReadString(s, T, pos) ==
    LET length == ReadLength(s, pos + 1)
        end == length.pos + length.n
    IN  IF ~Finds(s, T, pos) THEN Mismatch(s, T, pos)
        ELSE IF end > Len(s.mem) THEN Result(FALSE, Unset(T), end)
        ELSE Result(TRUE, SubSeq(s.mem, length.pos + 1, end), end)

\* What the loop over a container's length puts together
Collected(T, values) ==
    CASE T.kind = "set" -> ToSet(values)
      [] T.kind = "map" ->
           LET keys == {i \in DOMAIN values : i % 2 = 1}
           IN  [k \in {values[i] : i \in keys} |->
                  values[1 + CHOOSE i \in keys :
                      values[i] = k /\ \A j \in keys : values[j] = k => j <= i]]
      [] OTHER -> values

ReadContainer(s, T, pos, read) ==
    LET length == ReadLength(s, pos + 1)
        end == length.pos + length.n
        items == InARow([i \in 1 .. length.n * Len(T.of) |-> read[PartType(T, i)]],
                        length.pos, FALSE)
    IN  IF ~Finds(s, T, pos) THEN Mismatch(s, T, pos)
        ELSE IF end > Len(s.mem) THEN Result(FALSE, Unset(T), end)
        ELSE Result(TRUE, Collected(T, items.value), items.pos)

\* deserialize takes the tag with read_memory, and does not put it back.
Deserialize(s, T, pos, read) ==
    LET fields == InARow([i \in DOMAIN T.of |-> read[T.of[i]]], pos + 1, TRUE)
    IN  IF ~Finds(s, T, pos) THEN Result(FALSE, Unset(T), pos + 1)
        ELSE Result(TRUE, fields.value, fields.pos)

\* operator>> and read, by type, at every position
Decoded(s) ==
    LET read[T \in Types] ==
          [pos \in Nat |->
              CASE T.kind = "custom" -> Deserialize(s, T, pos, read)
                [] T.kind = "string" -> ReadString(s, T, pos)
                [] T.kind \in Containers -> ReadContainer(s, T, pos, read)
                [] OTHER -> ReadScalar(s, T, pos)]
    IN  read
Read(s, T) == Decoded(s)[T][s.pos]
ReadAll(s, types) == InARow([i \in DOMAIN types |-> Decoded(s)[types[i]]], s.pos, TRUE)

\* A stream as the value of a field, and back
FieldsOf(s) ==
    <<IF s.big THEN <<1>> ELSE <<0>>, [i \in 1 .. s.size |-> <<s.mem[i]>>], Int32(s.pos)>>
FromFields(fields, host) ==
    [NewStream(host) EXCEPT !.big = fields[1] = <<1>>,
        !.mem = [i \in DOMAIN fields[2] |-> fields[2][i][1]],
        !.size = Len(fields[2]), !.pos = Length(fields[3])]
=============================================================================
