------------------------- MODULE Data_Stream_proofs -------------------------
(***************************************************************************)
(* What is written can be read: proofs about Data_Stream for all types and *)
(* values.  Each of its recursions is first shown to have the function it  *)
(* describes, by induction over nesting or over the length of a row.       *)
(***************************************************************************)
EXTENDS Data_Stream, FiniteSetTheorems, SequenceTheorems, WellFoundedInduction,
        TLAPS

-----------------------------------------------------------------------------
(* Induction over the natural numbers, for a set of them                    *)

Less == {ss \in Nat \X Nat : ss[1] < ss[2]}

LEMMA LessWellFounded == IsWellFoundedOn(Less, Nat)
BY NatLessThanWellFounded DEF OpToRel, Less

\* A set with 0 and the successors of its members has every natural number.
LEMMA Induction ==
    ASSUME NEW S, 0 \in S, \A n \in Nat : n \in S => n + 1 \in S
    PROVE  Nat \subseteq S
<1> DEFINE T == Nat \ S
<1> SUFFICES ASSUME T # {} PROVE FALSE
  OBVIOUS
<1>1. \E x \in T : \A y \in T : ~(<<y, x>> \in Less)
  BY LessWellFounded, WFMin
<1>2. PICK x \in T : \A y \in T : ~(y < x)
  BY <1>1 DEF Less
<1>3. x \in Nat /\ x # 0
  OBVIOUS
<1>4. x - 1 \in Nat /\ x - 1 < x
  BY <1>3
<1>5. x - 1 \in S
  BY <1>2, <1>4
<1> QED BY <1>3, <1>4, <1>5

-----------------------------------------------------------------------------
(* The recursions have the functions they describe                          *)

\* The parts of a finite number of types are nested less than some number deep.
LEMMA NestingBound == \E n \in Nat : \A T \in Types : Nesting[T] < n
<1>1. IsFiniteSet(Types) /\ Nesting \in [Types -> Nat]
  BY DataAssumption
<1>2. PICK k \in Nat : ExistsSurjection(1 .. k, Types)
  BY <1>1, FS_NatSurjection
<1>3. PICK f \in [1 .. k -> Types] : \A T \in Types : \E i \in 1 .. k : f[i] = T
  BY <1>2 DEF ExistsSurjection, Surjection
<1> DEFINE Bound(j, n) == \A i \in 1 .. j : Nesting[f[i]] < n
           Bounded(j) == j <= k => \E n \in Nat : Bound(j, n)
<1>4. Bounded(0)
  OBVIOUS
<1>5. ASSUME NEW j \in Nat, Bounded(j), j + 1 <= k
      PROVE  \E n \in Nat : Bound(j + 1, n)
  <2>1. PICK n \in Nat : Bound(j, n)
    BY <1>5
  <2>2. /\ Nesting[f[j + 1]] \in Nat
        /\ \A i \in 1 .. j : Nesting[f[i]] \in Nat
    BY <1>1, <1>3, <1>5
  <2>3. PICK m \in Nat : n <= m /\ Nesting[f[j + 1]] < m
    <3>1. CASE Nesting[f[j + 1]] < n
      BY <3>1
    <3>2. CASE ~(Nesting[f[j + 1]] < n)
      <4>1. Nesting[f[j + 1]] + 1 \in Nat /\ n <= Nesting[f[j + 1]] + 1
        BY <2>2, <3>2
      <4> QED BY <2>2, <4>1
    <3> QED BY <3>1, <3>2
  <2>4. Bound(j + 1, m)
    <3> TAKE i \in 1 .. j + 1
    <3>1. i \in 1 .. j \/ i = j + 1
      OBVIOUS
    <3> QED BY <2>1, <2>2, <2>3, <3>1
  <2> QED BY <2>4
<1>6. \A j \in Nat : Bounded(j) => Bounded(j + 1)
  BY <1>5
<1>7. \A j \in Nat : Bounded(j)
  <2> HIDE DEF Bounded
  <2> DEFINE S == {j \in Nat : Bounded(j)}
  <2>1. 0 \in S /\ \A j \in Nat : j \in S => j + 1 \in S
    BY <1>4, <1>6
  <2> HIDE DEF S
  <2>2. Nat \subseteq S
    BY <2>1, Induction
  <2> QED BY <2>2 DEF S
<1>8. Bounded(k)
  BY <1>7
<1>9. PICK n \in Nat : Bound(k, n)
  BY <1>8
<1> QED BY <1>3, <1>9

LEMMA Kinds ==
    /\ DOMAIN Width = {"bool", "char", "int32", "int64", "float", "double"}
    /\ Containers = {"vector", "list", "set", "map"}
    /\ DOMAIN Tag = DOMAIN Width \cup Containers \cup {"string", "custom"}
BY DEF Width, Arity, Containers, Tag

LEMMA Tags ==
    /\ \A kind \in DOMAIN Tag : Tag[kind] \in Byte
    /\ \A kind1, kind2 \in DOMAIN Tag : Tag[kind1] = Tag[kind2] => kind1 = kind2
BY DEF Tag, Byte

LEMMA Arities ==
    (\A kind \in {"vector", "list", "set"} : Arity[kind] = 1) /\ Arity["map"] = 2
BY DEF Arity

LEMMA Widths == \A kind \in DOMAIN Width : Width[kind] \in 1 .. 8
BY DEF Width

\* The elements of a finite set in some order.
LEMMA SetElements ==
    ASSUME NEW S, IsFiniteSet(S)
    PROVE  /\ Cardinality(S) \in Nat
           /\ SetToSeq(S) \in [1 .. Cardinality(S) -> S]
           /\ \A i, j \in 1 .. Cardinality(S) : SetToSeq(S)[i] = SetToSeq(S)[j] => i = j
           /\ \A e \in S : \E i \in 1 .. Cardinality(S) : SetToSeq(S)[i] = e
<1> DEFINE n == Cardinality(S)
           f == SetToSeq(S)
<1>1. n \in Nat /\ ExistsBijection(1 .. n, S)
  BY FS_CardinalityType
<1>2. \E g \in [1 .. n -> S] : IsInjective(g)
  BY <1>1 DEF ExistsBijection, Bijection, Injection
<1>3. f \in [1 .. n -> S] /\ IsInjective(f)
  BY <1>2 DEF SetToSeq
<1>4. IsFiniteSet(1 .. n) /\ Cardinality(1 .. n) = n
  BY <1>1, FS_Interval
<1>5. f \in Surjection(1 .. n, S)
  BY <1>3, <1>4, FS_Injection DEF Injection
<1>6. \A e \in S : \E i \in 1 .. n : f[i] = e
  BY <1>5 DEF Surjection
<1>7. \A i, j \in 1 .. n : f[i] = f[j] => i = j
  BY <1>3 DEF IsInjective
<1> QED BY <1>1, <1>3, <1>6, <1>7

\* A sequence of anything.
LEMMA ASequenceOf ==
    ASSUME NEW v, ASequence(v)
    PROVE  Len(v) \in Nat /\ DOMAIN v = 1 .. Len(v) /\ v = [i \in 1 .. Len(v) |-> v[i]]
BY DEF ASequence

\* What a type has parts of, and how many there are.
Composite(T) == T.kind \in Containers \cup {"custom"}

LEMMA ItemsShape ==
    ASSUME NEW x, x.type \in Types, WellShaped(x)
    PROVE  LET items == Items(x.type, x.value)
           IN  /\ Len(items) \in Nat
               /\ items = [i \in 1 .. Len(items) |-> items[i]]
               /\ ~Composite(x.type) => items = <<>>
               /\ x.type.kind = "custom" => Len(items) = Len(x.type.of)
               /\ x.type.kind \in Containers =>
                     \E n \in 0 .. HugeLength - 1 : Len(items) = n * Len(x.type.of)
<1> DEFINE T == x.type
           v == x.value
           items == Items(T, v)
<1>1. /\ T.kind \in DOMAIN Tag
      /\ T.kind \in Containers => Len(T.of) = Arity[T.kind]
  BY DataAssumption DEF WellFormed
<1>2. CASE T.kind \in DOMAIN Width \cup {"string"}
  BY <1>2, Kinds DEF Items, Composite
<1>3. CASE T.kind = "custom"
  BY <1>3, ASequenceOf DEF Items, Composite, WellShaped, Width, Containers, Arity
<1>4. CASE T.kind \in {"vector", "list"}
  <2>1. ASequence(v) /\ Len(v) < HugeLength /\ items = v
    BY <1>4 DEF WellShaped, Width, Items
  <2>2. Len(T.of) = 1
    BY <1>1, <1>4, Arities, Kinds
  <2>3. Len(v) \in 0 .. HugeLength - 1 /\ Len(v) = Len(v) * Len(T.of)
    BY <2>1, <2>2, ASequenceOf DEF HugeLength
  <2> QED BY <1>4, <2>1, <2>3, ASequenceOf, Kinds DEF Composite
<1>5. CASE T.kind = "set"
  <2>1. IsFiniteSet(v) /\ Cardinality(v) < HugeLength /\ items = SetToSeq(v)
    BY <1>5 DEF WellShaped, Width, Items
  <2>2. Len(T.of) = 1
    BY <1>1, <1>5, Arities, Kinds
  <2>3. items \in [1 .. Cardinality(v) -> v] /\ Cardinality(v) \in Nat
    BY <2>1, SetElements
  <2>4. Len(items) = Cardinality(v)
    BY <2>3
  <2>5. Len(items) \in 0 .. HugeLength - 1 /\ Len(items) = Len(items) * Len(T.of)
    BY <2>1, <2>2, <2>3, <2>4 DEF HugeLength
  <2> QED BY <1>5, <2>3, <2>4, <2>5, Kinds DEF Composite
<1>6. CASE T.kind = "map"
  <2>1. /\ IsFiniteSet(DOMAIN v) /\ Cardinality(DOMAIN v) < HugeLength
    BY <1>6 DEF WellShaped, Width
  <2> DEFINE keys == SetToSeq(DOMAIN v)
             n == Cardinality(DOMAIN v)
  <2>2. n \in Nat /\ keys \in [1 .. n -> DOMAIN v]
    BY <2>1, SetElements
  <2>3. Len(keys) = n
    BY <2>2
  <2>4. items = [i \in 1 .. 2 * n |->
                   IF i % 2 = 1 THEN keys[(i + 1) \div 2] ELSE v[keys[i \div 2]]]
    BY <1>6, <2>3 DEF Items
  <2>5. Len(items) = 2 * n /\ items = [i \in 1 .. Len(items) |-> items[i]]
    BY <2>2, <2>4
  <2>6. Len(T.of) = 2
    BY <1>1, <1>6, Arities, Kinds
  <2>7. n \in 0 .. HugeLength - 1 /\ Len(items) = n * Len(T.of)
    BY <2>1, <2>2, <2>5, <2>6 DEF HugeLength
  <2> QED BY <1>6, <2>2, <2>5, <2>7, Kinds DEF Composite
<1> QED BY <1>1, <1>2, <1>3, <1>4, <1>5, <1>6, Kinds

\* The types of parts are a type's own, one level down.
LEMMA PartTypes ==
    ASSUME NEW T \in Types, NEW i \in Nat \ {0}, T.of # <<>>
    PROVE  /\ PartType(T, i) \in Types
           /\ PartType(T, i) \in {T.of[j] : j \in DOMAIN T.of}
           /\ Nesting[PartType(T, i)] \in Nat /\ Nesting[T] \in Nat
           /\ Nesting[PartType(T, i)] < Nesting[T]
<1>1. /\ T.of \in Seq(Types) /\ Nesting \in [Types -> Nat]
      /\ \A j \in DOMAIN T.of : Nesting[T.of[j]] < Nesting[T]
  BY DataAssumption DEF WellFormed
<1>2. Len(T.of) \in Nat \ {0} /\ DOMAIN T.of = 1 .. Len(T.of)
  BY <1>1
<1>3. ((i - 1) % Len(T.of)) + 1 \in DOMAIN T.of
  <2> DEFINE n == Len(T.of)
             k == i - 1
  <2>1. k \in Nat /\ n \in Nat \ {0}
    BY <1>2
  <2> HIDE DEF n, k
  <2>2. k % n \in 0 .. n - 1
    BY <2>1
  <2>3. (k % n) + 1 \in 1 .. n
    BY <2>1, <2>2
  <2> QED BY <1>2, <2>3 DEF n, k
<1> QED BY <1>1, <1>3 DEF PartType

LEMMA PackagedParts ==
    ASSUME NEW x \in Packaged
    PROVE  /\ x.type \in PackageTypes /\ WellShaped(x)
           /\ \A i \in DOMAIN Parts(x) : Parts(x)[i] \in Packaged
<1>1. ASSUME NEW kind \in DOMAIN Width \cup {"string"}, x.type = Plain(kind)
      PROVE  Parts(x) = <<>>
  <2>1. Items(x.type, x.value) = <<>>
    BY <1>1, Kinds DEF Plain, Items
  <2> QED BY <2>1 DEF Parts
<1>2. CASE x \in Of(Bool, Bytes(1)) \cup Of(Char, Bytes(1)) \cup Of(I32, Bytes(4))
                  \cup Of(String, Text)
  <2>1. x.type \in {Bool, Char, I32, String}
    BY <1>2 DEF Of
  <2>2. PICK kind \in {"bool", "char", "int32", "string"} : x.type = Plain(kind)
    BY <2>1 DEF Bool, Char, I32, String
  <2>3. x.type.kind = kind
    BY <2>2 DEF Plain
  <2>4. Bool.kind = "bool" /\ Char.kind = "char" /\ I32.kind = "int32" /\ String.kind = "string"
    BY DEF Bool, Char, I32, String, Plain
  <2>5. IF kind = "string" THEN x.value \in Text
        ELSE x.value \in [1 .. Width[kind] -> Byte]
    <3>1. /\ \/ x.type = Bool /\ x.value \in Bytes(1)
             \/ x.type = Char /\ x.value \in Bytes(1)
             \/ x.type = I32 /\ x.value \in Bytes(4)
             \/ x.type = String /\ x.value \in Text
      BY <1>2 DEF Of
    <3>2. Width["bool"] = 1 /\ Width["char"] = 1 /\ Width["int32"] = 4
      BY DEF Width
    <3> QED BY <2>3, <2>4, <3>1, <3>2 DEF Bytes
  <2>6. WellShaped(x)
    BY <2>2, <2>3, <2>5, Kinds DEF WellShaped
  <2>7. Parts(x) = <<>>
    BY <1>1, <2>2, Kinds
  <2> QED BY <2>1, <2>6, <2>7 DEF PackageTypes
<1>3. CASE x \in Of(Characters, {chars \in Seq(Bytes(1)) : Len(chars) < HugeLength})
  <2>1. x.type = Characters /\ x.value \in Seq(Bytes(1)) /\ Len(x.value) < HugeLength
    BY <1>3 DEF Of
  <2>2. Characters.kind = "vector" /\ Len(Characters.of) = 1 /\ Characters.of[1] = Char
    BY DEF Characters
  <2>3. Items(x.type, x.value) = x.value /\ ASequence(x.value)
    BY <2>1, <2>2 DEF Items, ASequence
  <2>4. WellShaped(x)
    BY <2>1, <2>2, <2>3 DEF WellShaped, Width
  <2>5. ASSUME NEW i \in DOMAIN Parts(x) PROVE Parts(x)[i] \in Of(Char, Bytes(1))
    <3>1. i \in 1 .. Len(x.value) /\ Len(x.value) \in Nat
      BY <2>1, <2>3, <2>5 DEF Parts
    <3>2. PartType(x.type, i) = Char
      BY <2>1, <2>2, <3>1 DEF PartType
    <3>3. Parts(x)[i] = Typed(Char, x.value[i])
      BY <2>3, <3>1, <3>2 DEF Parts
    <3> QED BY <2>1, <3>1, <3>3 DEF Typed, Of
  <2> QED BY <2>1, <2>4, <2>5 DEF PackageTypes, Packaged
<1>4. ASSUME NEW T1, NEW T2, NEW T3, NEW S1, NEW S2, NEW S3,
             x \in Of(Class(<<T1, T2, T3>>), S1 \X S2 \X S3)
      PROVE  /\ WellShaped(x)
             /\ \A i \in DOMAIN Parts(x) :
                  Parts(x)[i] \in Of(T1, S1) \cup Of(T2, S2) \cup Of(T3, S3)
  <2>1. x.type = Class(<<T1, T2, T3>>) /\ x.value \in S1 \X S2 \X S3
    BY <1>4 DEF Of
  <2>2. x.type.kind = "custom" /\ x.type.of = <<T1, T2, T3>>
    BY <2>1 DEF Class
  <2>3. Items(x.type, x.value) = x.value /\ ASequence(x.value) /\ Len(x.value) = 3
    <3>1. Items(x.type, x.value) = x.value
      BY <2>2 DEF Items
    <3>2. PICK v1 \in S1, v2 \in S2, v3 \in S3 : x.value = <<v1, v2, v3>>
      BY <2>1
    <3>3. <<v1, v2, v3>> \in Seq({v1, v2, v3}) /\ Len(<<v1, v2, v3>>) = 3
      OBVIOUS
    <3>4. {v1, v2, v3} = {<<v1, v2, v3>>[j] : j \in DOMAIN <<v1, v2, v3>>}
      OBVIOUS
    <3> QED BY <3>1, <3>2, <3>3, <3>4 DEF ASequence
  <2>4. WellShaped(x)
    BY <2>2, <2>3 DEF WellShaped, Width
  <2>5. ASSUME NEW i \in DOMAIN Parts(x)
        PROVE  Parts(x)[i] \in Of(T1, S1) \cup Of(T2, S2) \cup Of(T3, S3)
    <3>1. i \in 1 .. 3
      BY <2>1, <2>3 DEF Parts
    <3>2. Parts(x)[i] = Typed(PartType(x.type, i), x.value[i])
      BY <2>3, <3>1 DEF Parts
    <3>3. PartType(x.type, i) = x.type.of[i]
      BY <2>2, <3>1 DEF PartType
    <3>4. i = 1 \/ i = 2 \/ i = 3
      BY <3>1
    <3> QED BY <2>1, <2>2, <3>2, <3>3, <3>4 DEF Typed, Of
  <2> QED BY <2>4, <2>5
<1>5. CASE x \in Of(StreamType, StreamFields)
  <2> DEFINE Ch == {chars \in Seq(Bytes(1)) : Len(chars) < HugeLength}
  <2>1. x \in Of(Class(<<Bool, Characters, I32>>), Bytes(1) \X Ch \X Bytes(4))
    BY <1>5 DEF StreamType, StreamFields
  <2>2. x.type = StreamType
    BY <1>5 DEF Of
  <2>3. /\ Of(Bool, Bytes(1)) \subseteq Packaged
        /\ Of(Characters, Ch) \subseteq Packaged
        /\ Of(I32, Bytes(4)) \subseteq Packaged
    BY DEF Packaged
  <2> HIDE DEF Ch
  <2>4. /\ WellShaped(x)
        /\ \A i \in DOMAIN Parts(x) :
             Parts(x)[i] \in Of(Bool, Bytes(1)) \cup Of(Characters, Ch) \cup Of(I32, Bytes(4))
    BY <1>4, <2>1
  <2> QED BY <2>2, <2>3, <2>4 DEF PackageTypes
<1>6. CASE x \in Of(RequestType, Text \X StreamFields \X Text)
  BY <1>4, <1>6 DEF RequestType, Packaged, PackageTypes, Of
<1>7. CASE x \in Of(ResponseType, StreamFields \X Text \X Text)
  BY <1>4, <1>7 DEF ResponseType, Packaged, PackageTypes, Of
<1> QED BY <1>2, <1>3, <1>5, <1>6, <1>7 DEF Packaged

\* What can be written has parts that can, of types one level down.
LEMMA WritableParts ==
    ASSUME NEW x \in Writable
    PROVE  /\ x.type \in Types /\ WellShaped(x)
           /\ Nesting[x.type] \in Nat
           /\ \A i \in DOMAIN Parts(x) :
                /\ Parts(x)[i] \in Writable
                /\ Nesting[Parts(x)[i].type] \in Nat
                /\ Nesting[Parts(x)[i].type] < Nesting[x.type]
<1>1. /\ x.type \in Types /\ WellShaped(x)
      /\ \A i \in DOMAIN Parts(x) : Parts(x)[i] \in Writable
  BY DataAssumption, PackagedParts DEF Writable
<1>2. Nesting[x.type] \in Nat
  BY <1>1, DataAssumption
<1>3. ASSUME NEW i \in DOMAIN Parts(x)
      PROVE  /\ Nesting[Parts(x)[i].type] \in Nat
             /\ Nesting[Parts(x)[i].type] < Nesting[x.type]
  <2> DEFINE items == Items(x.type, x.value)
  <2>1. i \in DOMAIN items /\ Parts(x)[i].type = PartType(x.type, i)
    BY <1>3 DEF Parts, Typed
  <2>2. Len(items) \in Nat /\ DOMAIN items = 1 .. Len(items)
    BY <1>1, ItemsShape
  <2>3. i \in Nat \ {0} /\ Len(items) # 0
    BY <2>1, <2>2
  <2>4. x.type.of # <<>>
    <3> SUFFICES ASSUME Len(x.type.of) = 0 PROVE FALSE
      OBVIOUS
    <3>0. /\ ~Composite(x.type) => items = <<>>
          /\ x.type.kind = "custom" => Len(items) = Len(x.type.of)
          /\ x.type.kind \in Containers =>
                \E n \in 0 .. HugeLength - 1 : Len(items) = n * Len(x.type.of)
      BY <1>1, ItemsShape
    <3> HIDE DEF items
    <3>1. x.type.kind \in Containers
      BY <3>0, <2>3 DEF Composite
    <3>2. PICK n \in 0 .. HugeLength - 1 : Len(items) = n * Len(x.type.of)
      BY <3>0, <3>1
    <3> QED BY <2>3, <3>2 DEF HugeLength
  <2> QED BY <1>1, <2>1, <2>3, <2>4, PartTypes
<1> QED BY <1>1, <1>2, <1>3

LEMMA EncodedEquation ==
    ASSUME NEW swaps
    PROVE  Encoded(swaps) =
             [x \in Writable |-> Header(x, swaps)
                \o FlattenSeq([i \in DOMAIN Parts(x) |-> Encoded(swaps)[Parts(x)[i]]])]
<1> DEFINE Body(f) ==
      [x \in Writable |-> Header(x, swaps)
                \o FlattenSeq([i \in DOMAIN Parts(x) |-> f[Parts(x)[i]]])]
           Good(f, n) == \A x \in Writable : Nesting[x.type] < n => f[x] = Body(f)[x]
           Exists(n) == \E f : Good(f, n)
<1>a. ASSUME NEW f, NEW n \in Nat, Good(f, n)
      PROVE  /\ \A x \in Writable : Nesting[x.type] < n + 1 => Body(Body(f))[x] = Body(f)[x]
             /\ Good(Body(f), n + 1)
  <2> DEFINE g == Body(f)
  <2>1. ASSUME NEW x \in Writable, Nesting[x.type] < n + 1
        PROVE  Body(g)[x] = g[x]
    <3> DEFINE ofF == [i \in DOMAIN Parts(x) |-> f[Parts(x)[i]]]
               ofG == [i \in DOMAIN Parts(x) |-> g[Parts(x)[i]]]
    <3>1. ASSUME NEW i \in DOMAIN Parts(x) PROVE f[Parts(x)[i]] = g[Parts(x)[i]]
      <4>1. /\ Parts(x)[i] \in Writable
            /\ Nesting[Parts(x)[i].type] \in Nat /\ Nesting[x.type] \in Nat
            /\ Nesting[Parts(x)[i].type] < Nesting[x.type]
        BY <3>1, WritableParts
      <4>2. Nesting[Parts(x)[i].type] < n
        BY <2>1, <4>1
      <4> QED BY <1>a, <4>1, <4>2
    <3>2. ofF = ofG
      BY <3>1
    <3>3. g[x] = Header(x, swaps) \o FlattenSeq(ofF)
      OBVIOUS
    <3>4. Body(g)[x] = Header(x, swaps) \o FlattenSeq(ofG)
      OBVIOUS
    <3> QED BY <3>2, <3>3, <3>4
  <2> HIDE DEF g
  <2> QED BY <2>1 DEF g
<1>b. Exists(0)
  <2>1. \A x \in Writable : ~(Nesting[x.type] < 0)
    BY WritableParts
  <2>2. Good(<<>>, 0)
    BY <2>1
  <2> HIDE DEF Good
  <2> QED BY <2>2
<1>c. \A n \in Nat : Exists(n) => Exists(n + 1)
  <2> HIDE DEF Good, Body
  <2> SUFFICES ASSUME NEW n \in Nat, NEW f, Good(f, n) PROVE Exists(n + 1)
    OBVIOUS
  <2>1. Good(Body(f), n + 1)
    BY <1>a
  <2> QED BY <2>1
<1>d. \A n \in Nat : Exists(n)
  <2> HIDE DEF Exists
  <2> DEFINE S == {n \in Nat : Exists(n)}
  <2>1. 0 \in S /\ \A n \in Nat : n \in S => n + 1 \in S
    BY <1>b, <1>c
  <2> HIDE DEF S
  <2>2. Nat \subseteq S
    BY <2>1, Induction
  <2> QED BY <2>2 DEF S
<1>1. \E f : f = Body(f)
  <2>1. PICK n \in Nat : \A T \in Types : Nesting[T] < n
    BY NestingBound
  <2>2. PICK f : Good(f, n)
    BY <1>d
  <2>3. Nesting \in [Types -> Nat]
    BY DataAssumption
  <2>4. \A x \in Writable : Nesting[x.type] < n + 1
    BY <2>1, <2>3, WritableParts
  <2>5. \A x \in Writable : Body(Body(f))[x] = Body(f)[x]
    BY <1>a, <2>2, <2>4
  <2>6. Body(Body(f)) = Body(f)
    BY <2>5
  <2> QED BY <2>6
<1>2. Encoded(swaps) = CHOOSE f : f = Body(f)
  BY DEF Encoded
<1> HIDE DEF Body
<1>3. Encoded(swaps) = Body(Encoded(swaps))
  BY <1>1, <1>2
<1> QED BY <1>3 DEF Body

\* A row of reads starts at a position with nothing read, and each read goes on
\* where the one before it ended.
RowStep(reads, stops, i, before) ==
    IF stops /\ ~before.ok THEN before
    ELSE LET next == reads[i][before.pos]
         IN  Result(before.ok /\ next.ok, Append(before.value, next.value), next.pos)

IsRow(row, reads, pos, stops) ==
    /\ row[0] = Result(TRUE, <<>>, pos)
    /\ \A i \in 1 .. Len(reads) : row[i] = RowStep(reads, stops, i, row[i - 1])
    /\ InARow(reads, pos, stops) = row[Len(reads)]

LEMMA RowEquation ==
    ASSUME NEW reads, NEW pos, NEW stops, Len(reads) \in Nat
    PROVE  \E row : IsRow(row, reads, pos, stops)
<1> DEFINE N == Len(reads)
           Body(f) == [i \in 0 .. N |->
                         IF i = 0 THEN Result(TRUE, <<>>, pos)
                         ELSE RowStep(reads, stops, i, f[i - 1])]
           Good(f, n) == \A i \in 0 .. N : i < n => f[i] = Body(f)[i]
           Exists(n) == \E f : Good(f, n)
<1>a. ASSUME NEW f, NEW n \in Nat, Good(f, n)
      PROVE  /\ \A i \in 0 .. N : i < n + 1 => Body(Body(f))[i] = Body(f)[i]
             /\ Good(Body(f), n + 1)
  <2> DEFINE g == Body(f)
  <2>1. ASSUME NEW i \in 0 .. N, i < n + 1
        PROVE  Body(g)[i] = g[i]
    <3>1. CASE i = 0
      BY <3>1
    <3>2. CASE i # 0
      <4>1. i - 1 \in 0 .. N /\ i - 1 < n
        BY <2>1, <3>2
      <4>2. f[i - 1] = g[i - 1]
        BY <1>a, <4>1
      <4>3. g[i] = RowStep(reads, stops, i, f[i - 1])
        BY <3>2
      <4>4. Body(g)[i] = RowStep(reads, stops, i, g[i - 1])
        BY <3>2
      <4> QED BY <4>2, <4>3, <4>4
    <3> QED BY <3>1, <3>2
  <2> HIDE DEF g
  <2> QED BY <2>1 DEF g
<1>b. Exists(0)
  <2>1. Good(<<>>, 0)
    OBVIOUS
  <2> HIDE DEF Good
  <2> QED BY <2>1
<1>c. \A n \in Nat : Exists(n) => Exists(n + 1)
  BY <1>a
<1>d. \A n \in Nat : Exists(n)
  <2> HIDE DEF Exists
  <2> DEFINE S == {n \in Nat : Exists(n)}
  <2>1. 0 \in S /\ \A n \in Nat : n \in S => n + 1 \in S
    BY <1>b, <1>c
  <2> HIDE DEF S
  <2>2. Nat \subseteq S
    BY <2>1, Induction
  <2> QED BY <2>2 DEF S
<1>1. \E f : f = Body(f)
  <2>1. PICK f : Good(f, N)
    BY <1>d
  <2>2. \A i \in 0 .. N : i < N + 1 => Body(Body(f))[i] = Body(f)[i]
    <3> HIDE DEF Good, Body
    <3> QED BY <1>a, <2>1
  <2>3. Body(Body(f)) = Body(f)
    <3>1. \A i \in 0 .. N : i < N + 1
      OBVIOUS
    <3> QED BY <2>2, <3>1
  <2> QED BY <2>3
<1> DEFINE row == CHOOSE f : f = Body(f)
<1>2. row = Body(row)
  <2> HIDE DEF Body
  <2> QED BY <1>1
<1>3. InARow(reads, pos, stops) = row[N]
  BY DEF InARow, RowStep
<1> HIDE DEF row
<1>4. row[0] = Result(TRUE, <<>>, pos)
  BY <1>2
<1>5. \A i \in 1 .. N : row[i] = RowStep(reads, stops, i, row[i - 1])
  BY <1>2
<1> QED BY <1>3, <1>4, <1>5 DEF IsRow

\* What a read of a type does at every position, given the reads of its parts.
ReadStep(s, T, read) ==
    [pos \in Nat |->
        CASE T.kind = "custom" -> Deserialize(s, T, pos, read)
          [] T.kind = "string" -> ReadString(s, T, pos)
          [] T.kind \in Containers -> ReadContainer(s, T, pos, read)
          [] OTHER -> ReadScalar(s, T, pos)]

LEMMA ReadCongruence ==
    ASSUME NEW s, NEW T \in Types, NEW f, NEW g,
           \A i \in DOMAIN T.of : f[T.of[i]] = g[T.of[i]]
    PROVE  ReadStep(s, T, f) = ReadStep(s, T, g)
<1>1. \A pos : Deserialize(s, T, pos, f) = Deserialize(s, T, pos, g)
  <2>1. [i \in DOMAIN T.of |-> f[T.of[i]]] = [i \in DOMAIN T.of |-> g[T.of[i]]]
    OBVIOUS
  <2> QED BY <2>1 DEF Deserialize
<1>2. ASSUME T.kind \in Containers, NEW pos
      PROVE  ReadContainer(s, T, pos, f) = ReadContainer(s, T, pos, g)
  <2> DEFINE n == ReadLength(s, pos + 1).n * Len(T.of)
  <2>1. T.of # <<>>
    <3>1. Len(T.of) = Arity[T.kind]
      BY <1>2, DataAssumption DEF WellFormed
    <3>2. Arity[T.kind] # 0
      BY <1>2, Arities, Kinds
    <3> QED BY <3>1, <3>2
  <2>2. \A i \in 1 .. n : f[PartType(T, i)] = g[PartType(T, i)]
    <3> TAKE i \in 1 .. n
    <3>1. i \in Nat \ {0}
      OBVIOUS
    <3> QED BY <2>1, <3>1, PartTypes
  <2>3. [i \in 1 .. n |-> f[PartType(T, i)]] = [i \in 1 .. n |-> g[PartType(T, i)]]
    BY <2>2
  <2> QED BY <2>3 DEF ReadContainer
<1>3. ASSUME NEW pos \in Nat
      PROVE  ReadStep(s, T, f)[pos] = ReadStep(s, T, g)[pos]
  <2>1. CASE T.kind = "custom"
    <3>1. /\ ReadStep(s, T, f)[pos] = Deserialize(s, T, pos, f)
          /\ ReadStep(s, T, g)[pos] = Deserialize(s, T, pos, g)
      BY <2>1, Kinds DEF ReadStep
    <3> QED BY <1>1, <3>1
  <2>2. CASE T.kind \in Containers
    <3>1. T.kind \notin {"custom", "string"}
      BY <2>2, Kinds
    <3> QED BY <1>2, <2>2, <3>1 DEF ReadStep
  <2>3. CASE T.kind \notin Containers \cup {"custom"}
    BY <2>3 DEF ReadStep
  <2> QED BY <2>1, <2>2, <2>3
<1> QED BY <1>3 DEF ReadStep

LEMMA DecodedEquation ==
    ASSUME NEW s, NEW T \in Types
    PROVE  Decoded(s)[T] = ReadStep(s, T, Decoded(s))
<1> DEFINE Body(f) == [U \in Types |-> ReadStep(s, U, f)]
           Good(f, n) == \A U \in Types : Nesting[U] < n => f[U] = Body(f)[U]
           Exists(n) == \E f : Good(f, n)
<1>0. /\ Nesting \in [Types -> Nat]
      /\ \A U \in Types : /\ U.of \in Seq(Types)
                          /\ \A i \in DOMAIN U.of : Nesting[U.of[i]] < Nesting[U]
  BY DataAssumption DEF WellFormed
<1>a. ASSUME NEW f, NEW n \in Nat, Good(f, n)
      PROVE  /\ \A U \in Types : Nesting[U] < n + 1 => Body(Body(f))[U] = Body(f)[U]
             /\ Good(Body(f), n + 1)
  <2> DEFINE g == Body(f)
  <2>1. ASSUME NEW U \in Types, Nesting[U] < n + 1
        PROVE  Body(g)[U] = g[U]
    <3>1. ASSUME NEW i \in DOMAIN U.of PROVE f[U.of[i]] = g[U.of[i]]
      <4>1. U.of[i] \in Types /\ Nesting[U.of[i]] < Nesting[U]
        BY <1>0, <3>1
      <4>2. Nesting[U.of[i]] < n
        BY <1>0, <2>1, <4>1
      <4> QED BY <1>a, <4>1, <4>2
    <3> HIDE DEF g
    <3>2. ReadStep(s, U, f) = ReadStep(s, U, g)
      BY <3>1, ReadCongruence
    <3> QED BY <3>2 DEF g
  <2> HIDE DEF g
  <2> QED BY <2>1 DEF g
<1>b. Exists(0)
  <2>1. \A U \in Types : ~(Nesting[U] < 0)
    BY <1>0
  <2>2. Good(<<>>, 0)
    BY <2>1
  <2> HIDE DEF Good
  <2> QED BY <2>2
<1>c. \A n \in Nat : Exists(n) => Exists(n + 1)
  BY <1>a
<1>d. \A n \in Nat : Exists(n)
  <2> HIDE DEF Exists
  <2> DEFINE S == {n \in Nat : Exists(n)}
  <2>1. 0 \in S /\ \A n \in Nat : n \in S => n + 1 \in S
    BY <1>b, <1>c
  <2> HIDE DEF S
  <2>2. Nat \subseteq S
    BY <2>1, Induction
  <2> QED BY <2>2 DEF S
<1>1. \E f : f = Body(f)
  <2>1. PICK n \in Nat : \A U \in Types : Nesting[U] < n
    BY NestingBound
  <2>2. PICK f : Good(f, n)
    BY <1>d
  <2>4. \A U \in Types : Nesting[U] < n + 1
    BY <1>0, <2>1
  <2>5. \A U \in Types : Body(Body(f))[U] = Body(f)[U]
    BY <1>a, <2>2, <2>4
  <2>6. Body(Body(f)) = Body(f)
    BY <2>5
  <2> QED BY <2>6
<1>2. Decoded(s) = CHOOSE f : f = Body(f)
  BY DEF Decoded, ReadStep
<1>3. Decoded(s) = Body(Decoded(s))
  <2> HIDE DEF Body
  <2> QED BY <1>1, <1>2
<1> QED BY <1>3

-----------------------------------------------------------------------------
(* Sequences one behind the other                                           *)

\* What stands in a memory from a position on.
At(mem, pos, bytes) ==
    /\ pos + Len(bytes) <= Len(mem)
    /\ \A j \in 1 .. Len(bytes) : mem[pos + j] = bytes[j]

LEMMA Concatenated ==
    ASSUME NEW S, NEW a \in Seq(S), NEW b \in Seq(S)
    PROVE  /\ a \o b \in Seq(S) /\ Len(a) \in Nat /\ Len(b) \in Nat
           /\ Len(a \o b) = Len(a) + Len(b)
           /\ \A i \in 1 .. Len(a) : (a \o b)[i] = a[i]
           /\ \A j \in 1 .. Len(b) : (a \o b)[Len(a) + j] = b[j]
OBVIOUS

LEMMA AtFront ==
    ASSUME NEW S, NEW a \in Seq(S), NEW b \in Seq(S), NEW c \in Seq(S),
           NEW pos \in Nat, At(a, pos, c)
    PROVE  At(a \o b, pos, c)
<1> DEFINE ab == a \o b
<1>1. Len(c) \in Nat /\ Len(ab) = Len(a) + Len(b) /\ Len(a) \in Nat /\ Len(b) \in Nat
  OBVIOUS
<1>2. \A i \in 1 .. Len(a) : ab[i] = a[i]
  OBVIOUS
<1> HIDE DEF ab
<1>3. pos + Len(c) <= Len(a) /\ \A j \in 1 .. Len(c) : a[pos + j] = c[j]
  BY DEF At
<1>4. \A j \in 1 .. Len(c) : pos + j \in 1 .. Len(a)
  BY <1>1, <1>3
<1>5. \A j \in 1 .. Len(c) : ab[pos + j] = c[j]
  BY <1>2, <1>3, <1>4
<1>6. pos + Len(c) <= Len(ab)
  BY <1>1, <1>3
<1>7. At(ab, pos, c)
  BY <1>5, <1>6 DEF At
<1> QED BY <1>7 DEF ab

LEMMA AtBack ==
    ASSUME NEW S, NEW a \in Seq(S), NEW b \in Seq(S)
    PROVE  At(a \o b, Len(a), b)
BY Concatenated DEF At

LEMMA AtWithin ==
    ASSUME NEW S, NEW mem \in Seq(S), NEW a \in Seq(S), NEW b \in Seq(S),
           NEW p \in Nat, NEW q \in Nat, At(mem, p, a), At(a, q, b)
    PROVE  At(mem, p + q, b)
<1>1. Len(mem) \in Nat /\ Len(a) \in Nat /\ Len(b) \in Nat
  OBVIOUS
<1>2. /\ p + Len(a) <= Len(mem) /\ \A j \in 1 .. Len(a) : mem[p + j] = a[j]
      /\ q + Len(b) <= Len(a) /\ \A j \in 1 .. Len(b) : a[q + j] = b[j]
  BY DEF At
<1>3. (p + q) + Len(b) <= Len(mem)
  BY <1>1, <1>2
<1>4. ASSUME NEW j \in 1 .. Len(b) PROVE mem[(p + q) + j] = b[j]
  <2>1. q + j \in 1 .. Len(a) /\ (p + q) + j = p + (q + j)
    BY <1>1, <1>2
  <2> QED BY <1>2, <2>1
<1> QED BY <1>3, <1>4 DEF At

LEMMA AtSplit ==
    ASSUME NEW S, NEW mem \in Seq(S), NEW a \in Seq(S), NEW b \in Seq(S),
           NEW p \in Nat, At(mem, p, a \o b)
    PROVE  At(mem, p, a) /\ At(mem, p + Len(a), b)
<1>1. a \o b \in Seq(S) /\ Len(a) \in Nat
  OBVIOUS
<1>2. At(a, 0, a)
  BY DEF At
<1>3. At(a \o b, 0, a)
  BY <1>2, AtFront
<1>4. At(a \o b, Len(a), b)
  BY AtBack
<1>5. At(mem, p + 0, a) /\ At(mem, p + Len(a), b)
  BY <1>1, <1>3, <1>4, AtWithin
<1> QED BY <1>5

LEMMA AtSub ==
    ASSUME NEW S, NEW mem \in Seq(S), NEW a \in Seq(S), NEW p \in Nat, At(mem, p, a)
    PROVE  SubSeq(mem, p + 1, p + Len(a)) = a
<1>1. /\ p + Len(a) <= Len(mem) /\ \A j \in 1 .. Len(a) : mem[p + j] = a[j]
      /\ Len(a) \in Nat /\ Len(mem) \in Nat
  BY DEF At
<1> DEFINE sub == SubSeq(mem, p + 1, p + Len(a))
<1>2. sub \in Seq(S) /\ Len(sub) = Len(a)
  BY <1>1
<1>3. \A j \in 1 .. Len(a) : sub[j] = mem[p + j]
  BY <1>1
<1> HIDE DEF sub
<1>4. \A j \in 1 .. Len(a) : sub[j] = a[j]
  BY <1>1, <1>3
<1>5. sub = a
  BY <1>2, <1>4, SeqEqual
<1> QED BY <1>5 DEF sub

LEMMA FlattenEquation ==
    ASSUME NEW seqs, Len(seqs) \in Nat
    PROVE  \E flatten :
             /\ \A i \in 1 .. Len(seqs) :
                  flatten[i] = IF i = 1 THEN seqs[i] ELSE flatten[i - 1] \o seqs[i]
             /\ Len(seqs) # 0 => FlattenSeq(seqs) = flatten[Len(seqs)]
<1> DEFINE N == Len(seqs)
           Body(f) == [i \in 1 .. N |-> IF i = 1 THEN seqs[i] ELSE f[i - 1] \o seqs[i]]
           Good(f, n) == \A i \in 1 .. N : i <= n => f[i] = Body(f)[i]
           Exists(n) == \E f : Good(f, n)
<1>a. ASSUME NEW f, NEW n \in Nat, Good(f, n)
      PROVE  /\ \A i \in 1 .. N : i <= n + 1 => Body(Body(f))[i] = Body(f)[i]
             /\ Good(Body(f), n + 1)
  <2> DEFINE g == Body(f)
  <2>1. ASSUME NEW i \in 1 .. N, i <= n + 1
        PROVE  Body(g)[i] = g[i]
    <3>1. CASE i = 1
      BY <3>1
    <3>2. CASE i # 1
      <4>1. i - 1 \in 1 .. N /\ i - 1 <= n
        BY <2>1, <3>2
      <4>2. f[i - 1] = g[i - 1]
        BY <1>a, <4>1
      <4>3. g[i] = f[i - 1] \o seqs[i]
        BY <3>2
      <4>4. Body(g)[i] = g[i - 1] \o seqs[i]
        BY <3>2
      <4> QED BY <4>2, <4>3, <4>4
    <3> QED BY <3>1, <3>2
  <2> HIDE DEF g
  <2> QED BY <2>1 DEF g
<1>b. Exists(0)
  <2>1. Good(<<>>, 0)
    OBVIOUS
  <2> HIDE DEF Good
  <2> QED BY <2>1
<1>c. \A n \in Nat : Exists(n) => Exists(n + 1)
  <2> HIDE DEF Good, Body
  <2> SUFFICES ASSUME NEW n \in Nat, NEW f, Good(f, n) PROVE Exists(n + 1)
    OBVIOUS
  <2>1. Good(Body(f), n + 1)
    BY <1>a
  <2> QED BY <2>1
<1>d. \A n \in Nat : Exists(n)
  <2> HIDE DEF Exists
  <2> DEFINE M == {n \in Nat : Exists(n)}
  <2>1. 0 \in M /\ \A n \in Nat : n \in M => n + 1 \in M
    BY <1>b, <1>c
  <2> HIDE DEF M
  <2>2. Nat \subseteq M
    BY <2>1, Induction
  <2> QED BY <2>2 DEF M
<1>1. \E f : f = Body(f)
  <2>0. Exists(N)
    BY <1>d
  <2>1. PICK f : Good(f, N)
    BY <2>0
  <2>2. \A i \in 1 .. N : i <= N + 1 => Body(Body(f))[i] = Body(f)[i]
    <3> HIDE DEF Good, Body
    <3> QED BY <1>a, <2>1
  <2>3. Body(Body(f)) = Body(f)
    <3>1. \A i \in 1 .. N : i <= N + 1
      OBVIOUS
    <3> QED BY <2>2, <3>1
  <2> QED BY <2>3
<1> DEFINE flatten == CHOOSE f : f = Body(f)
<1>2. flatten = Body(flatten)
  <2> HIDE DEF Body
  <2> QED BY <1>1
<1>3. FlattenSeq(seqs) = IF N = 0 THEN seqs ELSE flatten[N]
  BY DEF FlattenSeq
<1> HIDE DEF flatten
<1>4. \A i \in 1 .. N : flatten[i] = IF i = 1 THEN seqs[i] ELSE flatten[i - 1] \o seqs[i]
  BY <1>2
<1> QED BY <1>3, <1>4

\* A sequence of sequences laid out one behind the other: the cuts between them.
Cut(flat, seqs, cut, i) ==
    /\ cut[i] = cut[i - 1] + Len(seqs[i])
    /\ At(flat, cut[i - 1], seqs[i])

LEMMA Flattened ==
    ASSUME NEW S, NEW seqs \in Seq(Seq(S))
    PROVE  /\ FlattenSeq(seqs) \in Seq(S)
           /\ \E cut \in [0 .. Len(seqs) -> Nat] :
                /\ cut[0] = 0 /\ cut[Len(seqs)] = Len(FlattenSeq(seqs))
                /\ \A i \in 1 .. Len(seqs) : Cut(FlattenSeq(seqs), seqs, cut, i)
<1> DEFINE N == Len(seqs)
<1>0. N \in Nat /\ \A i \in 1 .. N : seqs[i] \in Seq(S)
  OBVIOUS
<1>1. PICK flatten :
        /\ \A i \in 1 .. N : flatten[i] = IF i = 1 THEN seqs[i] ELSE flatten[i - 1] \o seqs[i]
        /\ N # 0 => FlattenSeq(seqs) = flatten[N]
  BY <1>0, FlattenEquation
<1> DEFINE cut == [i \in 0 .. N |-> IF i = 0 THEN 0 ELSE Len(flatten[i])]
           Cuts(k) == \A i \in 1 .. k : Cut(flatten[k], seqs, cut, i)
           Laid(k) == k \in 1 .. N =>
             /\ flatten[k] \in Seq(S)
             /\ \A i \in 0 .. k : cut[i] \in Nat
             /\ cut[k] = Len(flatten[k])
             /\ Cuts(k)
<1>2. ASSUME NEW k \in Nat, Laid(k), k + 1 \in 1 .. N PROVE Laid(k + 1)
  <2> DEFINE more == seqs[k + 1]
  <2>1. CASE k = 0
    <3>1. flatten[1] = seqs[1] /\ seqs[1] \in Seq(S)
      BY <1>0, <1>1, <1>2, <2>1
    <3>2. cut[0] = 0 /\ cut[1] = Len(seqs[1]) /\ Len(seqs[1]) \in Nat
      BY <1>2, <2>1, <3>1
    <3>3. At(seqs[1], 0, seqs[1])
      BY <3>1 DEF At
    <3> HIDE DEF cut
    <3>4. Cuts(1)
      BY <3>1, <3>2, <3>3 DEF Cut
    <3>5. \A i \in 0 .. 1 : cut[i] \in Nat
      BY <3>2
    <3> QED BY <2>1, <3>1, <3>2, <3>4, <3>5
  <2>2. CASE k # 0
    <3>1. k \in 1 .. N /\ k \in 0 .. N /\ k + 1 \in 0 .. N /\ ~(k + 1 = 0) /\ ~(k + 1 = 1)
      BY <1>2, <2>2
    <3>2. /\ flatten[k] \in Seq(S) /\ Cuts(k) /\ cut[k] = Len(flatten[k])
          /\ \A i \in 0 .. k : cut[i] \in Nat
      BY <1>2, <3>1
    <3>3. more \in Seq(S) /\ flatten[k + 1] = flatten[k] \o more
      <4>1. (k + 1) - 1 = k
        OBVIOUS
      <4> QED BY <1>0, <1>1, <1>2, <3>1, <4>1
    <3>4. cut[k + 1] = Len(flatten[k + 1])
      BY <3>1
    <3> HIDE DEF cut, more
    <3>5. /\ flatten[k + 1] \in Seq(S)
          /\ cut[k + 1] = cut[k] + Len(more) /\ cut[k + 1] \in Nat
      BY <3>2, <3>3, <3>4, Concatenated
    <3>6. ASSUME NEW i \in 1 .. k PROVE Cut(flatten[k + 1], seqs, cut, i)
      <4>1. i \in 1 .. N /\ i - 1 \in 0 .. k
        BY <3>1
      <4>2. Cut(flatten[k], seqs, cut, i) /\ cut[i - 1] \in Nat /\ seqs[i] \in Seq(S)
        BY <1>0, <3>2, <4>1
      <4>3. At(flatten[k], cut[i - 1], seqs[i])
        BY <4>2 DEF Cut
      <4>4. At(flatten[k + 1], cut[i - 1], seqs[i])
        BY <3>2, <3>3, <4>2, <4>3, AtFront
      <4> QED BY <4>2, <4>4 DEF Cut
    <3>7. Cut(flatten[k + 1], seqs, cut, k + 1)
      <4>1. At(flatten[k + 1], cut[k], more)
        BY <3>2, <3>3, AtBack
      <4>2. (k + 1) - 1 = k
        OBVIOUS
      <4> QED BY <3>5, <4>1, <4>2 DEF Cut, more
    <3>8. Cuts(k + 1)
      <4> TAKE i \in 1 .. k + 1
      <4>1. i \in 1 .. k \/ i = k + 1
        OBVIOUS
      <4> QED BY <3>6, <3>7, <4>1
    <3>9. \A i \in 0 .. k + 1 : cut[i] \in Nat
      <4> TAKE i \in 0 .. k + 1
      <4>1. i \in 0 .. k \/ i = k + 1
        OBVIOUS
      <4> QED BY <3>2, <3>5, <4>1
    <3> HIDE DEF Cuts
    <3> QED BY <3>4, <3>5, <3>8, <3>9
  <2> QED BY <2>1, <2>2
<1>3. ASSUME NEW k \in Nat, Laid(k) PROVE Laid(k + 1)
  <2> HIDE DEF Cuts, cut
  <2> SUFFICES ASSUME k + 1 \in 1 .. N PROVE Laid(k + 1)
    OBVIOUS
  <2> HIDE DEF Laid
  <2> QED BY <1>2, <1>3
<1>4. \A k \in Nat : Laid(k)
  <2>0. Laid(0)
    OBVIOUS
  <2> HIDE DEF Laid
  <2> DEFINE M == {k \in Nat : Laid(k)}
  <2>1. 0 \in M /\ \A k \in Nat : k \in M => k + 1 \in M
    BY <2>0, <1>3
  <2> HIDE DEF M
  <2>2. Nat \subseteq M
    BY <2>1, Induction
  <2> QED BY <2>2 DEF M
<1>5. CASE N = 0
  <2>1. FlattenSeq(seqs) = seqs /\ seqs = <<>>
    BY <1>5 DEF FlattenSeq
  <2> DEFINE none == [i \in 0 .. N |-> 0]
  <2>2. none \in [0 .. N -> Nat] /\ none[0] = 0 /\ none[N] = 0
    BY <1>5
  <2>3. FlattenSeq(seqs) \in Seq(S) /\ Len(FlattenSeq(seqs)) = 0
    BY <1>5, <2>1
  <2>4. \A i \in 1 .. N : Cut(FlattenSeq(seqs), seqs, none, i)
    BY <1>5
  <2> HIDE DEF none
  <2> QED BY <2>2, <2>3, <2>4
<1>6. CASE N # 0
  <2>1. FlattenSeq(seqs) = flatten[N] /\ N \in 1 .. N /\ 0 \in 0 .. N
    BY <1>0, <1>1, <1>6
  <2>2. Laid(N) /\ cut[0] = 0 /\ cut = [i \in 0 .. N |-> cut[i]]
    BY <1>0, <1>4
  <2> HIDE DEF cut
  <2>3. /\ flatten[N] \in Seq(S) /\ cut[N] = Len(flatten[N])
        /\ \A i \in 0 .. N : cut[i] \in Nat
        /\ Cuts(N)
    BY <2>1, <2>2
  <2>4. cut \in [0 .. N -> Nat]
    BY <2>2, <2>3
  <2> QED BY <2>1, <2>2, <2>3, <2>4
<1> QED BY <1>5, <1>6

-----------------------------------------------------------------------------
(* What is written of a value                                               *)

\* A byte order is its own inverse.
LEMMA OrderedTwice ==
    ASSUME NEW swaps, NEW n \in Nat, NEW bytes \in Bytes(n)
    PROVE  /\ Ordered(swaps, bytes) \in Bytes(n)
           /\ Ordered(swaps, bytes) \in Seq(Byte) /\ Len(Ordered(swaps, bytes)) = n
           /\ Ordered(swaps, Ordered(swaps, bytes)) = bytes
<1>1. bytes \in [1 .. n -> Byte] /\ bytes \in Seq(Byte) /\ Len(bytes) = n
  BY DEF Bytes
<1>2. CASE ~swaps
  BY <1>1, <1>2 DEF Ordered, Bytes
<1>3. CASE swaps
  <2> DEFINE back == [i \in 1 .. n |-> bytes[(n - i) + 1]]
             forth == [i \in 1 .. n |-> back[(n - i) + 1]]
  <2>1. Ordered(swaps, bytes) = back
    BY <1>1, <1>3 DEF Ordered, Reverse
  <2>2. \A i \in 1 .. n : (n - i) + 1 \in 1 .. n
    OBVIOUS
  <2>3. back \in [1 .. n -> Byte]
    BY <1>1, <2>2
  <2>4. back \in Seq(Byte) /\ Len(back) = n
    BY <2>3
  <2>5. Ordered(swaps, back) = forth
    BY <1>3, <2>4 DEF Ordered, Reverse
  <2>6. ASSUME NEW i \in 1 .. n PROVE forth[i] = bytes[i]
    <3>1. (n - ((n - i) + 1)) + 1 = i
      OBVIOUS
    <3> QED BY <2>2, <3>1
  <2>7. forth = bytes
    BY <1>1, <2>6
  <2> HIDE DEF back, forth
  <2> QED BY <2>1, <2>3, <2>4, <2>5, <2>7 DEF Bytes
<1> QED BY <1>2, <1>3

LEMMA Lengths ==
    ASSUME NEW n \in 0 .. HugeLength - 1
    PROVE  /\ Int32(n) \in Bytes(4)
           /\ Length(Int32(n)) = n
<1>1. n \in Nat /\ n < 65536
  BY DEF HugeLength
<1> DEFINE a == n % 256
           b == n \div 256
<1>2. a \in 0 .. 255 /\ b \in 0 .. 255 /\ n = a + 256 * b
  <2>1. a \in 0 .. 255
    BY <1>1
  <2>2. b \in Int
    BY <1>1
  <2>3. n = a + 256 * b
    BY <1>1
  <2> HIDE DEF a, b
  <2>4. b \in 0 .. 255
    BY <1>1, <2>1, <2>2, <2>3
  <2> QED BY <2>1, <2>3, <2>4
<1> HIDE DEF a, b
<1>3. <<a, b, 0, 0>> \in [1 .. 4 -> 0 .. 255]
  <2> DEFINE four == <<a, b, 0, 0>>
             S == 0 .. 255
  <2>1. a \in S /\ b \in S /\ 0 \in S
    BY <1>2
  <2> HIDE DEF S
  <2>2. four \in Seq(S) /\ Len(four) = 4
    BY <2>1
  <2> HIDE DEF four
  <2>3. four \in [1 .. Len(four) -> S]
    BY <2>2, LenProperties
  <2>4. four \in [1 .. 4 -> S]
    BY <2>2, <2>3
  <2> QED BY <2>4 DEF four, S
<1> QED BY <1>2, <1>3 DEF Int32, Bytes, Byte, Length, a, b

\* A length as it is written: a tagged int32.
Counted(swaps, n) == <<Tag.int32>> \o Ordered(swaps, Int32(n))

LEMMA CountedBytes ==
    ASSUME NEW swaps, NEW n \in 0 .. HugeLength - 1
    PROVE  Counted(swaps, n) \in Seq(Byte) /\ Len(Counted(swaps, n)) = 5
<1>1. <<Tag.int32>> \in Seq(Byte) /\ Len(<<Tag.int32>>) = 1
  BY DEF Tag, Byte
<1>2. Ordered(swaps, Int32(n)) \in Seq(Byte) /\ Len(Ordered(swaps, Int32(n))) = 4
  BY Lengths, OrderedTwice
<1> DEFINE tag == <<Tag.int32>>
           bytes == Ordered(swaps, Int32(n))
<1> HIDE DEF tag, bytes
<1>3. tag \in Seq(Byte) /\ Len(tag) = 1 /\ bytes \in Seq(Byte) /\ Len(bytes) = 4
  BY <1>1, <1>2 DEF tag, bytes
<1>4. tag \o bytes \in Seq(Byte) /\ Len(tag \o bytes) = Len(tag) + Len(bytes)
  BY <1>3, ConcatProperties
<1>5. Len(tag) + Len(bytes) = 5
  BY <1>3
<1> QED BY <1>4, <1>5 DEF Counted, tag, bytes

\* How many elements or pairs a container has
CountOf(x) == Count(x.type, Items(x.type, x.value))

LEMMA Counts ==
    ASSUME NEW x \in Writable, x.type.kind \in Containers
    PROVE  /\ CountOf(x) \in 0 .. HugeLength - 1
           /\ Len(x.type.of) \in 1 .. 2
           /\ Len(Parts(x)) = CountOf(x) * Len(x.type.of)
<1>1. x.type \in Types /\ WellShaped(x)
  BY WritableParts
<1>2. Len(x.type.of) \in 1 .. 2
  <2>1. Len(x.type.of) = Arity[x.type.kind]
    BY <1>1, DataAssumption DEF WellFormed
  <2> QED BY <2>1, Arities, Kinds
<1> DEFINE items == Items(x.type, x.value)
<1>3. /\ Len(items) \in Nat /\ items = [i \in 1 .. Len(items) |-> items[i]]
      /\ \E n \in 0 .. HugeLength - 1 : Len(items) = n * Len(x.type.of)
  BY <1>1, ItemsShape
<1>4. Len(Parts(x)) = Len(items)
  <2> HIDE DEF items
  <2>1. DOMAIN items = 1 .. Len(items)
    BY <1>3
  <2> QED BY <1>3, <2>1 DEF Parts, items
<1>5. PICK n \in 0 .. HugeLength - 1 : Len(items) = n * Len(x.type.of)
  BY <1>3
<1>6. n \in Nat
  BY DEF HugeLength
<1>7. Len(items) \div Len(x.type.of) = n
  <2> DEFINE l == Len(items)
             k == Len(x.type.of)
  <2>1. l = n * k /\ (k = 1 \/ k = 2)
    BY <1>2, <1>5
  <2>2. l \div k = n
    <3> HIDE DEF l, k
    <3>1. (n * 1) \div 1 = n /\ (n * 2) \div 2 = n
      BY <1>6
    <3> QED BY <2>1, <3>1
  <2> QED BY <2>2
<1>8. CountOf(x) = n
  BY <1>7 DEF CountOf, Count
<1> HIDE DEF items
<1> QED BY <1>2, <1>4, <1>5, <1>8

\* The header of a value, by the kind of its type
LEMMA Headers ==
    ASSUME NEW x \in Writable, NEW swaps
    PROVE  /\ x.type.kind \in DOMAIN Tag
           /\ x.type.kind = "custom" => Header(x, swaps) = <<Tag[x.type.kind]>>
           /\ x.type.kind = "string" =>
                /\ x.value \in Text
                /\ Header(x, swaps)
                     = (<<Tag[x.type.kind]>> \o Counted(swaps, Len(x.value))) \o x.value
           /\ x.type.kind \in Containers =>
                Header(x, swaps) = <<Tag[x.type.kind]>> \o Counted(swaps, CountOf(x))
           /\ x.type.kind \in DOMAIN Width =>
                /\ x.value \in Bytes(Width[x.type.kind])
                /\ Header(x, swaps) = <<Tag[x.type.kind]>> \o Ordered(swaps, x.value)
<1> DEFINE kind == x.type.kind
<1>1. x.type \in Types /\ WellShaped(x) /\ kind \in DOMAIN Tag
  BY WritableParts, DataAssumption DEF WellFormed
<1>2. ASSUME NEW n \in 0 .. HugeLength - 1
      PROVE  <<Tag[kind], Tag.int32>> \o Ordered(swaps, Int32(n))
               = <<Tag[kind]>> \o Counted(swaps, n)
  <2> DEFINE bytes == Ordered(swaps, Int32(n))
  <2>1. bytes \in Seq(Byte)
    BY Lengths, OrderedTwice
  <2>2. <<Tag[kind]>> \in Seq(Byte) /\ <<Tag.int32>> \in Seq(Byte)
    BY <1>1, Tags DEF Tag, Byte
  <2>3. <<Tag[kind], Tag.int32>> = <<Tag[kind]>> \o <<Tag.int32>>
    OBVIOUS
  <2> HIDE DEF bytes
  <2>4. (<<Tag[kind]>> \o <<Tag.int32>>) \o bytes = <<Tag[kind]>> \o (<<Tag.int32>> \o bytes)
    BY <2>1, <2>2, ConcatAssociative
  <2> QED BY <2>3, <2>4 DEF Counted, bytes
<1>3. CASE kind = "custom"
  <2>1. Header(x, swaps) = <<Tag.custom>>
    BY <1>3 DEF Header, Containers, Arity
  <2> QED BY <1>1, <1>3, <2>1, Kinds
<1>4. CASE kind = "string"
  <2>1. x.value \in Text /\ Len(x.value) \in 0 .. HugeLength - 1
    BY <1>1, <1>4, Kinds DEF WellShaped, Text, HugeLength
  <2>2. Header(x, swaps)
          = (<<Tag[kind], Tag.int32>> \o Ordered(swaps, Int32(Len(x.value)))) \o x.value
    BY <1>4, Kinds DEF Header
  <2> QED BY <1>1, <1>2, <1>4, <2>1, <2>2, Kinds
<1>5. CASE kind \in Containers
  <2>1. Header(x, swaps) = <<Tag[kind], Tag.int32>> \o Ordered(swaps, Int32(CountOf(x)))
    BY <1>5, Kinds DEF Header, CountOf
  <2> QED BY <1>1, <1>2, <1>5, <2>1, Counts, Kinds
<1>6. CASE kind \in DOMAIN Width
  <2>1. Header(x, swaps) = <<Tag[kind]>> \o Ordered(swaps, x.value)
    BY <1>6, Kinds DEF Header
  <2>2. x.value \in Bytes(Width[kind])
    BY <1>1, <1>6, Kinds DEF WellShaped, Bytes
  <2> QED BY <1>1, <1>6, <2>1, <2>2, Kinds
<1> QED BY <1>1, <1>3, <1>4, <1>5, <1>6, Kinds

\* A header is bytes, the first of them the tag.
LEMMA HeaderBytes ==
    ASSUME NEW x \in Writable, NEW swaps
    PROVE  /\ Header(x, swaps) \in Seq(Byte)
           /\ Len(Header(x, swaps)) \in Nat \ {0}
           /\ Header(x, swaps)[1] = Tag[x.type.kind]
<1> DEFINE kind == x.type.kind
           tag == <<Tag[kind]>>
           header == Header(x, swaps)
<1>1. kind \in DOMAIN Tag
  BY Headers
<1>2. tag \in Seq(Byte) /\ Len(tag) = 1 /\ tag[1] = Tag[kind]
  BY <1>1, Tags
<1>3. ASSUME NEW rest \in Seq(Byte), header = tag \o rest
      PROVE  header \in Seq(Byte) /\ Len(header) \in Nat \ {0} /\ header[1] = Tag[kind]
  <2> HIDE DEF tag, header
  <2> QED BY <1>2, <1>3, Concatenated
<1>4. CASE kind = "custom"
  <2>1. header = tag
    BY <1>4, Headers
  <2> HIDE DEF header, tag
  <2> QED BY <1>2, <2>1 DEF header
<1>5. CASE kind = "string"
  <2> DEFINE counted == Counted(swaps, Len(x.value))
  <2>0. x.value \in Text
    BY <1>5, Headers
  <2>1. x.value \in Seq(Byte) /\ Len(x.value) \in 0 .. HugeLength - 1
    BY <2>0 DEF Text, HugeLength
  <2>2. counted \in Seq(Byte)
    BY <2>1, CountedBytes
  <2>3. header = (tag \o counted) \o x.value
    BY <1>5, Headers
  <2> DEFINE chars == x.value
  <2> HIDE DEF counted, header, tag, chars
  <2>4. tag \in Seq(Byte) /\ counted \in Seq(Byte) /\ chars \in Seq(Byte)
    BY <1>2, <2>1, <2>2 DEF chars
  <2>6. (tag \o counted) \o chars = tag \o (counted \o chars)
    BY <2>4, ConcatAssociative
  <2>5. counted \o chars \in Seq(Byte)
    BY <2>4
  <2>7. header = tag \o (counted \o chars)
    BY <2>3, <2>6 DEF chars
  <2> QED BY <1>3, <2>5, <2>7 DEF header
<1>6. CASE kind \in Containers
  <2>1. Counted(swaps, CountOf(x)) \in Seq(Byte)
    BY <1>6, Counts, CountedBytes
  <2> QED BY <1>3, <1>6, <2>1, Headers
<1>7. CASE kind \in DOMAIN Width
  <2>0. Width[kind] \in Nat /\ x.value \in Bytes(Width[kind])
    <3>1. Width[kind] \in 1 .. 8
      BY <1>7, Widths
    <3>2. x.value \in Bytes(Width[kind])
      BY <1>7, Headers
    <3> QED BY <3>1, <3>2
  <2>1. Ordered(swaps, x.value) \in Seq(Byte)
    BY <2>0, OrderedTwice
  <2> QED BY <1>3, <1>7, <2>1, Headers
<1> QED BY <1>1, <1>4, <1>5, <1>6, <1>7, Kinds

\* The bytes of the parts, in their order
PartBytes(x, swaps) == [i \in DOMAIN Parts(x) |-> Encoded(swaps)[Parts(x)[i]]]

LEMMA EncodedAs ==
    ASSUME NEW x \in Writable, NEW swaps
    PROVE  Encoded(swaps)[x] = Header(x, swaps) \o FlattenSeq(PartBytes(x, swaps))
BY EncodedEquation DEF PartBytes

\* The parts of a value are a sequence.
LEMMA PartsSequence ==
    ASSUME NEW x \in Writable
    PROVE  /\ Len(Parts(x)) \in Nat
           /\ DOMAIN Parts(x) = 1 .. Len(Parts(x))
           /\ Parts(x) \in Seq(Writable)
<1> DEFINE items == Items(x.type, x.value)
<1>1. Len(items) \in Nat /\ DOMAIN items = 1 .. Len(items)
  BY WritableParts, ItemsShape
<1> HIDE DEF items
<1>2. Parts(x) = [i \in 1 .. Len(items) |-> Parts(x)[i]] /\ DOMAIN Parts(x) = 1 .. Len(items)
  BY <1>1 DEF Parts, items
<1>3. \A i \in 1 .. Len(items) : Parts(x)[i] \in Writable
  BY <1>2, WritableParts
<1>4. Parts(x) \in [1 .. Len(items) -> Writable]
  BY <1>2, <1>3
<1> QED BY <1>1, <1>4

LEMMA EncodedBytes ==
    ASSUME NEW x \in Writable, NEW swaps
    PROVE  /\ Encoded(swaps)[x] \in Seq(Byte)
           /\ Len(Encoded(swaps)[x]) \in Nat \ {0}
           /\ PartBytes(x, swaps) \in Seq(Seq(Byte))
           /\ Len(PartBytes(x, swaps)) = Len(Parts(x))
           /\ FlattenSeq(PartBytes(x, swaps)) \in Seq(Byte)
<1> DEFINE Fine(y) == Encoded(swaps)[y] \in Seq(Byte)
           AllFine(n) == \A y \in Writable : Nesting[y.type] < n => Fine(y)
<1>1. ASSUME NEW y \in Writable, \A i \in DOMAIN Parts(y) : Fine(Parts(y)[i])
      PROVE  /\ Fine(y) /\ Len(Encoded(swaps)[y]) \in Nat \ {0}
             /\ PartBytes(y, swaps) \in Seq(Seq(Byte))
             /\ Len(PartBytes(y, swaps)) = Len(Parts(y))
             /\ FlattenSeq(PartBytes(y, swaps)) \in Seq(Byte)
  <2> DEFINE parts == PartBytes(y, swaps)
  <2>1. parts \in [1 .. Len(Parts(y)) -> Seq(Byte)] /\ Len(Parts(y)) \in Nat
    BY <1>1, PartsSequence DEF PartBytes
  <2>2. parts \in Seq(Seq(Byte)) /\ Len(parts) = Len(Parts(y))
    BY <2>1
  <2> HIDE DEF parts
  <2>3. FlattenSeq(parts) \in Seq(Byte)
    BY <2>2, Flattened
  <2>4. Encoded(swaps)[y] = Header(y, swaps) \o FlattenSeq(parts)
    BY EncodedAs DEF parts
  <2>5. /\ Encoded(swaps)[y] \in Seq(Byte)
        /\ Len(Encoded(swaps)[y]) \in Nat \ {0}
    BY <2>3, <2>4, HeaderBytes, Concatenated
  <2> QED BY <2>2, <2>3, <2>5 DEF parts
<1>2. AllFine(0)
  BY WritableParts
<1>3. ASSUME NEW n \in Nat, AllFine(n) PROVE AllFine(n + 1)
  <2> SUFFICES ASSUME NEW y \in Writable, Nesting[y.type] < n + 1 PROVE Fine(y)
    OBVIOUS
  <2> HIDE DEF Fine
  <2>1. \A i \in DOMAIN Parts(y) : Fine(Parts(y)[i])
    <3> TAKE i \in DOMAIN Parts(y)
    <3>1. /\ Parts(y)[i] \in Writable
          /\ Nesting[Parts(y)[i].type] \in Nat /\ Nesting[y.type] \in Nat
          /\ Nesting[Parts(y)[i].type] < Nesting[y.type]
      BY WritableParts
    <3>2. Nesting[Parts(y)[i].type] < n
      BY <3>1
    <3> QED BY <1>3, <3>1, <3>2
  <2> QED BY <1>1, <2>1
<1>4. \A n \in Nat : AllFine(n)
  <2> HIDE DEF AllFine
  <2> DEFINE M == {n \in Nat : AllFine(n)}
  <2>1. 0 \in M /\ \A n \in Nat : n \in M => n + 1 \in M
    BY <1>2, <1>3
  <2> HIDE DEF M
  <2>2. Nat \subseteq M
    BY <2>1, Induction
  <2> QED BY <2>2 DEF M
<1>5. \A y \in Writable : Fine(y)
  <2> TAKE y \in Writable
  <2>1. Nesting[y.type] \in Nat
    BY WritableParts
  <2>2. AllFine(Nesting[y.type] + 1) /\ Nesting[y.type] < Nesting[y.type] + 1
    BY <1>4, <2>1
  <2> QED BY <2>2
<1>6. \A i \in DOMAIN Parts(x) : Fine(Parts(x)[i])
  BY <1>5, WritableParts
<1> HIDE DEF Fine
<1>7. Fine(x)
  BY <1>5
<1> QED BY <1>1, <1>6, <1>7 DEF Fine

-----------------------------------------------------------------------------
(* Reading what stands there                                                *)

LEMMA FindsTag ==
    ASSUME NEW s, NEW T, s.mem \in Seq(Byte), NEW pos \in Nat,
           At(s.mem, pos, <<Tag[T.kind]>>)
    PROVE  Finds(s, T, pos)
<1> DEFINE tag == <<Tag[T.kind]>>
<1>1. Len(tag) = 1 /\ tag[1] = Tag[T.kind] /\ 1 \in 1 .. Len(tag) /\ Len(s.mem) \in Nat
  OBVIOUS
<1> HIDE DEF tag
<1>2. pos + 1 <= Len(s.mem) /\ s.mem[pos + 1] = Tag[T.kind]
  BY <1>1 DEF At, tag
<1> QED BY <1>1, <1>2 DEF Finds

LEMMA ScalarRead ==
    ASSUME NEW s, NEW T, s.mem \in Seq(Byte), T.kind \in DOMAIN Width, NEW pos \in Nat,
           NEW bytes \in Bytes(Width[T.kind]),
           At(s.mem, pos, <<Tag[T.kind]>> \o Ordered(Swaps(s), bytes))
    PROVE  ReadScalar(s, T, pos) = Result(TRUE, bytes, (pos + 1) + Width[T.kind])
<1> DEFINE tag == <<Tag[T.kind]>>
           w == Width[T.kind]
           ordered == Ordered(Swaps(s), bytes)
<1>1. w \in Nat
  BY Widths
<1>2. tag \in Seq(Byte) /\ Len(tag) = 1
  BY Tags, Kinds
<1>3. ordered \in Seq(Byte) /\ Len(ordered) = w /\ Ordered(Swaps(s), ordered) = bytes
  BY <1>1, OrderedTwice
<1> HIDE DEF tag, w, ordered
<1>4. At(s.mem, pos, tag) /\ At(s.mem, pos + 1, ordered)
  <2>1. At(s.mem, pos, tag \o ordered)
    BY DEF tag, ordered
  <2> QED BY <1>2, <1>3, <2>1, AtSplit
<1>5. Finds(s, T, pos)
  BY <1>4, FindsTag DEF tag
<1>6. SubSeq(s.mem, (pos + 1) + 1, (pos + 1) + w) = ordered /\ (pos + 1) + w <= Len(s.mem)
  <2>1. pos + 1 \in Nat
    OBVIOUS
  <2>2. SubSeq(s.mem, (pos + 1) + 1, (pos + 1) + Len(ordered)) = ordered
    BY <1>3, <1>4, <2>1, AtSub
  <2> QED BY <1>3, <1>4, <2>2 DEF At
<1>7. (pos + 1) + 1 = pos + 2 /\ ~((pos + 1) + w > Len(s.mem))
  BY <1>1, <1>6
<1>8. ReadScalar(s, T, pos)
        = Result(TRUE, Ordered(Swaps(s), SubSeq(s.mem, pos + 2, (pos + 1) + w)), (pos + 1) + w)
  BY <1>5, <1>7 DEF ReadScalar, w
<1> QED BY <1>3, <1>6, <1>7, <1>8 DEF w

LEMMA LengthRead ==
    ASSUME NEW s, s.mem \in Seq(Byte), NEW pos \in Nat, NEW n \in 0 .. HugeLength - 1,
           At(s.mem, pos, Counted(Swaps(s), n))
    PROVE  ReadLength(s, pos) = [n |-> n, pos |-> pos + 5]
<1>1. I32.kind = "int32" /\ Width["int32"] = 4 /\ "int32" \in DOMAIN Width
      /\ Tag["int32"] = Tag.int32
  BY DEF I32, Plain, Width
<1>2. Int32(n) \in Bytes(4) /\ Length(Int32(n)) = n
  BY Lengths
<1>3. ReadScalar(s, I32, pos) = Result(TRUE, Int32(n), (pos + 1) + 4)
  BY <1>1, <1>2, ScalarRead DEF Counted
<1>4. (pos + 1) + 4 = pos + 5
  OBVIOUS
<1> QED BY <1>2, <1>3, <1>4 DEF ReadLength, Result

\* The bytes of a value stand from one position to another.
Stands(s, x, from, to) ==
    /\ At(s.mem, from, Encoded(Swaps(s))[x])
    /\ to = from + Len(Encoded(Swaps(s))[x])

\* Behind the header of a value stand its parts.
PartsFrom(s, x, cut, from, to) ==
    /\ cut \in [0 .. Len(Parts(x)) -> Nat]
    /\ cut[0] = from /\ cut[Len(Parts(x))] = to
    /\ \A i \in 1 .. Len(Parts(x)) : Stands(s, Parts(x)[i], cut[i - 1], cut[i])

LEMMA Layout ==
    ASSUME NEW s, s.mem \in Seq(Byte), NEW x \in Writable,
           NEW from \in Nat, NEW to, Stands(s, x, from, to)
    PROVE  LET header == Header(x, Swaps(s))
           IN  /\ At(s.mem, from, header)
               /\ to \in Nat /\ from + Len(header) <= to /\ to <= Len(s.mem)
               /\ Parts(x) = <<>> => to = from + Len(header)
               /\ \E cut : PartsFrom(s, x, cut, from + Len(header), to)
<1> DEFINE header == Header(x, Swaps(s))
           seqs == PartBytes(x, Swaps(s))
           flat == FlattenSeq(seqs)
           bytes == Encoded(Swaps(s))[x]
           start == from + Len(header)
           N == Len(Parts(x))
<1>1. /\ header \in Seq(Byte) /\ Len(header) \in Nat
      /\ seqs \in Seq(Seq(Byte)) /\ flat \in Seq(Byte) /\ Len(seqs) = N
  BY HeaderBytes, EncodedBytes
<1>2. bytes = header \o flat
  BY EncodedAs
<1>3. \A i \in 1 .. N : seqs[i] = Encoded(Swaps(s))[Parts(x)[i]]
  BY PartsSequence DEF PartBytes
<1>4. PICK lens \in [0 .. N -> Nat] :
        /\ lens[0] = 0 /\ lens[N] = Len(flat)
        /\ \A i \in 1 .. N : Cut(flat, seqs, lens, i)
  <2> HIDE DEF seqs
  <2> QED BY <1>1, Flattened
<1> HIDE DEF header, seqs, flat, bytes
<1>5. Len(bytes) = Len(header) + Len(flat) /\ Len(flat) \in Nat
  BY <1>1, <1>2, Concatenated
<1>6. At(s.mem, from, header) /\ At(s.mem, start, flat)
  <2>1. At(s.mem, from, header \o flat)
    BY <1>2 DEF Stands, bytes
  <2> QED BY <1>1, <2>1, AtSplit
<1>7. to = start + Len(flat) /\ start \in Nat
  BY <1>1, <1>5 DEF Stands, bytes
<1>8. to \in Nat /\ start <= to /\ to <= Len(s.mem)
  BY <1>5, <1>6, <1>7 DEF At
<1> DEFINE cut == [i \in 0 .. N |-> start + lens[i]]
<1>9. N \in Nat
  BY PartsSequence
<1>10. cut \in [0 .. N -> Nat] /\ cut[0] = start /\ cut[N] = to
  BY <1>4, <1>7, <1>9
<1>11. ASSUME NEW i \in 1 .. N PROVE Stands(s, Parts(x)[i], cut[i - 1], cut[i])
  <2>1. i \in 0 .. N /\ i - 1 \in 0 .. N
    BY <1>9
  <2>2. lens[i] = lens[i - 1] + Len(seqs[i]) /\ At(flat, lens[i - 1], seqs[i])
    BY <1>4 DEF Cut
  <2>3. seqs[i] \in Seq(Byte) /\ lens[i - 1] \in Nat /\ Len(seqs[i]) \in Nat
    <3>1. lens[i - 1] \in Nat
      BY <2>1
    <3>2. seqs \in Seq(Seq(Byte)) /\ i \in 1 .. Len(seqs)
      BY <1>1
    <3>3. seqs[i] \in Seq(Byte)
      BY <3>2, ElementOfSeq
    <3> QED BY <3>1, <3>3, LenProperties
  <2>4. At(s.mem, start + lens[i - 1], seqs[i])
    <3> DEFINE mem == s.mem
               off == lens[i - 1]
               part == seqs[i]
    <3>1. /\ At(mem, start, flat) /\ At(flat, off, part)
          /\ start \in Nat /\ off \in Nat /\ part \in Seq(Byte) /\ flat \in Seq(Byte)
          /\ mem \in Seq(Byte)
      BY <1>1, <1>6, <1>7, <2>2, <2>3
    <3> HIDE DEF mem, off, part, start
    <3>2. At(mem, start + off, part)
      BY <3>1, AtWithin
    <3> QED BY <3>2 DEF mem, off, part
  <2>5. cut[i - 1] = start + lens[i - 1] /\ cut[i] = start + lens[i]
    BY <2>1
  <2>6. cut[i] = cut[i - 1] + Len(seqs[i])
    BY <1>7, <2>2, <2>3, <2>5
  <2> HIDE DEF cut
  <2> QED BY <1>3, <2>4, <2>5, <2>6 DEF Stands
<1>12. Parts(x) = <<>> => to = start
  <2> SUFFICES ASSUME Parts(x) = <<>> PROVE to = start
    OBVIOUS
  <2>1. N = 0
    OBVIOUS
  <2> QED BY <1>10, <2>1
<1> HIDE DEF cut
<1>13. PartsFrom(s, x, cut, start, to)
  BY <1>10, <1>11 DEF PartsFrom
<1> QED BY <1>6, <1>8, <1>12, <1>13 DEF header

\* A row of reads in which each reads a value and ends where the next begins.
EachReads(reads, m, values, cut) ==
    /\ Len(reads) = m
    /\ values = [i \in 1 .. m |-> values[i]]
    /\ \A i \in 1 .. m : reads[i][cut[i - 1]] = Result(TRUE, values[i], cut[i])

RowGets(reads, m, values, cut, stops) ==
    InARow(reads, cut[0], stops) = Result(TRUE, values, cut[m])

LEMMA OneMore ==
    ASSUME NEW values, NEW k \in Nat
    PROVE  Append([i \in 1 .. k |-> values[i]], values[k + 1]) = [i \in 1 .. k + 1 |-> values[i]]
<1> DEFINE upTo(l) == [i \in 1 .. l |-> values[i]]
<1> DEFINE S == {values[i] : i \in 1 .. k + 1}
<1>1. upTo(k) \in Seq(S) /\ Len(upTo(k)) = k /\ values[k + 1] \in S
  OBVIOUS
<1>2. upTo(k + 1) \in Seq(S) /\ Len(upTo(k + 1)) = k + 1
  OBVIOUS
<1> DEFINE longer == Append(upTo(k), values[k + 1])
<1>3. longer \in Seq(S) /\ Len(longer) = k + 1
  BY <1>1, AppendProperties
<1>4. ASSUME NEW i \in 1 .. k + 1 PROVE longer[i] = upTo(k + 1)[i]
  <2>1. CASE i \in 1 .. k
    BY <1>1, <2>1, AppendProperties
  <2>2. CASE i = k + 1
    BY <1>1, <2>2, AppendProperties
  <2> QED BY <2>1, <2>2
<1> HIDE DEF longer, S, upTo
<1>5. longer = upTo(k + 1)
  BY <1>2, <1>3, <1>4, SeqEqual
<1> QED BY <1>5 DEF longer

LEMMA RowReads ==
    ASSUME NEW reads, NEW m \in Nat, NEW stops, NEW values, NEW cut,
           EachReads(reads, m, values, cut)
    PROVE  RowGets(reads, m, values, cut, stops)
<1> DEFINE upTo(k) == [i \in 1 .. k |-> values[i]]
<1>0. /\ Len(reads) = m /\ Len(reads) \in Nat /\ values = upTo(m)
      /\ \A i \in 1 .. m : reads[i][cut[i - 1]] = Result(TRUE, values[i], cut[i])
  BY DEF EachReads
<1>1. PICK row :
        /\ row[0] = Result(TRUE, <<>>, cut[0])
        /\ \A i \in 1 .. m : row[i] = RowStep(reads, stops, i, row[i - 1])
        /\ InARow(reads, cut[0], stops) = row[m]
  <2>1. \E row : IsRow(row, reads, cut[0], stops)
    BY <1>0, RowEquation
  <2>2. PICK row : IsRow(row, reads, cut[0], stops)
    BY <2>1
  <2> QED BY <1>0, <2>2 DEF IsRow
<1> DEFINE Read_(k) == k <= m => row[k] = Result(TRUE, upTo(k), cut[k])
<1>2. Read_(0)
  <2>1. upTo(0) = <<>>
    OBVIOUS
  <2> QED BY <1>1, <2>1
<1>3. ASSUME NEW k \in Nat, Read_(k), k + 1 <= m
      PROVE  row[k + 1] = Result(TRUE, upTo(k + 1), cut[k + 1])
  <2> DEFINE before == Result(TRUE, upTo(k), cut[k])
             next == Result(TRUE, values[k + 1], cut[k + 1])
  <2>1. row[k] = before /\ k + 1 \in 1 .. m /\ (k + 1) - 1 = k
    <3>1. k <= m /\ k + 1 \in 1 .. m /\ (k + 1) - 1 = k
      BY <1>3
    <3>2. row[k] = before
      <4> HIDE DEF upTo
      <4> QED BY <1>3, <3>1
    <3> QED BY <3>1, <3>2
  <2>2. row[k + 1] = RowStep(reads, stops, k + 1, before)
    <3> HIDE DEF before
    <3> QED BY <1>1, <2>1
  <2>3. reads[k + 1][cut[k]] = next
    <3> HIDE DEF next
    <3>1. reads[k + 1][cut[(k + 1) - 1]] = Result(TRUE, values[k + 1], cut[k + 1])
      BY <1>0, <2>1
    <3> QED BY <2>1, <3>1 DEF next
  <2>4. before.ok = TRUE /\ before.pos = cut[k] /\ before.value = upTo(k)
    BY DEF Result
  <2>5. next.ok = TRUE /\ next.pos = cut[k + 1] /\ next.value = values[k + 1]
    BY DEF Result
  <2>6. Append(upTo(k), values[k + 1]) = upTo(k + 1)
    BY OneMore
  <2> HIDE DEF before, next, upTo
  <2>7. RowStep(reads, stops, k + 1, before)
          = Result(TRUE, Append(upTo(k), values[k + 1]), cut[k + 1])
    BY <2>3, <2>4, <2>5 DEF RowStep
  <2> QED BY <2>2, <2>6, <2>7
<1>4. \A k \in Nat : Read_(k) => Read_(k + 1)
  <2> HIDE DEF upTo
  <2> SUFFICES ASSUME NEW k \in Nat, Read_(k) PROVE Read_(k + 1)
    OBVIOUS
  <2> QED BY <1>3
<1>5. \A k \in Nat : Read_(k)
  <2> HIDE DEF Read_
  <2> DEFINE M == {k \in Nat : Read_(k)}
  <2>1. 0 \in M /\ \A k \in Nat : k \in M => k + 1 \in M
    BY <1>2, <1>4
  <2> HIDE DEF M
  <2>2. Nat \subseteq M
    BY <2>1, Induction
  <2> QED BY <2>2 DEF M
<1>6. row[m] = Result(TRUE, upTo(m), cut[m])
  <2>1. m \in Nat /\ m <= m
    OBVIOUS
  <2> HIDE DEF upTo
  <2> QED BY <1>5, <2>1, Zenon
<1> QED BY <1>0, <1>1, <1>6 DEF RowGets

\* A part is a value of its type, and the items of a value are its parts' values.
LEMMA PartsOfItems ==
    ASSUME NEW x \in Writable
    PROVE  /\ \A i \in 1 .. Len(Parts(x)) :
                Parts(x)[i].type = PartType(x.type, i)
           /\ Items(x.type, x.value) = [i \in 1 .. Len(Parts(x)) |-> Parts(x)[i].value]
<1> DEFINE items == Items(x.type, x.value)
           N == Len(items)
<1>1. N \in Nat /\ items = [i \in 1 .. N |-> items[i]]
  BY WritableParts, ItemsShape
<1> HIDE DEF items
<1>2. DOMAIN items = 1 .. N
  BY <1>1
<1>3. Parts(x) = [i \in 1 .. N |-> Typed(PartType(x.type, i), items[i])]
  BY <1>2 DEF Parts, items
<1>4. Len(Parts(x)) = N
  BY <1>1, <1>3
<1>5. \A i \in 1 .. N : Parts(x)[i] = Typed(PartType(x.type, i), items[i])
  BY <1>3
<1>6. \A i \in 1 .. N : /\ Parts(x)[i].type = PartType(x.type, i)
                        /\ Parts(x)[i].value = items[i]
  <2> TAKE i \in 1 .. N
  <2> DEFINE T == PartType(x.type, i)
             v == items[i]
  <2>1. Parts(x)[i] = Typed(T, v)
    BY <1>5
  <2> HIDE DEF T, v
  <2>2. Parts(x)[i].type = T /\ Parts(x)[i].value = v
    BY <2>1 DEF Typed
  <2> QED BY <2>2 DEF T, v
<1>7. items = [i \in 1 .. N |-> Parts(x)[i].value]
  BY <1>1, <1>6
<1> HIDE DEF N
<1> QED BY <1>4, <1>6, <1>7 DEF items

\* A container's loop puts together what was taken apart.
LEMMA SetGathered ==
    ASSUME NEW S, IsFiniteSet(S)
    PROVE  ToSet(SetToSeq(S)) = S
<1> DEFINE n == Cardinality(S)
           f == SetToSeq(S)
<1>1. /\ n \in Nat /\ f \in [1 .. n -> S]
      /\ \A e \in S : \E i \in 1 .. n : f[i] = e
  BY SetElements
<1> HIDE DEF n, f
<1>2. ToSet(f) = {f[i] : i \in 1 .. n}
  BY <1>1 DEF ToSet
<1>3. {f[i] : i \in 1 .. n} = S
  BY <1>1
<1> QED BY <1>2, <1>3 DEF f

LEMMA Halves ==
    /\ \A j \in Nat : /\ (2 * j) % 2 = 0 /\ (2 * j) \div 2 = j
                     /\ (2 * j - 1) % 2 = 1 /\ ((2 * j - 1) + 1) \div 2 = j
    /\ \A i \in Nat : i % 2 = 1 => i = 2 * ((i + 1) \div 2) - 1
<1>1. ASSUME NEW j \in Nat
      PROVE  /\ (2 * j) % 2 = 0 /\ (2 * j) \div 2 = j
             /\ (2 * j - 1) % 2 = 1 /\ ((2 * j - 1) + 1) \div 2 = j
  <2>1. (2 * j) % 2 = 0 /\ (2 * j) \div 2 = j
    OBVIOUS
  <2>2. (2 * j - 1) % 2 = 1
    OBVIOUS
  <2>3. (2 * j - 1) + 1 = 2 * j
    OBVIOUS
  <2> QED BY <2>1, <2>2, <2>3
<1>2. ASSUME NEW i \in Nat, i % 2 = 1 PROVE i = 2 * ((i + 1) \div 2) - 1
  <2>1. (i + 1) % 2 = 0
    BY <1>2
  <2> QED BY <2>1
<1> QED BY <1>1, <1>2

LEMMA MapGathered ==
    ASSUME NEW T, T.kind = "map", NEW v, v = [k \in DOMAIN v |-> v[k]], IsFiniteSet(DOMAIN v)
    PROVE  Collected(T, Items(T, v)) = v
<1> DEFINE n == Cardinality(DOMAIN v)
           ks == SetToSeq(DOMAIN v)
           values == Items(T, v)
           keys == {i \in DOMAIN values : i % 2 = 1}
<1>1. /\ n \in Nat /\ ks \in [1 .. n -> DOMAIN v]
      /\ \A i, j \in 1 .. n : ks[i] = ks[j] => i = j
      /\ \A e \in DOMAIN v : \E i \in 1 .. n : ks[i] = e
  BY SetElements
<1>2. values = [i \in 1 .. 2 * n |->
                  IF i % 2 = 1 THEN ks[(i + 1) \div 2] ELSE v[ks[i \div 2]]]
  <2>1. Len(ks) = n
    <3> HIDE DEF ks, n
    <3> QED BY <1>1
  <2>2. values = [i \in 1 .. 2 * Len(ks) |->
                  IF i % 2 = 1 THEN ks[(i + 1) \div 2] ELSE v[ks[i \div 2]]]
    BY DEF Items
  <2> HIDE DEF ks, n, values
  <2> QED BY <2>1, <2>2
<1> HIDE DEF n, ks, values
<1>3. ASSUME NEW j \in 1 .. n
      PROVE  /\ 2 * j - 1 \in keys /\ 2 * j \in 1 .. 2 * n
             /\ values[2 * j - 1] = ks[j] /\ values[2 * j] = v[ks[j]]
  <2>1. /\ 2 * j - 1 \in 1 .. 2 * n /\ 2 * j \in 1 .. 2 * n
        /\ (2 * j - 1) % 2 = 1 /\ (2 * j) % 2 # 1
        /\ ((2 * j - 1) + 1) \div 2 = j /\ (2 * j) \div 2 = j
    <3>1. j \in Nat /\ 2 * j - 1 \in 1 .. 2 * n /\ 2 * j \in 1 .. 2 * n
      BY <1>1
    <3>2. /\ (2 * j) % 2 = 0 /\ (2 * j) \div 2 = j
          /\ (2 * j - 1) % 2 = 1 /\ ((2 * j - 1) + 1) \div 2 = j
      BY <3>1, Halves
    <3> QED BY <3>1, <3>2
  <2>2. DOMAIN values = 1 .. 2 * n
    BY <1>2
  <2>3. values[2 * j - 1] = ks[((2 * j - 1) + 1) \div 2]
    BY <1>2, <2>1
  <2>4. values[2 * j] = v[ks[(2 * j) \div 2]]
    BY <1>2, <2>1
  <2> QED BY <2>1, <2>2, <2>3, <2>4
<1>4. ASSUME NEW i \in keys
      PROVE  \E j \in 1 .. n : i = 2 * j - 1 /\ values[i] = ks[j]
  <2>1. i \in 1 .. 2 * n /\ i % 2 = 1
    BY <1>2
  <2> DEFINE j == (i + 1) \div 2
  <2>2. i = 2 * j - 1
    BY <1>1, <2>1, Halves
  <2>3. j \in Int
    BY <1>1, <2>1
  <2> HIDE DEF j
  <2>4. j \in 1 .. n
    BY <1>1, <2>1, <2>2, <2>3
  <2> HIDE DEF keys
  <2> QED BY <1>3, <2>2, <2>4
<1> DEFINE AllKeys == {values[i] : i \in keys}
           Final(k, i) == values[i] = k /\ \A j \in keys : values[j] = k => j <= i
           Place(k) == CHOOSE i \in keys : Final(k, i)
<1>5. AllKeys = DOMAIN v
  <2>1. \A e \in DOMAIN v : e \in AllKeys
    <3> TAKE e \in DOMAIN v
    <3>1. PICK j \in 1 .. n : ks[j] = e
      BY <1>1
    <3> HIDE DEF keys
    <3> QED BY <1>3, <3>1
  <2>2. \A e \in AllKeys : e \in DOMAIN v
    <3> HIDE DEF keys
    <3> QED BY <1>1, <1>4
  <2> HIDE DEF AllKeys
  <2> QED BY <2>1, <2>2
<1> HIDE DEF keys
<1>6. ASSUME NEW k \in DOMAIN v PROVE values[1 + Place(k)] = v[k]
  <2>1. PICK j \in 1 .. n : ks[j] = k
    BY <1>1
  <2>2. \A i \in keys : values[i] = k => i = 2 * j - 1
    BY <1>1, <1>4, <2>1
  <2>3. 2 * j - 1 \in keys /\ Final(k, 2 * j - 1)
    BY <1>3, <2>1, <2>2
  <2>4. Place(k) \in keys /\ Final(k, Place(k))
    <3> HIDE DEF Final
    <3> QED BY <2>3
  <2>5. Place(k) = 2 * j - 1
    <3> HIDE DEF Place
    <3> QED BY <2>2, <2>4
  <2>6. 1 + (2 * j - 1) = 2 * j
    OBVIOUS
  <2> HIDE DEF Place
  <2> QED BY <1>3, <2>1, <2>5, <2>6
<1>7. Collected(T, values) = [k \in AllKeys |-> values[1 + Place(k)]]
  BY DEF Collected, keys
<1> HIDE DEF Place, AllKeys
<1>8. [k \in AllKeys |-> values[1 + Place(k)]] = [k \in DOMAIN v |-> v[k]]
  BY <1>5, <1>6
<1> QED BY <1>7, <1>8 DEF values

LEMMA Gathered ==
    ASSUME NEW x \in Writable, x.type.kind \in Containers
    PROVE  Collected(x.type, Items(x.type, x.value)) = x.value
<1>1. WellShaped(x)
  BY WritableParts
<1>2. CASE x.type.kind \in {"vector", "list"}
  BY <1>2 DEF Collected, Items
<1>3. CASE x.type.kind = "set"
  <2>1. IsFiniteSet(x.value)
    BY <1>1, <1>3 DEF WellShaped, Width
  <2>2. Collected(x.type, Items(x.type, x.value)) = ToSet(SetToSeq(x.value))
    BY <1>3 DEF Collected, Items
  <2> QED BY <2>1, <2>2, SetGathered
<1>4. CASE x.type.kind = "map"
  <2>1. /\ IsFiniteSet(DOMAIN x.value)
        /\ x.value \in [DOMAIN x.value -> {x.value[k] : k \in DOMAIN x.value}]
    BY <1>1, <1>4 DEF WellShaped, Width
  <2>2. x.value = [k \in DOMAIN x.value |-> x.value[k]]
    BY <2>1
  <2> QED BY <1>4, <2>1, <2>2, MapGathered
<1> QED BY <1>2, <1>3, <1>4, Kinds

\* Cuts of at least one byte each
LEMMA CutsGrow ==
    ASSUME NEW N \in Nat, NEW cut \in [0 .. N -> Nat],
           \A i \in 1 .. N : cut[i - 1] < cut[i]
    PROVE  cut[0] + N <= cut[N]
<1> DEFINE Grown(k) == k <= N => cut[0] + k <= cut[k]
<1>1. Grown(0)
  OBVIOUS
<1>2. ASSUME NEW k \in Nat, Grown(k), k + 1 <= N PROVE cut[0] + (k + 1) <= cut[k + 1]
  <2>1. k + 1 \in 1 .. N /\ (k + 1) - 1 = k /\ k \in 0 .. N /\ k + 1 \in 0 .. N /\ 0 \in 0 .. N
    BY <1>2
  <2>2. cut[k] < cut[k + 1] /\ cut[0] \in Nat /\ cut[k] \in Nat /\ cut[k + 1] \in Nat
    BY <2>1
  <2> QED BY <1>2, <2>1, <2>2
<1>3. \A k \in Nat : Grown(k) => Grown(k + 1)
  BY <1>2
<1>4. \A k \in Nat : Grown(k)
  <2> HIDE DEF Grown
  <2> DEFINE M == {k \in Nat : Grown(k)}
  <2>1. 0 \in M /\ \A k \in Nat : k \in M => k + 1 \in M
    BY <1>1, <1>3
  <2> HIDE DEF M
  <2>2. Nat \subseteq M
    BY <2>1, Induction
  <2> QED BY <2>2 DEF M
<1>5. Grown(N)
  BY <1>4
<1> QED BY <1>5

\* A value is read back where it stands.
ReadBack(s, x, from, to) == Decoded(s)[x.type][from] = Result(TRUE, x.value, to)

\* What a read does, by the kind of the type
LEMMA DecodedBy ==
    ASSUME NEW s, NEW T \in Types, NEW pos \in Nat
    PROVE  /\ T.kind = "custom" =>
                Decoded(s)[T][pos] = Deserialize(s, T, pos, Decoded(s))
           /\ T.kind = "string" => Decoded(s)[T][pos] = ReadString(s, T, pos)
           /\ T.kind \in Containers =>
                Decoded(s)[T][pos] = ReadContainer(s, T, pos, Decoded(s))
           /\ T.kind \in DOMAIN Width => Decoded(s)[T][pos] = ReadScalar(s, T, pos)
<1> DEFINE read == Decoded(s)
<1>1. read[T] = ReadStep(s, T, read)
  BY DecodedEquation
<1> HIDE DEF read
<1>2. read[T][pos] = CASE T.kind = "custom" -> Deserialize(s, T, pos, read)
          [] T.kind = "string" -> ReadString(s, T, pos)
          [] T.kind \in Containers -> ReadContainer(s, T, pos, read)
          [] OTHER -> ReadScalar(s, T, pos)
  BY <1>1 DEF ReadStep
<1>3. T.kind \in Containers => T.kind \notin {"custom", "string"}
  BY Kinds
<1>4. T.kind \in DOMAIN Width => T.kind \notin {"custom", "string"} \cup Containers
  BY Kinds
<1>5. T.kind = "string" => T.kind \notin {"custom"} \cup Containers
  BY Kinds
<1>6. T.kind = "custom" => T.kind \notin {"string"} \cup Containers
  BY Kinds
<1> QED BY <1>2, <1>3, <1>4, <1>5, <1>6 DEF read

LEMMA ScalarBack ==
    ASSUME NEW s, s.mem \in Seq(Byte), NEW x \in Writable, NEW from \in Nat, NEW to,
           Stands(s, x, from, to), x.type.kind \in DOMAIN Width
    PROVE  ReadBack(s, x, from, to)
<1> DEFINE T == x.type
           w == Width[T.kind]
           tag == <<Tag[T.kind]>>
           bytes == Ordered(Swaps(s), x.value)
           header == Header(x, Swaps(s))
<1>1. T \in Types /\ x.value \in Bytes(w) /\ header = tag \o bytes
  BY Headers, WritableParts
<1>2. w \in Nat
  BY Widths
<1>3. Parts(x) = <<>>
  <2>1. Items(T, x.value) = <<>>
    BY Kinds DEF Items
  <2> QED BY <2>1 DEF Parts
<1>4. At(s.mem, from, header) /\ to = from + Len(header)
  BY <1>3, Layout
<1>5. Len(header) = 1 + w
  <2>1. bytes \in Seq(Byte) /\ Len(bytes) = w
    BY <1>1, <1>2, OrderedTwice
  <2>2. tag \in Seq(Byte) /\ Len(tag) = 1
    BY Tags, Kinds
  <2> HIDE DEF tag, bytes, header, w
  <2>3. Len(tag \o bytes) = Len(tag) + Len(bytes)
    BY <2>1, <2>2, ConcatProperties
  <2> QED BY <1>1, <2>1, <2>2, <2>3
<1>6. ReadScalar(s, T, from) = Result(TRUE, x.value, (from + 1) + w)
  BY <1>1, <1>4, ScalarRead
<1>7. (from + 1) + w = to
  <2> HIDE DEF header, w
  <2> QED BY <1>2, <1>4, <1>5
<1>8. Decoded(s)[T][from] = ReadScalar(s, T, from)
  BY <1>1, DecodedBy
<1> HIDE DEF w
<1> QED BY <1>6, <1>7, <1>8 DEF ReadBack

LEMMA StringBack ==
    ASSUME NEW s, s.mem \in Seq(Byte), NEW x \in Writable, NEW from \in Nat, NEW to,
           Stands(s, x, from, to), x.type.kind = "string"
    PROVE  ReadBack(s, x, from, to)
<1> DEFINE T == x.type
           chars == x.value
           n == Len(chars)
           tag == <<Tag[T.kind]>>
           counted == Counted(Swaps(s), n)
           header == Header(x, Swaps(s))
<1>1. T \in Types /\ chars \in Text /\ header = (tag \o counted) \o chars
  BY Headers, WritableParts
<1>2. chars \in Seq(Byte) /\ n \in 0 .. HugeLength - 1 /\ n \in Nat
  BY <1>1 DEF Text, HugeLength
<1>3. Parts(x) = <<>>
  <2>1. Items(T, x.value) = <<>>
    BY Kinds DEF Items
  <2> QED BY <2>1 DEF Parts
<1>4. At(s.mem, from, header) /\ to = from + Len(header) /\ to <= Len(s.mem)
  BY <1>3, Layout
<1>5. tag \in Seq(Byte) /\ Len(tag) = 1
  BY Tags, Kinds
<1>6. counted \in Seq(Byte) /\ Len(counted) = 5
  BY <1>2, CountedBytes
<1> HIDE DEF chars, tag, counted, header
<1>7. tag \o counted \in Seq(Byte) /\ Len(tag \o counted) = 6
  <2>1. /\ tag \o counted \in Seq(Byte)
        /\ Len(tag \o counted) = Len(tag) + Len(counted)
    BY <1>5, <1>6, ConcatProperties
  <2>2. Len(tag) + Len(counted) = 6
    BY <1>5, <1>6
  <2> QED BY <2>1, <2>2
<1>8. Len(header) = 6 + n
  BY <1>1, <1>2, <1>7, ConcatProperties
<1>9. At(s.mem, from, tag \o counted) /\ At(s.mem, from + 6, chars)
  BY <1>1, <1>2, <1>4, <1>7, AtSplit
<1>10. At(s.mem, from, tag) /\ At(s.mem, from + 1, counted)
  BY <1>5, <1>6, <1>9, AtSplit
<1>11. Finds(s, T, from)
  BY <1>10, FindsTag DEF tag
<1>12. ReadLength(s, from + 1) = [n |-> n, pos |-> from + 6]
  <2>1. from + 1 \in Nat /\ (from + 1) + 5 = from + 6
    OBVIOUS
  <2> DEFINE p == from + 1
  <2> HIDE DEF p
  <2>2. ReadLength(s, p) = [n |-> n, pos |-> p + 5]
    BY <1>2, <1>10, <2>1, LengthRead DEF p, counted
  <2> QED BY <2>1, <2>2 DEF p
<1>13. SubSeq(s.mem, (from + 6) + 1, (from + 6) + n) = chars
  <2>1. from + 6 \in Nat
    OBVIOUS
  <2> QED BY <1>2, <1>9, <2>1, AtSub
<1>14. (from + 6) + n = to
  BY <1>2, <1>4, <1>8
<1>15. ReadString(s, T, from) = Result(TRUE, chars, to)
  <2> HIDE DEF n, T
  <2>1. ReadLength(s, from + 1).n = n /\ ReadLength(s, from + 1).pos = from + 6
    BY <1>12
  <2>2. SubSeq(s.mem, (from + 6) + 1, to) = chars /\ ~(to > Len(s.mem))
    <3>1. s.mem \in Seq(Byte) /\ Len(s.mem) \in Nat /\ to \in Nat
      BY <1>2, <1>14 DEF n
    <3> QED BY <1>4, <1>13, <1>14, <3>1
  <2> QED BY <1>11, <1>14, <2>1, <2>2 DEF ReadString
<1>6a. Decoded(s)[T][from] = ReadString(s, T, from)
  BY <1>1, DecodedBy
<1> QED BY <1>15, <1>6a DEF ReadBack, chars

\* All the parts of a value are read back, wherever they stand.
PartsBack(s, x) ==
    \A i \in 1 .. Len(Parts(x)) : \A from, to \in Nat :
        Stands(s, Parts(x)[i], from, to) => ReadBack(s, Parts(x)[i], from, to)

\* A row of reads of the parts reads the items.
LEMMA PartsRead ==
    ASSUME NEW s, NEW x \in Writable, NEW stops, PartsBack(s, x),
           NEW cut \in [0 .. Len(Parts(x)) -> Nat],
           \A i \in 1 .. Len(Parts(x)) : Stands(s, Parts(x)[i], cut[i - 1], cut[i]),
           NEW reads, Len(reads) = Len(Parts(x)),
           \A i \in 1 .. Len(Parts(x)) : reads[i] = Decoded(s)[Parts(x)[i].type]
    PROVE  RowGets(reads, Len(Parts(x)), Items(x.type, x.value), cut, stops)
<1> DEFINE N == Len(Parts(x))
           values == [i \in 1 .. N |-> Parts(x)[i].value]
<1>1. N \in Nat
  BY PartsSequence
<1>2. ASSUME NEW i \in 1 .. N
      PROVE  reads[i][cut[i - 1]] = Result(TRUE, values[i], cut[i])
  <2>1. cut[i - 1] \in Nat /\ cut[i] \in Nat
    BY <1>1
  <2>2. Stands(s, Parts(x)[i], cut[i - 1], cut[i])
    OBVIOUS
  <2>3. ReadBack(s, Parts(x)[i], cut[i - 1], cut[i])
    BY <2>1, <2>2 DEF PartsBack
  <2>4. values[i] = Parts(x)[i].value
    OBVIOUS
  <2>5. reads[i] = Decoded(s)[Parts(x)[i].type]
    OBVIOUS
  <2> HIDE DEF values
  <2> QED BY <2>3, <2>4, <2>5 DEF ReadBack
<1>3. values = [i \in 1 .. N |-> values[i]] /\ values = Items(x.type, x.value)
  BY PartsOfItems
<1> HIDE DEF N, values
<1>4. Len(reads) = N
  BY DEF N
<1>5. EachReads(reads, N, values, cut)
  BY <1>2, <1>3, <1>4 DEF EachReads
<1>6. RowGets(reads, N, values, cut, stops)
  BY <1>1, <1>5, RowReads
<1> QED BY <1>3, <1>6 DEF N

\* Every value takes at least a byte.
LEMMA StandsGrows ==
    ASSUME NEW s, NEW x \in Writable, NEW from \in Nat, NEW to, Stands(s, x, from, to)
    PROVE  to \in Nat /\ from < to
<1>1. Len(Encoded(Swaps(s))[x]) \in Nat \ {0}
  BY EncodedBytes
<1>2. to = from + Len(Encoded(Swaps(s))[x])
  BY DEF Stands
<1> DEFINE l == Len(Encoded(Swaps(s))[x])
<1> HIDE DEF l
<1>3. l \in Nat \ {0} /\ to = from + l
  BY <1>1, <1>2 DEF l
<1> QED BY <1>3

\* A container's length and the parts behind it
LEMMA ContainerLayout ==
    ASSUME NEW s, s.mem \in Seq(Byte), NEW x \in Writable, NEW from \in Nat, NEW to,
           Stands(s, x, from, to), x.type.kind \in Containers
    PROVE  /\ Finds(s, x.type, from)
           /\ ReadLength(s, from + 1).n = CountOf(x)
           /\ ReadLength(s, from + 1).pos = from + 6
           /\ ~((from + 6) + CountOf(x) > Len(s.mem))
           /\ \E cut : PartsFrom(s, x, cut, from + 6, to)
<1> DEFINE T == x.type
           n == CountOf(x)
           k == Len(T.of)
           N == Len(Parts(x))
           tag == <<Tag[T.kind]>>
           counted == Counted(Swaps(s), n)
           header == Header(x, Swaps(s))
<1>1. T \in Types /\ header = tag \o counted
  BY Headers, WritableParts
<1>2. n \in 0 .. HugeLength - 1 /\ n \in Nat /\ k \in 1 .. 2 /\ N = n * k
  <2>1. n \in 0 .. HugeLength - 1 /\ k \in 1 .. 2 /\ N = n * k
    BY Counts
  <2> QED BY <2>1 DEF HugeLength
<1>3. tag \in Seq(Byte) /\ Len(tag) = 1
  BY Tags, Kinds
<1>4. counted \in Seq(Byte) /\ Len(counted) = 5
  BY <1>2, CountedBytes
<1>5. At(s.mem, from, header) /\ to \in Nat /\ to <= Len(s.mem)
  BY Layout
<1>6. PICK cut : PartsFrom(s, x, cut, from + Len(header), to)
  BY Layout
<1>6a. /\ cut \in [0 .. N -> Nat] /\ cut[0] = from + Len(header) /\ cut[N] = to
       /\ \A i \in 1 .. N : Stands(s, Parts(x)[i], cut[i - 1], cut[i])
  BY <1>6 DEF PartsFrom
<1>7. Len(header) = 6
  <2> HIDE DEF tag, counted, header
  <2>1. Len(header) = Len(tag) + Len(counted)
    BY <1>1, <1>3, <1>4, ConcatProperties
  <2> QED BY <1>3, <1>4, <2>1
<1>8. At(s.mem, from, tag) /\ At(s.mem, from + 1, counted)
  <2> HIDE DEF tag, counted, header
  <2> QED BY <1>1, <1>3, <1>4, <1>5, AtSplit
<1>9. Finds(s, T, from)
  BY <1>8, FindsTag
<1>10. ReadLength(s, from + 1) = [n |-> n, pos |-> from + 6]
  <2>1. from + 1 \in Nat /\ (from + 1) + 5 = from + 6
    OBVIOUS
  <2> DEFINE p == from + 1
  <2> HIDE DEF p, n
  <2>2. ReadLength(s, p) = [n |-> n, pos |-> p + 5]
    BY <1>2, <1>8, <2>1, LengthRead DEF p
  <2> QED BY <2>1, <2>2 DEF p
<1>11. \A i \in 1 .. N : cut[i - 1] < cut[i]
  <2> TAKE i \in 1 .. N
  <2>1. N \in Nat /\ i - 1 \in 0 .. N
    BY PartsSequence
  <2>2. Parts(x)[i] \in Writable
    BY PartsSequence
  <2> QED BY <1>6a, <2>1, <2>2, StandsGrows
<1>12. (from + 6) + n <= to
  <2> HIDE DEF N, n, header, k
  <2>1. N \in Nat
    BY PartsSequence DEF N
  <2>2. cut[0] + N <= cut[N]
    BY <1>11, <1>6a, <2>1, CutsGrow
  <2>3. n <= N
    <3>1. n * 1 = n /\ n * 2 = n + n
      BY <1>2
    <3> QED BY <1>2, <3>1
  <2> QED BY <1>2, <1>5, <1>7, <1>6a, <2>1, <2>2, <2>3
<1>13. ~((from + 6) + n > Len(s.mem))
  <2>1. Len(s.mem) \in Nat
    OBVIOUS
  <2> HIDE DEF n
  <2> QED BY <1>2, <1>5, <1>12, <2>1
<1>14. PartsFrom(s, x, cut, from + 6, to)
  <2> HIDE DEF header
  <2> QED BY <1>6, <1>7 DEF PartsFrom
<1>15. ReadLength(s, from + 1).n = n /\ ReadLength(s, from + 1).pos = from + 6
  <2> HIDE DEF n
  <2> QED BY <1>10
<1> HIDE DEF n
<1> QED BY <1>9, <1>13, <1>14, <1>15 DEF n

LEMMA ContainerBack ==
    ASSUME NEW s, s.mem \in Seq(Byte), NEW x \in Writable, NEW from \in Nat, NEW to,
           Stands(s, x, from, to), x.type.kind \in Containers, PartsBack(s, x)
    PROVE  ReadBack(s, x, from, to)
<1> DEFINE T == x.type
           n == CountOf(x)
           N == Len(Parts(x))
           length == ReadLength(s, from + 1)
           reads == [i \in 1 .. n * Len(T.of) |-> Decoded(s)[PartType(T, i)]]
           items == InARow([i \in 1 .. length.n * Len(T.of) |-> Decoded(s)[PartType(T, i)]],
                           length.pos, FALSE)
<1>1. T \in Types /\ N \in Nat /\ N = n * Len(T.of)
  BY Counts, WritableParts, PartsSequence
<1>2. /\ Finds(s, T, from) /\ length.n = n /\ length.pos = from + 6
      /\ ~((from + 6) + n > Len(s.mem))
  BY ContainerLayout
<1>3. PICK cut : PartsFrom(s, x, cut, from + 6, to)
  BY ContainerLayout
<1>4. RowGets(reads, N, Items(T, x.value), cut, FALSE)
  <2>1. Len(reads) = N
    <3> HIDE DEF N
    <3> QED BY <1>1
  <2>2. \A i \in 1 .. N : reads[i] = Decoded(s)[Parts(x)[i].type]
    <3> TAKE i \in 1 .. N
    <3>1. reads[i] = Decoded(s)[PartType(T, i)]
      BY <1>1
    <3>2. Parts(x)[i].type = PartType(T, i)
      BY PartsOfItems
    <3> QED BY <3>1, <3>2
  <2> HIDE DEF reads
  <2> QED BY <1>3, <2>1, <2>2, PartsRead DEF PartsFrom
<1>5. InARow(reads, from + 6, FALSE) = Result(TRUE, Items(T, x.value), to)
  <2>1. cut[0] = from + 6 /\ cut[N] = to
    BY <1>3 DEF PartsFrom
  <2> HIDE DEF reads, T, N
  <2> QED BY <1>4, <2>1 DEF RowGets
<1>6. items = InARow(reads, from + 6, FALSE)
  <2> HIDE DEF length, n
  <2> QED BY <1>2
<1>7. items.value = Items(T, x.value) /\ items.pos = to
  <2>1. items = Result(TRUE, Items(T, x.value), to)
    BY <1>5, <1>6, Zenon
  <2> HIDE DEF items, reads, T
  <2> QED BY <2>1 DEF Result
<1>8. ReadContainer(s, T, from, Decoded(s)) = Result(TRUE, Collected(T, items.value), items.pos)
  <2> DEFINE last == Len(s.mem)
             end == length.pos + length.n
  <2>1. ~(end > last)
    <3>1. end = (from + 6) + n
      BY <1>2
    <3> HIDE DEF end, last
    <3>2. ~((from + 6) + n > last)
      BY <1>2 DEF last
    <3> QED BY <3>1, <3>2, Zenon
  <2> QED BY <1>2, <2>1 DEF ReadContainer
<1>9. Collected(T, Items(T, x.value)) = x.value
  BY Gathered
<1>10. Decoded(s)[T][from] = ReadContainer(s, T, from, Decoded(s))
  BY <1>1, DecodedBy
<1> HIDE DEF items
<1> QED BY <1>7, <1>8, <1>9, <1>10 DEF ReadBack

LEMMA ClassBack ==
    ASSUME NEW s, s.mem \in Seq(Byte), NEW x \in Writable, NEW from \in Nat, NEW to,
           Stands(s, x, from, to), x.type.kind = "custom", PartsBack(s, x)
    PROVE  ReadBack(s, x, from, to)
<1> DEFINE T == x.type
           N == Len(Parts(x))
           tag == <<Tag[T.kind]>>
           reads == [i \in DOMAIN T.of |-> Decoded(s)[T.of[i]]]
<1>1. T \in Types /\ Header(x, Swaps(s)) = tag /\ WellShaped(x)
  BY Headers, WritableParts
<1>2. T.of \in Seq(Types)
  BY <1>1, DataAssumption DEF WellFormed
<1>3. Len(Parts(x)) = Len(T.of) /\ Items(T, x.value) = x.value
  <2>1. Len(x.value) = Len(T.of) /\ ASequence(x.value)
    BY <1>1, Kinds DEF WellShaped
  <2>2. Items(T, x.value) = x.value
    BY DEF Items
  <2>3. DOMAIN x.value = 1 .. Len(x.value) /\ Len(x.value) \in Nat
    BY <2>1, ASequenceOf
  <2>4. Len(Parts(x)) = Len(x.value)
    BY <2>2, <2>3 DEF Parts
  <2> QED BY <2>1, <2>2, <2>4
<1>4. At(s.mem, from, tag) /\ Len(tag) = 1
  <2>1. At(s.mem, from, Header(x, Swaps(s)))
    BY Layout
  <2> QED BY <1>1, <2>1
<1>5. PICK cut \in [0 .. N -> Nat] :
        /\ cut[0] = from + Len(tag) /\ cut[N] = to
        /\ \A i \in 1 .. N : Stands(s, Parts(x)[i], cut[i - 1], cut[i])
  <2>1. PICK cut : PartsFrom(s, x, cut, from + Len(Header(x, Swaps(s))), to)
    BY Layout
  <2> QED BY <1>1, <2>1 DEF PartsFrom
<1>6. Finds(s, T, from)
  BY <1>4, FindsTag
<1>7. RowGets(reads, N, Items(T, x.value), cut, TRUE)
  <2>0. DOMAIN T.of = 1 .. N /\ Len(T.of) \in Nat /\ N = Len(T.of)
    BY <1>2, <1>3
  <2>1. Len(reads) = N
    <3> HIDE DEF N, T
    <3> QED BY <2>0
  <2>2. \A i \in 1 .. N : reads[i] = Decoded(s)[Parts(x)[i].type]
    <3> TAKE i \in 1 .. N
    <3>1. reads[i] = Decoded(s)[T.of[i]]
      BY <2>0
    <3>2. Parts(x)[i].type = PartType(T, i)
      BY PartsOfItems
    <3>3. PartType(T, i) = T.of[i]
      <4> DEFINE m == Len(T.of)
      <4>1. m \in Nat /\ i \in 1 .. m
        BY <2>0
      <4> HIDE DEF m
      <4>2. i - 1 \in 0 .. m - 1 /\ ((i - 1) % m) + 1 = i
        BY <4>1
      <4> QED BY <4>2 DEF PartType, m
    <3> QED BY <3>1, <3>2, <3>3
  <2> HIDE DEF reads
  <2> QED BY <1>5, <2>1, <2>2, PartsRead
<1>8. InARow(reads, from + 1, TRUE) = Result(TRUE, x.value, to)
  <2> HIDE DEF reads, T, N, tag
  <2> QED BY <1>3, <1>4, <1>5, <1>7 DEF RowGets
<1>9. Deserialize(s, T, from, Decoded(s)) = Result(TRUE, x.value, to)
  <2> DEFINE fields == InARow(reads, from + 1, TRUE)
  <2>1. fields.value = x.value /\ fields.pos = to
    <3>1. fields = Result(TRUE, x.value, to)
      BY <1>8
    <3> HIDE DEF fields
    <3> QED BY <3>1 DEF Result
  <2>2. Deserialize(s, T, from, Decoded(s)) = Result(TRUE, fields.value, fields.pos)
    BY <1>6 DEF Deserialize
  <2> HIDE DEF fields
  <2> QED BY <2>1, <2>2
<1>10. Decoded(s)[T][from] = Deserialize(s, T, from, Decoded(s))
  BY <1>1, DecodedBy
<1> QED BY <1>9, <1>10 DEF ReadBack

\* By induction over the nesting of types
LEMMA ReadsBack ==
    ASSUME NEW s, s.mem \in Seq(Byte), NEW x \in Writable,
           NEW from \in Nat, NEW to, Stands(s, x, from, to)
    PROVE  ReadBack(s, x, from, to)
<1> DEFINE Back(y) == \A p, q \in Nat : Stands(s, y, p, q) => ReadBack(s, y, p, q)
           AllBack(n) == \A y \in Writable : Nesting[y.type] < n => Back(y)
<1>1. ASSUME NEW y \in Writable, PartsBack(s, y) PROVE Back(y)
  <2> SUFFICES ASSUME NEW p \in Nat, NEW q \in Nat, Stands(s, y, p, q)
               PROVE  ReadBack(s, y, p, q)
    OBVIOUS
  <2>1. y.type.kind \in DOMAIN Tag
    BY Headers
  <2>2. CASE y.type.kind \in DOMAIN Width
    BY <2>2, ScalarBack
  <2>3. CASE y.type.kind = "string"
    BY <2>3, StringBack
  <2>4. CASE y.type.kind \in Containers
    BY <1>1, <2>4, ContainerBack
  <2>5. CASE y.type.kind = "custom"
    BY <1>1, <2>5, ClassBack
  <2> QED BY <2>1, <2>2, <2>3, <2>4, <2>5, Kinds
<1>2. AllBack(0)
  BY WritableParts
<1>3. ASSUME NEW n \in Nat, AllBack(n) PROVE AllBack(n + 1)
  <2> SUFFICES ASSUME NEW y \in Writable, Nesting[y.type] < n + 1 PROVE Back(y)
    OBVIOUS
  <2>1. ASSUME NEW i \in 1 .. Len(Parts(y)) PROVE Back(Parts(y)[i])
    <3> HIDE DEF Back
    <3>1. i \in DOMAIN Parts(y)
      BY PartsSequence
    <3>2. /\ Parts(y)[i] \in Writable
          /\ Nesting[Parts(y)[i].type] \in Nat /\ Nesting[y.type] \in Nat
          /\ Nesting[Parts(y)[i].type] < Nesting[y.type]
      BY <3>1, WritableParts
    <3>3. Nesting[Parts(y)[i].type] < n
      BY <3>2
    <3> QED BY <1>3, <3>2, <3>3
  <2>2. PartsBack(s, y)
    BY <2>1 DEF PartsBack
  <2> HIDE DEF Back
  <2> QED BY <1>1, <2>2
<1>4. \A n \in Nat : AllBack(n)
  <2> HIDE DEF AllBack
  <2> DEFINE M == {n \in Nat : AllBack(n)}
  <2>1. 0 \in M /\ \A n \in Nat : n \in M => n + 1 \in M
    BY <1>2, <1>3
  <2> HIDE DEF M
  <2>2. Nat \subseteq M
    BY <2>1, Induction
  <2> QED BY <2>2 DEF M
<1>5. Nesting[x.type] \in Nat /\ to \in Nat
  BY WritableParts, StandsGrows
<1>6. AllBack(Nesting[x.type] + 1) /\ Nesting[x.type] < Nesting[x.type] + 1
  <2> HIDE DEF AllBack
  <2> QED BY <1>4, <1>5
<1>7. Back(x)
  <2> HIDE DEF Back
  <2> QED BY <1>6
<1> QED BY <1>5, <1>7

(***************************************************************************)
(* What is written can be read: a value of any type, however nested, that  *)
(* stands in a stream is read from there as it was written, and the read   *)
(* ends where the value does.                                              *)
(***************************************************************************)
THEOREM RoundTrip ==
    ASSUME NEW s, s.mem \in Seq(Byte), NEW x \in Writable,
           NEW from \in Nat, NEW to, Stands(s, x, from, to)
    PROVE  Decoded(s)[x.type][from] = Result(TRUE, x.value, to)
BY ReadsBack DEF ReadBack

-----------------------------------------------------------------------------
(* Reading something else than what stands there                            *)

\* From a position to the end of the memory stand values, at least k of them.
AheadOf(s, pos, m, values, marks) ==
    /\ m \in Nat /\ values \in [1 .. m -> Writable] /\ marks \in [0 .. m -> Nat]
    /\ marks[0] = pos /\ marks[m] = Len(s.mem)
    /\ \A i \in 1 .. m : Stands(s, values[i], marks[i - 1], marks[i])

Ahead(s, pos, k) ==
    \E m \in Nat : k <= m /\ \E values, marks : AheadOf(s, pos, m, values, marks)

LEMMA AheadInside ==
    ASSUME NEW s, NEW pos, NEW k \in Nat, Ahead(s, pos, k)
    PROVE  pos \in Nat /\ pos <= Len(s.mem)
<1>1. PICK m \in Nat : k <= m /\ \E values, marks : AheadOf(s, pos, m, values, marks)
  BY DEF Ahead
<1>2. PICK values, marks : AheadOf(s, pos, m, values, marks)
  BY <1>1
<1>3. /\ values \in [1 .. m -> Writable] /\ marks \in [0 .. m -> Nat]
      /\ marks[0] = pos /\ marks[m] = Len(s.mem)
      /\ \A i \in 1 .. m : Stands(s, values[i], marks[i - 1], marks[i])
  BY <1>2 DEF AheadOf
<1>4. \A i \in 1 .. m : marks[i - 1] < marks[i]
  <2> TAKE i \in 1 .. m
  <2>1. i - 1 \in 0 .. m
    OBVIOUS
  <2>2. values[i] \in Writable /\ marks[i - 1] \in Nat
    BY <1>3, <2>1
  <2> QED BY <1>3, <2>2, StandsGrows
<1>5. marks[0] + m <= marks[m]
  BY <1>3, <1>4, CutsGrow
<1>6. marks[0] \in Nat /\ marks[m] \in Nat
  BY <1>3
<1> QED BY <1>3, <1>5, <1>6

LEMMA AheadFewer ==
    ASSUME NEW s, NEW pos, NEW k \in Nat, Ahead(s, pos, k + 1)
    PROVE  Ahead(s, pos, k)
<1>1. PICK m \in Nat : k + 1 <= m /\ \E values, marks : AheadOf(s, pos, m, values, marks)
  BY DEF Ahead
<1>2. k <= m
  BY <1>1
<1> QED BY <1>1, <1>2 DEF Ahead

\* Behind the first value stand the others.
LEMMA AheadBehind ==
    ASSUME NEW s, NEW pos, NEW m, NEW values, NEW marks, NEW k \in Nat,
           AheadOf(s, pos, m, values, marks), k + 1 <= m
    PROVE  /\ values[1] \in Writable /\ marks[1] \in Nat
           /\ Stands(s, values[1], pos, marks[1])
           /\ Ahead(s, marks[1], k)
<1>1. /\ m \in Nat /\ values \in [1 .. m -> Writable] /\ marks \in [0 .. m -> Nat]
      /\ marks[0] = pos /\ marks[m] = Len(s.mem)
      /\ \A i \in 1 .. m : Stands(s, values[i], marks[i - 1], marks[i])
  BY DEF AheadOf
<1>2. 1 \in 1 .. m /\ 1 \in 0 .. m /\ 1 - 1 = 0
  BY <1>1
<1>3. values[1] \in Writable /\ marks[1] \in Nat /\ Stands(s, values[1], pos, marks[1])
  BY <1>1, <1>2
<1> DEFINE l == m - 1
           rest == [i \in 1 .. l |-> values[i + 1]]
           ends == [i \in 0 .. l |-> marks[i + 1]]
<1>4. l \in Nat /\ k <= l
  BY <1>1
<1>5. rest \in [1 .. l -> Writable] /\ ends \in [0 .. l -> Nat]
  BY <1>1
<1>6. ends[0] = marks[1] /\ ends[l] = Len(s.mem)
  <2>1. 0 + 1 = 1 /\ l + 1 = m /\ 0 \in 0 .. l /\ l \in 0 .. l
    BY <1>1, <1>4
  <2>2. ends[0] = marks[0 + 1] /\ ends[l] = marks[l + 1]
    BY <2>1
  <2> QED BY <1>1, <2>1, <2>2
<1>7. ASSUME NEW i \in 1 .. l PROVE Stands(s, rest[i], ends[i - 1], ends[i])
  <2>1. i + 1 \in 1 .. m /\ i \in 0 .. l /\ i - 1 \in 0 .. l /\ (i - 1) + 1 = (i + 1) - 1
    BY <1>1
  <2>2. Stands(s, values[i + 1], marks[(i + 1) - 1], marks[i + 1])
    BY <1>1, <2>1
  <2>3. rest[i] = values[i + 1] /\ ends[i] = marks[i + 1] /\ ends[i - 1] = marks[(i - 1) + 1]
    BY <2>1
  <2> QED BY <2>1, <2>2, <2>3
<1> HIDE DEF l, rest, ends
<1>8. AheadOf(s, marks[1], l, rest, ends)
  BY <1>4, <1>5, <1>6, <1>7 DEF AheadOf
<1> QED BY <1>3, <1>4, <1>8 DEF Ahead

\* A value's parts, and behind them the others.
LEMMA AheadParts ==
    ASSUME NEW s, NEW x \in Writable, NEW cut, NEW from \in Nat, NEW to,
           PartsFrom(s, x, cut, from, to), NEW k \in Nat, Ahead(s, to, k)
    PROVE  Ahead(s, from, Len(Parts(x)) + k)
<1> DEFINE N == Len(Parts(x))
<1>1. /\ N \in Nat /\ cut \in [0 .. N -> Nat] /\ cut[0] = from /\ cut[N] = to
      /\ \A i \in 1 .. N : Parts(x)[i] \in Writable
      /\ \A i \in 1 .. N : Stands(s, Parts(x)[i], cut[i - 1], cut[i])
  BY PartsSequence DEF PartsFrom
<1>2. PICK m \in Nat : k <= m /\ \E values, marks : AheadOf(s, to, m, values, marks)
  BY DEF Ahead
<1>3. PICK values, marks : AheadOf(s, to, m, values, marks)
  BY <1>2
<1>4. /\ values \in [1 .. m -> Writable] /\ marks \in [0 .. m -> Nat]
      /\ marks[0] = to /\ marks[m] = Len(s.mem)
      /\ \A i \in 1 .. m : Stands(s, values[i], marks[i - 1], marks[i])
  BY <1>3 DEF AheadOf
<1> HIDE DEF N
<1> DEFINE l == N + m
           all == [i \in 1 .. l |-> IF i <= N THEN Parts(x)[i] ELSE values[i - N]]
           ends == [i \in 0 .. l |-> IF i <= N THEN cut[i] ELSE marks[i - N]]
<1>5. l \in Nat /\ N + k <= l
  BY <1>1, <1>2
<1>6. \A i \in 0 .. l : (i <= N => i \in 0 .. N) /\ (~(i <= N) => i - N \in 1 .. m)
  BY <1>1
<1>7. all \in [1 .. l -> Writable]
  <2> SUFFICES ASSUME NEW i \in 1 .. l
               PROVE  (IF i <= N THEN Parts(x)[i] ELSE values[i - N]) \in Writable
    OBVIOUS
  <2>1. CASE i <= N
    <3>1. i \in 1 .. N
      BY <1>1, <2>1
    <3> QED BY <1>1, <2>1, <3>1
  <2>2. CASE ~(i <= N)
    <3>1. i - N \in 1 .. m
      BY <1>1, <2>2
    <3> QED BY <1>4, <2>2, <3>1
  <2> QED BY <2>1, <2>2
<1>8. ends \in [0 .. l -> Nat]
  <2> SUFFICES ASSUME NEW i \in 0 .. l
               PROVE  (IF i <= N THEN cut[i] ELSE marks[i - N]) \in Nat
    OBVIOUS
  <2>1. CASE i <= N
    BY <1>1, <1>6, <2>1
  <2>2. CASE ~(i <= N)
    <3>1. i - N \in 0 .. m
      BY <1>1, <2>2
    <3> QED BY <1>4, <2>2, <3>1
  <2> QED BY <2>1, <2>2
<1>9. \A i \in 0 .. m : ends[N + i] = marks[i]
  <2> TAKE i \in 0 .. m
  <2>1. N + i \in 0 .. l /\ (N + i) - N = i
    BY <1>1
  <2>2. CASE i = 0
    BY <1>1, <1>4, <2>1, <2>2
  <2>3. CASE i # 0
    <3>1. ~(N + i <= N)
      BY <1>1, <2>3
    <3>2. ends[N + i] = marks[(N + i) - N]
      BY <2>1, <3>1
    <3> QED BY <2>1, <3>2
  <2> QED BY <2>2, <2>3
<1>10. ends[0] = from /\ ends[l] = Len(s.mem)
  <2>1. 0 \in 0 .. l /\ 0 <= N /\ m \in 0 .. m
    BY <1>1
  <2>2. ends[0] = cut[0]
    BY <2>1
  <2>3. ends[N + m] = marks[m]
    <3> HIDE DEF ends
    <3> QED BY <1>9, <2>1
  <2> QED BY <1>1, <1>4, <2>2, <2>3
<1>11. ASSUME NEW i \in 1 .. l PROVE Stands(s, all[i], ends[i - 1], ends[i])
  <2>1. CASE i <= N
    <3>1. i \in 1 .. N /\ i \in 0 .. l /\ i - 1 \in 0 .. l /\ i - 1 <= N
      BY <1>1, <2>1
    <3>2. all[i] = Parts(x)[i]
      BY <2>1
    <3>3. ends[i - 1] = cut[i - 1] /\ ends[i] = cut[i]
      BY <2>1, <3>1
    <3> QED BY <1>1, <3>1, <3>2, <3>3
  <2>2. CASE ~(i <= N)
    <3> DEFINE j == i - N
    <3>1. j \in 1 .. m /\ j \in 0 .. m /\ j - 1 \in 0 .. m /\ N + (j - 1) = i - 1 /\ N + j = i
      BY <1>1, <2>2
    <3>2. all[i] = values[j]
      BY <2>2
    <3> HIDE DEF j, ends, all
    <3>3. ends[N + (j - 1)] = marks[j - 1] /\ ends[N + j] = marks[j]
      BY <1>9, <3>1
    <3>4. Stands(s, values[j], marks[j - 1], marks[j])
      BY <1>4, <3>1
    <3> QED BY <3>1, <3>2, <3>3, <3>4
  <2> QED BY <2>1, <2>2
<1> HIDE DEF l, all, ends
<1>12. AheadOf(s, from, l, all, ends)
  BY <1>5, <1>7, <1>8, <1>10, <1>11 DEF AheadOf
<1>13. Ahead(s, from, N + k)
  BY <1>5, <1>12 DEF Ahead
<1> QED BY <1>13 DEF N

\* A read takes at most one of the values ahead.
Keeps(s, read) ==
    \A pos \in Nat, k \in Nat : Ahead(s, pos, k + 1) => Ahead(s, read[pos].pos, k)

LEMMA RowKeeps ==
    ASSUME NEW s, NEW reads, NEW n \in Nat, Len(reads) = n,
           \A i \in 1 .. n : Keeps(s, reads[i]),
           NEW pos, NEW k \in Nat, Ahead(s, pos, n + k)
    PROVE  Ahead(s, InARow(reads, pos, FALSE).pos, k)
<1>1. PICK row : IsRow(row, reads, pos, FALSE)
  <2>1. Len(reads) \in Nat
    OBVIOUS
  <2> DEFINE stops == FALSE
  <2>2. \E row : IsRow(row, reads, pos, stops)
    <3> HIDE DEF stops
    <3> QED BY <2>1, RowEquation
  <2> QED BY <2>2
<1>2. /\ row[0] = Result(TRUE, <<>>, pos)
      /\ \A i \in 1 .. n : row[i] = RowStep(reads, FALSE, i, row[i - 1])
      /\ InARow(reads, pos, FALSE) = row[n]
  BY <1>1 DEF IsRow
<1> DEFINE Left(j) == j <= n => Ahead(s, row[j].pos, (n - j) + k)
<1>3. Left(0)
  <2>1. row[0].pos = pos
    BY <1>2 DEF Result
  <2>2. (n - 0) + k = n + k
    OBVIOUS
  <2> QED BY <2>1, <2>2
<1>4. ASSUME NEW j \in Nat, Left(j), j + 1 <= n
      PROVE  Ahead(s, row[j + 1].pos, (n - (j + 1)) + k)
  <2> DEFINE p == row[j].pos
             l == (n - (j + 1)) + k
  <2>1. j + 1 \in 1 .. n /\ (j + 1) - 1 = j /\ j <= n /\ l \in Nat /\ (n - j) + k = l + 1
    BY <1>4
  <2>2. Ahead(s, p, l + 1)
    <3>1. Ahead(s, p, (n - j) + k)
      BY <1>4, <2>1
    <3> HIDE DEF p, l
    <3> QED BY <2>1, <3>1
  <2>3. row[j + 1].pos = reads[j + 1][p].pos
    <3>1. row[j + 1] = RowStep(reads, FALSE, j + 1, row[j])
      BY <1>2, <2>1
    <3> QED BY <3>1 DEF RowStep, Result
  <2>4. p \in Nat
    <3> HIDE DEF p, l
    <3>1. l + 1 \in Nat
      BY <2>1
    <3> QED BY <2>2, <3>1, AheadInside
  <2>5. Keeps(s, reads[j + 1])
    BY <2>1
  <2> HIDE DEF p, l
  <2>6. Ahead(s, reads[j + 1][p].pos, l)
    BY <2>1, <2>2, <2>4, <2>5 DEF Keeps
  <2> QED BY <2>3, <2>6 DEF l
<1>5. \A j \in Nat : Left(j) => Left(j + 1)
  BY <1>4
<1>6. \A j \in Nat : Left(j)
  <2> HIDE DEF Left
  <2> DEFINE M == {j \in Nat : Left(j)}
  <2>1. 0 \in M /\ \A j \in Nat : j \in M => j + 1 \in M
    BY <1>3, <1>5
  <2> HIDE DEF M
  <2>2. Nat \subseteq M
    BY <2>1, Induction
  <2> QED BY <2>2 DEF M
<1>7. Left(n)
  BY <1>6
<1>8. n <= n /\ (n - n) + k = k
  OBVIOUS
<1> QED BY <1>2, <1>7, <1>8

\* Which read a type has is its kind's, unless it has parts.
LEMMA SameKind ==
    ASSUME NEW s, NEW T, NEW U, T.kind = U.kind, NEW pos
    PROVE  /\ Finds(s, T, pos) = Finds(s, U, pos)
           /\ ReadScalar(s, T, pos) = ReadScalar(s, U, pos)
           /\ ReadString(s, T, pos) = ReadString(s, U, pos)
BY DEF Finds, Mismatch, Unset, ReadScalar, ReadString

\* A tag stands where a value does.
LEMMA TagStands ==
    ASSUME NEW s, s.mem \in Seq(Byte), NEW x \in Writable, NEW pos \in Nat, NEW to,
           Stands(s, x, pos, to)
    PROVE  /\ pos < Len(s.mem)
           /\ \A T \in Types : Finds(s, T, pos) => T.kind = x.type.kind
<1> DEFINE header == Header(x, Swaps(s))
<1>1. At(s.mem, pos, header) /\ Len(s.mem) \in Nat
  BY Layout
<1>2. Len(header) \in Nat \ {0} /\ header[1] = Tag[x.type.kind]
  BY HeaderBytes
<1>3. x.type.kind \in DOMAIN Tag
  BY Headers
<1> HIDE DEF header
<1>4. 1 \in 1 .. Len(header) /\ pos < Len(s.mem)
  BY <1>1, <1>2 DEF At
<1>5. s.mem[pos + 1] = Tag[x.type.kind]
  BY <1>1, <1>2, <1>4 DEF At
<1>6. ASSUME NEW T \in Types, Finds(s, T, pos) PROVE T.kind = x.type.kind
  <2>1. T.kind \in DOMAIN Tag
    BY DataAssumption DEF WellFormed
  <2>2. Tag[T.kind] = Tag[x.type.kind]
    BY <1>5, <1>6 DEF Finds
  <2> QED BY <1>3, <2>1, <2>2, Tags
<1> QED BY <1>4, <1>6

LEMMA KeepsOne ==
    ASSUME NEW s, s.mem \in Seq(Byte), NEW T \in Types, T.kind # "custom",
           \A i \in DOMAIN T.of : Keeps(s, Decoded(s)[T.of[i]])
    PROVE  Keeps(s, Decoded(s)[T])
<1> SUFFICES ASSUME NEW pos \in Nat, NEW k \in Nat, Ahead(s, pos, k + 1)
             PROVE  Ahead(s, Decoded(s)[T][pos].pos, k)
  BY DEF Keeps
<1>1. PICK m \in Nat : k + 1 <= m /\ \E values, marks : AheadOf(s, pos, m, values, marks)
  BY DEF Ahead
<1>2. PICK values, marks : AheadOf(s, pos, m, values, marks)
  BY <1>1
<1> DEFINE x == values[1]
           to == marks[1]
<1>3. x \in Writable /\ to \in Nat /\ Stands(s, x, pos, to) /\ Ahead(s, to, k)
  BY <1>1, <1>2, AheadBehind
<1> HIDE DEF x, to
<1>4. /\ pos < Len(s.mem) /\ (Finds(s, T, pos) => T.kind = x.type.kind)
      /\ T.kind \in DOMAIN Tag /\ x.type \in Types
  BY <1>3, TagStands, WritableParts, DataAssumption DEF WellFormed
<1>5. T.kind \in DOMAIN Width \cup Containers \cup {"string"}
  BY <1>4, Kinds
<1>6. ASSUME ReadBack(s, x, pos, to) PROVE Decoded(s)[x.type][pos].pos = to
  BY <1>6 DEF ReadBack, Result
<1>7. CASE ~Finds(s, T, pos)
  <2>1. Decoded(s)[T][pos] = Mismatch(s, T, pos)
    <3>1. CASE T.kind \in DOMAIN Width
      <4>1. Decoded(s)[T][pos] = ReadScalar(s, T, pos)
        BY <3>1, DecodedBy
      <4> QED BY <1>7, <4>1 DEF ReadScalar
    <3>2. CASE T.kind = "string"
      <4>1. Decoded(s)[T][pos] = ReadString(s, T, pos)
        BY <3>2, DecodedBy
      <4> QED BY <1>7, <4>1 DEF ReadString
    <3>3. CASE T.kind \in Containers
      <4>1. Decoded(s)[T][pos] = ReadContainer(s, T, pos, Decoded(s))
        BY <3>3, DecodedBy
      <4> QED BY <1>7, <4>1 DEF ReadContainer
    <3> QED BY <1>5, <3>1, <3>2, <3>3
  <2>2. Mismatch(s, T, pos).pos = pos
    BY <1>4 DEF Mismatch, Result
  <2> QED BY <2>1, <2>2, AheadFewer
<1>8. CASE Finds(s, T, pos)
  <2>0. T.kind = x.type.kind
    BY <1>4, <1>8
  <2>1. CASE T.kind \in DOMAIN Width
    <3>1. Decoded(s)[T][pos] = ReadScalar(s, T, pos)
      BY <2>1, DecodedBy
    <3>2. Decoded(s)[x.type][pos] = ReadScalar(s, x.type, pos)
      BY <1>4, <2>0, <2>1, DecodedBy
    <3>3. ReadScalar(s, T, pos) = ReadScalar(s, x.type, pos)
      BY <2>0, SameKind
    <3>4. ReadBack(s, x, pos, to)
      BY <1>3, <2>0, <2>1, ScalarBack
    <3> QED BY <1>3, <1>6, <3>1, <3>2, <3>3, <3>4
  <2>2. CASE T.kind = "string"
    <3>1. Decoded(s)[T][pos] = ReadString(s, T, pos)
      BY <2>2, DecodedBy
    <3>2. Decoded(s)[x.type][pos] = ReadString(s, x.type, pos)
      BY <1>4, <2>0, <2>2, DecodedBy
    <3>3. ReadString(s, T, pos) = ReadString(s, x.type, pos)
      BY <2>0, SameKind
    <3>4. ReadBack(s, x, pos, to)
      BY <1>3, <2>0, <2>2, StringBack
    <3> QED BY <1>3, <1>6, <3>1, <3>2, <3>3, <3>4
  <2>3. CASE T.kind \in Containers
    <3> DEFINE n == CountOf(x)
               N == Len(Parts(x))
               length == ReadLength(s, pos + 1)
               reads == [i \in 1 .. n * Len(T.of) |-> Decoded(s)[PartType(T, i)]]
               items == InARow([i \in 1 .. length.n * Len(T.of) |-> Decoded(s)[PartType(T, i)]],
                               length.pos, FALSE)
    <3>1. Len(T.of) = Len(x.type.of) /\ Len(T.of) \in 1 .. 2
      <4>1. Len(T.of) = Arity[T.kind] /\ Len(x.type.of) = Arity[x.type.kind]
        BY <1>4, <2>0, <2>3, DataAssumption DEF WellFormed
      <4>2. Len(x.type.of) \in 1 .. 2
        BY <1>3, <2>0, <2>3, Counts
      <4> QED BY <2>0, <4>1, <4>2
    <3>2. N \in Nat /\ N = n * Len(T.of)
      BY <1>3, <2>0, <2>3, <3>1, Counts, PartsSequence
    <3>3. /\ length.n = n /\ length.pos = pos + 6
          /\ ~((pos + 6) + n > Len(s.mem))
          /\ \E cut : PartsFrom(s, x, cut, pos + 6, to)
      BY <1>3, <2>0, <2>3, ContainerLayout
    <3>4. PICK cut : PartsFrom(s, x, cut, pos + 6, to)
      BY <3>3
    <3>5. Ahead(s, pos + 6, N + k)
      <4>1. pos + 6 \in Nat
        OBVIOUS
      <4> QED BY <1>3, <3>4, <4>1, AheadParts
    <3>6. Len(reads) = N
      <4> HIDE DEF N
      <4> QED BY <3>2
    <3>7. \A i \in 1 .. N : Keeps(s, reads[i])
      <4> TAKE i \in 1 .. N
      <4>1. reads[i] = Decoded(s)[PartType(T, i)]
        BY <3>2
      <4>2. T.of # <<>> /\ i \in Nat \ {0}
        <5>1. Len(T.of) = Arity[T.kind]
          BY <2>3, DataAssumption DEF WellFormed
        <5>2. Arity[T.kind] # 0
          BY <2>3, Arities, Kinds
        <5>3. T.of # <<>>
          BY <5>1, <5>2
        <5>4. i \in Nat \ {0}
          OBVIOUS
        <5> QED BY <5>3, <5>4
      <4>3. PICK j \in DOMAIN T.of : PartType(T, i) = T.of[j]
        BY <4>2, PartTypes
      <4> QED BY <4>1, <4>3
    <3>8. Ahead(s, InARow(reads, pos + 6, FALSE).pos, k)
      <4> HIDE DEF reads, N
      <4> QED BY <3>2, <3>5, <3>6, <3>7, RowKeeps
    <3>9. items = InARow(reads, pos + 6, FALSE)
      <4> HIDE DEF length, n
      <4> QED BY <3>3
    <3>10. ReadContainer(s, T, pos, Decoded(s)) = Result(TRUE, Collected(T, items.value), items.pos)
      <4> DEFINE last == Len(s.mem)
                 end == length.pos + length.n
      <4>1. ~(end > last)
        <5>1. end = (pos + 6) + n
          BY <3>3
        <5> HIDE DEF end, last
        <5>2. ~((pos + 6) + n > last)
          BY <3>3 DEF last
        <5> QED BY <5>1, <5>2, Zenon
      <4> QED BY <1>8, <4>1 DEF ReadContainer
    <3>11. Decoded(s)[T][pos] = ReadContainer(s, T, pos, Decoded(s))
      BY <2>3, DecodedBy
    <3>12. Decoded(s)[T][pos].pos = items.pos
      <4> HIDE DEF items
      <4> QED BY <3>10, <3>11 DEF Result
    <3> HIDE DEF items, reads
    <3> QED BY <3>8, <3>9, <3>12
  <2> QED BY <1>5, <2>1, <2>2, <2>3
<1> QED BY <1>7, <1>8

(***************************************************************************)
(* A read of any type with no class in it takes at most one of the values  *)
(* that are ahead of it, whatever their types are.                         *)
(***************************************************************************)
THEOREM ReadKeeps ==
    ASSUME NEW s, s.mem \in Seq(Byte), NEW Free \in SUBSET Types,
           \A T \in Free : T.kind # "custom" /\ \A i \in DOMAIN T.of : T.of[i] \in Free,
           NEW T \in Free, NEW pos \in Nat, NEW k \in Nat, Ahead(s, pos, k + 1)
    PROVE  Ahead(s, Decoded(s)[T][pos].pos, k)
<1> DEFINE KeptBelow(n) == \A U \in Free : Nesting[U] < n => Keeps(s, Decoded(s)[U])
<1>1. Nesting \in [Types -> Nat] /\ \A U \in Types : WellFormed(U)
  BY DataAssumption
<1>2. KeptBelow(0)
  BY <1>1
<1>3. ASSUME NEW n \in Nat, KeptBelow(n) PROVE KeptBelow(n + 1)
  <2> SUFFICES ASSUME NEW U \in Free, Nesting[U] < n + 1
               PROVE  Keeps(s, Decoded(s)[U])
    OBVIOUS
  <2>1. ASSUME NEW i \in DOMAIN U.of PROVE Keeps(s, Decoded(s)[U.of[i]])
    <3>1. U.of[i] \in Free /\ Nesting[U.of[i]] < Nesting[U]
      BY <1>1, <2>1 DEF WellFormed
    <3>2. Nesting[U.of[i]] \in Nat /\ Nesting[U] \in Nat
      BY <1>1, <3>1
    <3>3. Nesting[U.of[i]] < n
      BY <3>1, <3>2
    <3> QED BY <1>3, <3>1, <3>3
  <2> QED BY <2>1, KeepsOne
<1>4. \A n \in Nat : KeptBelow(n)
  <2> HIDE DEF KeptBelow
  <2> DEFINE M == {n \in Nat : KeptBelow(n)}
  <2>1. 0 \in M /\ \A n \in Nat : n \in M => n + 1 \in M
    BY <1>2, <1>3
  <2> HIDE DEF M
  <2>2. Nat \subseteq M
    BY <2>1, Induction
  <2> QED BY <2>2 DEF M
<1>5. Nesting[T] \in Nat
  BY <1>1
<1>6. KeptBelow(Nesting[T] + 1) /\ Nesting[T] < Nesting[T] + 1
  <2> HIDE DEF KeptBelow
  <2> QED BY <1>4, <1>5
<1>7. Keeps(s, Decoded(s)[T])
  BY <1>6
<1> QED BY <1>7 DEF Keeps
=============================================================================
