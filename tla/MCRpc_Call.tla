----------------------------- MODULE MCRpc_Call -----------------------------
(* Instances of Rpc_Call for TLC. *)
EXTENDS Rpc_Call

Made(kind, types) == [kind |-> kind, of |-> types]

\* A value of every kind of type, containers in containers among them.  Some of
\* the values' bytes are tags elsewhere.
Samples == <<
    Typed(I32, <<2, 0, 0, 5>>),
    Typed(String, <<6, 2, 1>>),
    Typed(Class(<<I32, Class(<<Bool, String>>)>>),
          <<<<2, 0, 0, 0>>, <<<<1>>, <<11>>>>>>),
    Typed(Bool, <<1>>),
    Typed(Char, <<6>>),
    Typed(Plain("int64"), <<2, 0, 0, 0, 6, 2, 0, 1>>),
    Typed(Plain("float"), <<3, 1, 0, 4>>),
    Typed(Plain("double"), <<11, 0, 2, 0, 2, 0, 0, 7>>),
    Typed(Made("vector", <<I32>>), <<<<1, 0, 0, 0>>, <<2, 0, 0, 0>>>>),
    Typed(Made("vector", <<String>>), <<<<2>>, <<>>>>),
    Typed(Made("list", <<Made("vector", <<String>>)>>),
          <<<<<<2>>, <<>>>>, <<>>, <<<<7, 8>>>>>>),
    Typed(Made("set", <<String>>), {<<2>>, <<2, 3>>}),
    Typed(Made("map", <<String, Made("set", <<Bool>>)>>),
          <<5>> :> {<<0>>, <<1>>} @@ <<6>> :> {})>>

RECURSIVE Closure(_), Depth(_), WithParts(_)

\* A type with its parts and theirs, how deep they are nested, and a value
\* with its parts
Closure(T) == {T} \cup UNION {Closure(T.of[i]) : i \in DOMAIN T.of}
Depth(T) ==
    IF T.of = <<>> THEN 0 ELSE 1 + Max({Depth(T.of[i]) : i \in DOMAIN T.of})
WithParts(x) == {x} \cup UNION {WithParts(Parts(x)[i]) : i \in DOMAIN Parts(x)}

MCTypes ==
    UNION {Closure(T) : T \in PackageTypes \cup {Samples[i].type : i \in DOMAIN Samples}}
MCNesting == [T \in MCTypes |-> Depth(T)]
MCGiven == UNION {WithParts(Samples[i]) : i \in DOMAIN Samples}

Indices == DOMAIN Samples
Arguments(indices) == [i \in DOMAIN indices |-> Samples[indices[i]]]
Lists == {<<>>} \cup {<<i>> : i \in Indices} \cup (Indices \X Indices)

\* A method for every list of up to two of these types; it returns the first.
MCHandlers ==
    [name \in Lists |->
        [params |-> TypesOf(Arguments(name)),
         ret |-> IF name = <<>> THEN Void ELSE Samples[name[1]].type,
         results |-> IF name = <<>> THEN {<<>>} ELSE {Samples[name[1]].value}]]

\* Every method called with what it takes, with a second argument of another
\* type, with an argument too few, and a method nobody has registered.
MCCalls ==
    {[method |-> list, args |-> Arguments(list)] : list \in Lists}
    \cup {[method |-> <<k, i>>, args |-> Arguments(<<k, j>>)] :
            i, j \in Indices, k \in 1 .. 3}
    \cup {[method |-> <<1, 2>>, args |-> Arguments(<<i>>)] : i \in Indices}
    \cup {[method |-> <<99>>, args |-> Arguments(<<1>>)]}
MCByteOrders == {<<FALSE, FALSE>>, <<TRUE, TRUE>>, <<TRUE, FALSE>>}
MCId == <<8, 7>>
MCNotFound == <<9>>
MCErrors == {<<3, 4>>}
=============================================================================
