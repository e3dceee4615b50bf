----------------------------- MODULE MCAlgorithms -----------------------------
(* Inputs for Algorithms: results nested two deep, over two keys that lead    *)
(* to themselves and one, "odd", that has "__special__" in it and leads to    *)
(* "a"; every combination of two compressors and the halves of two key pairs. *)
EXTENDS Algorithms

Lead == [k \in {"a", "b", "odd"} |-> IF k = "odd" THEN "a" ELSE k]

Leaves == {Plain, Nan, Native, Object, Frame, Array, Marker("a")}
Some == {Plain, Object, Frame, Marker("a")}

Dicts(S) == {Dict(f) : f \in UNION {[K -> S] : K \in {{}, {"a"}, {"a", "b"}, {"a", "odd"}}}}
ListsOf(S) == {List(f) : f \in UNION {[1..n -> S] : n \in 0..2}}
Tuples(S) == {Tuple(f) : f \in UNION {[1..n -> S] : n \in 0..2}}

Flat == Leaves \cup Dicts(Leaves) \cup ListsOf(Leaves) \cup Tuples({Plain, Nan, Frame})
Inner == {Plain, Marker("a"), Dict([k \in {"a"} |-> Native]), List(<<Nan>>), List(<<Frame>>), Tuple(<<Plain>>),
          Dict([k \in {"a", "b"} |-> IF k = "a" THEN List(<<Plain>>) ELSE Marker("a")])}
AllResults == Flat \cup Inner \cup Dicts(Inner) \cup ListsOf(Inner)

Nesting[v \in AllResults] ==
    IF IsContainer(v) THEN 1 + Max({0} \cup {Nesting[Items(v)[k]] : k \in DOMAIN Items(v)}) ELSE 0

LongBatches == [1..2 -> Some] \cup [1..4 -> {Plain, Frame, Object}]

Setup(alg, pair, private) ==
    [compression_enabled |-> alg # "none", compression_algorithm |-> alg,
     encryption_enabled |-> pair # 0, key |-> [pair |-> pair, private |-> private]]
AllSetups ==
    {Setup(alg, key[1], key[2]) : alg \in {"none", "zstd", "gzip"},
        key \in {<<0, FALSE>>, <<1, TRUE>>, <<1, FALSE>>, <<2, TRUE>>}}

ListEntries == [detected : {"exact", "semantic"}, error : BOOLEAN]
AllLists ==
    [mode : {"exact", "semantic", "auto"}, allow_errors : BOOLEAN,
     metadata : {"none", "empty", "shared", "own"},
     entries : UNION {[1..n -> ListEntries] : n \in 0..3}]

Keys == {<<"a">>, <<"a", "*">>, <<"a", "b">>}
Texts == {<<"x">>, <<"*">>, <<"x", "*">>, <<"x", "y">>}
Pattern(prefix, suffix, context, age) ==
    [query_regex |-> None, query_prefix |-> prefix, query_suffix |-> suffix,
     context_matches |-> context, older_than_seconds |-> age]
SomePatterns ==
    {Pattern(prefix, suffix, context, age) :
        prefix \in {None, <<"q">>}, suffix \in {None, <<"r">>}, age \in {None, 1},
        context \in UNION {[K -> Texts] : K \in {{}, {<<"a">>}, {<<"a", "*">>}, {<<"a">>, <<"a", "b">>}}}}
    \cup {[Pattern(<<"q">>, None, <<>>, None) EXCEPT !.query_regex = {<<"r">>}]}
SomePairs == Keys \X Texts
SomeRows ==
    {[query |-> q, context |-> c, age |-> a] :
        q \in {<<"q">>, <<"q", "r">>, <<"r">>}, a \in 0..2,
        c \in UNION {[K -> {<<"x">>, <<"x", "newline">>, <<"x", "y">>}] :
                        K \in {{}, {<<"a">>}, {<<"a", "b">>}, {<<"a">>, <<"a", "b">>}}}}

KeyTexts ==
    {None} \cup [looks : {"age_public", "age_private", "arn:aws:kms:", "projects/../cryptoKeys/",
                           "https://..vault.azure.net", "secret/", "junk"},
                 in_file : BOOLEAN]
SomeConfigurations ==
    [encryption_enabled : BOOLEAN, encryption_key : KeyTexts,
     encryption_backend : {None, "age", "vault"}, compression_enabled : BOOLEAN,
     compression_algorithm : {"zstd", "gzip", "none", "lz4"}, compression_level : {0, 3, 9, 10, 22, 23}]


(* An earlier cache that stores in the clear, two that encrypt or compress, *)
(* and two that were refused                                               *)
Made(key, backend, alg) ==
    [encryption_enabled |-> key # None, encryption_key |-> key, encryption_backend |-> backend,
     compression_enabled |-> alg # "none", compression_algorithm |-> alg, compression_level |-> 3]
SomeEarlier ==
    {None, Made(None, None, "none"), Made([looks |-> "age_private", in_file |-> FALSE], None, "none"),
     Made([looks |-> "age_public", in_file |-> FALSE], "age", "gzip"),
     Made([looks |-> "junk", in_file |-> FALSE], None, "none"), Made(None, None, "lz4")}

Entries == [key : {"k", "l"}, value : {None, "v"}, threshold : 1..3]
ContextsOf == UNION {[K -> {"v", "w"}] : K \in SUBSET {"k", "l"}}
SomeThresholds == UNION {[1..n -> Entries] : n \in 0..2}
                  \cup {<<x, y, z>> \in Entries \X Entries \X Entries :
                            x.threshold = 1 /\ y.threshold = 2 /\ z.threshold = 3}
=============================================================================
