--------------------------- MODULE AlgorithmsProofs ---------------------------
(***************************************************************************)
(* Proofs about Algorithms for every value of its constants.               *)
(***************************************************************************)
EXTENDS Algorithms, FiniteSetTheorems, WellFoundedInduction, TLAPS

(* A non-empty set of naturals has a least member. *)
LEMMA LeastNumber ==
    ASSUME NEW T \in SUBSET Nat, T # {}
    PROVE  \E x \in T : \A y \in T : x <= y
<1> DEFINE less == OpToRel(<, Nat)
<1>1. IsWellFoundedOn(less, Nat)
    BY NatLessThanWellFounded
<1>2. less = {ss \in Nat \X Nat : ss[1] < ss[2]}
    BY DEF OpToRel
<1> HIDE DEF less
<1>3. PICK x \in T : \A y \in T : ~ (<<y, x>> \in less)
    BY <1>1, WFMin
<1>4. ASSUME NEW y \in T
      PROVE  x <= y
    <2>1. <<y, x>> \notin less
        BY <1>3
    <2>2. ~ (y < x)
        BY <1>2, <2>1
    <2> QED BY <2>2
<1> QED BY <1>4

-----------------------------------------------------------------------------
(* Results and their parts *)

(* y is directly inside the container x *)
PartOf ==
    {p \in Results \X Results :
        IsContainer(p[2]) /\ \E k \in DOMAIN Items(p[2]) : p[1] = Items(p[2])[k]}

(* What is in a container is a result, and comes before the container. *)
LEMMA ItemsBefore ==
    ASSUME NEW v \in Results, IsContainer(v)
    PROVE  /\ \/ v.kind = "dict" /\ v = Dict(v.items)
              \/ v.kind = "list" /\ v = List(v.elems)
              \/ v.kind = "tuple" /\ v = Tuple(v.elems)
           /\ v.kind = "dict" => DOMAIN v.items \subseteq DOMAIN Stripped
           /\ Items(v) = [k \in DOMAIN Items(v) |-> Items(v)[k]]
           /\ \A k \in DOMAIN Items(v) : /\ Items(v)[k] \in Results
                                         /\ Depth[Items(v)[k]] < Depth[v]
                                         /\ <<Items(v)[k], v>> \in PartOf
<1>1. v \notin {Plain, Nan, Native, Object, Frame, Array} /\ \A k \in DOMAIN Stripped : v # Marker(k)
    BY DEF IsContainer, Plain, Nan, Native, Object, Frame, Array, Marker
<1>2. /\ v \in {Dict(Items(v)), List(Items(v)), Tuple(Items(v))}
      /\ v.kind = "dict" => DOMAIN v.items \subseteq DOMAIN Stripped
      /\ Items(v) = [k \in DOMAIN Items(v) |-> Items(v)[k]]
      /\ \A k \in DOMAIN Items(v) : Items(v)[k] \in Results /\ Depth[Items(v)[k]] < Depth[v]
    BY <1>1, EncodingAssumption
<1>3. \/ v.kind = "dict" /\ v = Dict(v.items)
      \/ v.kind = "list" /\ v = List(v.elems)
      \/ v.kind = "tuple" /\ v = Tuple(v.elems)
    BY <1>2 DEF Items, Dict, List, Tuple
<1> QED BY <1>2, <1>3 DEF PartOf

(* What is no container is one of these. *)
LEMMA Scalars ==
    ASSUME NEW v \in Results, ~IsContainer(v)
    PROVE  v \in {Plain, Nan, Native, Object, Frame, Array} \/ \E k \in DOMAIN Stripped : v = Marker(k)
BY EncodingAssumption

(* Some member of a set of results has no other member inside it. *)
LEMMA PartsFirst ==
    ASSUME NEW T \in SUBSET Results, T # {}
    PROVE  \E x \in T : \A y \in T : Depth[x] <= Depth[y] /\ <<y, x>> \notin PartOf
<1> DEFINE depths == {Depth[v] : v \in T}
<1>1. depths \in SUBSET Nat /\ depths # {}
    BY EncodingAssumption
<1>2. PICK n \in depths : \A m \in depths : n <= m
    <2> HIDE DEF depths
    <2> QED BY <1>1, LeastNumber
<1>3. PICK x \in T : n = Depth[x]
    BY <1>2
<1>4. ASSUME NEW y \in T PROVE Depth[x] <= Depth[y] /\ <<y, x>> \notin PartOf
    <2>1. Depth[x] <= Depth[y] /\ Depth[x] \in Nat /\ Depth[y] \in Nat
        BY <1>2, <1>3, EncodingAssumption
    <2>2. <<y, x>> \in PartOf => Depth[y] < Depth[x]
        BY ItemsBefore DEF PartOf
    <2> QED BY <2>1, <2>2
<1> QED BY <1>4

Writing == INSTANCE Recursion WITH S <- Results, R <- PartOf, Def <- BytesOf
Rereading == INSTANCE Recursion WITH S <- Results, R <- PartOf, Def <- RereadOf
Parting == INSTANCE Recursion WITH S <- Results, R <- PartOf, Def <- PartsOf

(* The recursion that writes results defines a function. *)
LEMMA WritingDefined == SerializeToBytes = [v \in Results |-> BytesOf(SerializeToBytes, v)]
<1>1. Writing!WellFounded
    BY PartsFirst DEF Writing!WellFounded
<1>2. Writing!Progressive
    <2> SUFFICES ASSUME NEW f, NEW g, NEW v \in Results,
                        \A y \in Results : <<y, v>> \in PartOf => f[y] = g[y]
                 PROVE  BytesOf(f, v) = BytesOf(g, v)
        BY DEF Writing!Progressive
    <2>1. CASE IsContainer(v)
        <3>1. \A k \in DOMAIN Items(v) : f[Items(v)[k]] = g[Items(v)[k]]
            BY <2>1, ItemsBefore
        <3>2. NestedText(f, Items(v)) = NestedText(g, Items(v))
            BY <3>1 DEF NestedText
        <3> QED BY <3>2 DEF BytesOf
    <2>2. CASE ~IsContainer(v)
        BY <2>2 DEF BytesOf
    <2> QED BY <2>1, <2>2
<1>3. SerializeToBytes = CHOOSE f : f = [v \in Results |-> BytesOf(f, v)]
    BY DEF SerializeToBytes
<1> QED BY <1>1, <1>2, <1>3, Writing!Defines

(* So does the one that says what they are reread as. *)
LEMMA RereadingDefined == Reread = [v \in Results |-> RereadOf(Reread, v)]
<1>1. Rereading!WellFounded
    BY PartsFirst DEF Rereading!WellFounded
<1>2. Rereading!Progressive
    <2> SUFFICES ASSUME NEW f, NEW g, NEW v \in Results,
                        \A y \in Results : <<y, v>> \in PartOf => f[y] = g[y]
                 PROVE  RereadOf(f, v) = RereadOf(g, v)
        BY DEF Rereading!Progressive
    <2>1. IsContainer(v) => \A k \in DOMAIN Items(v) : f[Items(v)[k]] = g[Items(v)[k]]
        BY ItemsBefore
    <2>2. v.kind = "dict" => \A k \in DOMAIN v.items : f[v.items[k]] = g[v.items[k]]
        BY <2>1 DEF IsContainer, Items
    <2>3. v.kind \in {"list", "tuple"} => \A k \in DOMAIN v.elems : f[v.elems[k]] = g[v.elems[k]]
        BY <2>1 DEF IsContainer, Items
    <2> QED BY <2>2, <2>3 DEF RereadOf
<1>3. Reread = CHOOSE f : f = [v \in Results |-> RereadOf(f, v)]
    BY DEF Reread
<1> QED BY <1>1, <1>2, <1>3, Rereading!Defines

(* So does the one that takes them apart. *)
LEMMA PartingDefined == Parts = [v \in Results |-> PartsOf(Parts, v)]
<1>1. Parting!WellFounded
    BY PartsFirst DEF Parting!WellFounded
<1>2. Parting!Progressive
    <2> SUFFICES ASSUME NEW f, NEW g, NEW v \in Results,
                        \A y \in Results : <<y, v>> \in PartOf => f[y] = g[y]
                 PROVE  PartsOf(f, v) = PartsOf(g, v)
        BY DEF Parting!Progressive
    <2>1. IsContainer(v) => \A k \in DOMAIN Items(v) : f[Items(v)[k]] = g[Items(v)[k]]
        BY ItemsBefore
    <2> QED BY <2>1 DEF PartsOf
<1>3. Parts = CHOOSE f : f = [v \in Results |-> PartsOf(f, v)]
    BY DEF Parts
<1> QED BY <1>1, <1>2, <1>3, Parting!Defines

(* The parts of a value, one level at a time. *)
LEMMA PartsUnfolded ==
    ASSUME NEW v \in Results
    PROVE  /\ v \in Parts[v]
           /\ IsContainer(v) =>
                 /\ \A k \in DOMAIN Items(v) : Parts[Items(v)[k]] \subseteq Parts[v]
                 /\ \A p \in Parts[v] : p = v \/ \E k \in DOMAIN Items(v) : p \in Parts[Items(v)[k]]
           /\ ~IsContainer(v) => Parts[v] = {v}
<1>1. Parts[v] = PartsOf(Parts, v)
    BY PartingDefined
<1> QED BY <1>1 DEF PartsOf

(* What comes back of a scalar that can be written *)
Leaf(v) ==
    IF v.kind = "native" THEN Converted
    ELSE IF v.kind = "nan" /\ HasOrjson THEN Null
    ELSE v

(* What Reread is, kind by kind. *)
LEMMA RereadUnfolded ==
    ASSUME NEW v \in Results
    PROVE  /\ v.kind = "dict" => Reread[v] = Dict([k \in DOMAIN v.items |-> Reread[v.items[k]]])
           /\ v.kind \in {"list", "tuple"} =>
                 Reread[v] = List([k \in DOMAIN v.elems |-> Reread[v.elems[k]]])
           /\ v.kind \notin {"dict", "list", "tuple"} => Reread[v] = Leaf(v)
<1>1. Reread[v] = RereadOf(Reread, v)
    BY RereadingDefined
<1>2. /\ v.kind = "dict" => RereadOf(Reread, v) = Dict([k \in DOMAIN v.items |-> Reread[v.items[k]]])
      /\ v.kind \in {"list", "tuple"} =>
                 RereadOf(Reread, v) = List([k \in DOMAIN v.elems |-> Reread[v.elems[k]]])
      /\ v.kind \notin {"dict", "list", "tuple"} => RereadOf(Reread, v) = Leaf(v)
    BY DEF RereadOf, Leaf
<1> QED BY <1>1, <1>2

(* The values that stand for a nested value, or for itself *)
BaseOf(items, k) == IF IsNested(items[k]) THEN Marker(k) ELSE JsonOf(items[k])

(* The bytes of a container, one level at a time. *)
LEMMA BytesOfContainer ==
    ASSUME NEW v \in Results, IsContainer(v)
    PROVE  LET items == Items(v)
               b == SerializeToBytes[v]
               fails(k) == IF IsNested(items[k]) THEN Failed(SerializeToBytes[items[k]])
                                                 ELSE Failed(JsonOf(items[k]))
           IN  /\ Failed(b) <=> \E k \in DOMAIN items : fails(k)
               /\ ~Failed(b) =>
                     /\ b = Written(b.type, b.body)
                     /\ b.type = IF v.kind = "dict" THEN "nested_dict" ELSE "nested_list"
                     /\ b.body.base = [k \in DOMAIN items |-> BaseOf(items, k)]
                     /\ b.body.special = [k \in {m \in DOMAIN items : IsNested(items[m])} |->
                                              SerializeToBytes[items[k]]]
<1> DEFINE items == Items(v)
           b == SerializeToBytes[v]
           fails(k) == IF IsNested(items[k]) THEN Failed(SerializeToBytes[items[k]])
                                             ELSE Failed(JsonOf(items[k]))
           text == NestedText(SerializeToBytes, items)
           nested == {m \in DOMAIN items : IsNested(items[m])}
           base == [k \in DOMAIN items |-> BaseOf(items, k)]
           special == [k \in nested |-> SerializeToBytes[items[k]]]
           type == IF v.kind = "dict" THEN "nested_dict" ELSE "nested_list"
<1>1. b = BytesOf(SerializeToBytes, v)
    BY WritingDefined
<1>2. BytesOf(SerializeToBytes, v) = IF Failed(text) THEN Failure ELSE Written(type, text)
    <2>1. v.kind # "dict" => v.kind \in {"list", "tuple"}
        BY DEF IsContainer
    <2> QED BY <2>1, Zenon DEF BytesOf
<1>3. \A k \in DOMAIN items : IsNested(items[k]) => ~Failed(BaseOf(items, k))
    BY DEF BaseOf, Marker, Failed, Failure
<1>4. text = IF \E k \in DOMAIN items : Failed(base[k]) \/ (k \in nested /\ Failed(special[k]))
             THEN Failure ELSE [base |-> base, special |-> special]
    BY DEF NestedText, BaseOf
<1>5. \A k \in DOMAIN items :
          (Failed(base[k]) \/ (k \in nested /\ Failed(special[k]))) <=> fails(k)
    BY <1>3 DEF BaseOf
<1>6. text = IF \E k \in DOMAIN items : fails(k) THEN Failure ELSE [base |-> base, special |-> special]
    BY <1>4, <1>5
<1>7. ~Failed([base |-> base, special |-> special]) /\ ~Failed(Written(type, text)) /\ Failed(Failure)
    BY DEF Failed, Failure, Written
<1> HIDE DEF items, fails, base, special, type, nested
<1>8. Failed(b) <=> \E k \in DOMAIN items : fails(k)
    BY <1>1, <1>2, <1>6, <1>7
<1>9. ASSUME ~Failed(b)
      PROVE  /\ b = Written(b.type, b.body)
             /\ b.type = type /\ b.body.base = base /\ b.body.special = special
    <2>1. b = Written(type, [base |-> base, special |-> special])
        BY <1>1, <1>2, <1>6, <1>7, <1>8, <1>9
    <2> QED BY <2>1 DEF Written
<1> QED BY <1>8, <1>9 DEF items, fails, base, special, type, nested

(* The bytes of anything else. *)
LEMMA BytesOfScalar ==
    ASSUME NEW v \in Results, ~IsContainer(v)
    PROVE  LET b == SerializeToBytes[v]
           IN  /\ Failed(b) <=> v.kind = "object" \/ (v.kind = "native" /\ ~HasOrjson)
               /\ ~Failed(b) =>
                     /\ b = Written(b.type, b.body)
                     /\ b.type \notin {"nested_dict", "nested_list"}
                     /\ b.body = Leaf(v)
<1> DEFINE b == SerializeToBytes[v]
           body == IF IsSpecial(v) THEN v ELSE JsonOf(v)
<1>1. b = BytesOf(SerializeToBytes, v)
    BY WritingDefined
<1>2. PICK type \in {"arrow_ipc", "numpy_arrow", "orjson", "json"} :
          BytesOf(SerializeToBytes, v) = IF Failed(body) THEN Failure ELSE Written(type, body)
    <2>1. CASE v.kind = "frame"
        BY <2>1, Zenon DEF BytesOf, IsContainer
    <2>2. CASE v.kind = "array"
        BY <2>2, Zenon DEF BytesOf, IsContainer
    <2>3. CASE v.kind \notin {"frame", "array"}
        BY <2>3, Zenon DEF BytesOf, IsContainer
    <2> QED BY <2>1, <2>2, <2>3
<1>3. /\ v.kind \in {"plain", "marker"} => JsonOf(v) = v
      /\ v.kind = "nan" => JsonOf(v) = IF HasOrjson THEN Null ELSE v
      /\ v.kind = "native" => JsonOf(v) = IF HasOrjson THEN Converted ELSE Failure
      /\ v.kind \notin {"plain", "marker", "nan", "native"} => JsonOf(v) = Failure
    BY DEF JsonOf
<1>4. v.kind \in {"plain", "nan", "native", "object", "frame", "array", "marker"}
    BY Scalars DEF Plain, Nan, Native, Object, Frame, Array, Marker
<1>5. ~Failed(v) /\ ~Failed(Converted) /\ ~Failed(Null) /\ Failed(Failure)
    BY <1>4 DEF Failed, Failure, Converted, Null
<1>6. IsSpecial(v) <=> v.kind \in {"frame", "array"}
    BY DEF IsSpecial
<1>7. Failed(body) <=> v.kind = "object" \/ (v.kind = "native" /\ ~HasOrjson)
    BY <1>3, <1>4, <1>5, <1>6
<1>8. ~Failed(body) => body = Leaf(v)
    BY <1>3, <1>4, <1>5, <1>6 DEF Leaf
<1>9. ~Failed(Written(type, body)) /\ Written(type, body).type = type /\ Written(type, body).body = body
    BY DEF Written, Failed, Failure
<1> HIDE DEF body
<1> QED BY <1>1, <1>2, <1>5, <1>7, <1>8, <1>9

-----------------------------------------------------------------------------
(* Bytes to object *)

(* c is one of the special entries of b *)
EntryOf ==
    {p \in Bytes \X Bytes :
        /\ p[2].type \in {"nested_dict", "nested_list"}
        /\ \E k \in DOMAIN p[2].body.special : p[1] = p[2].body.special[k]}

Reading == INSTANCE Recursion WITH S <- Bytes, R <- EntryOf, Def <- ObjectOf

(* Bytes with special entries are those of a container, and the entries    *)
(* are those of what is in it.                                             *)
LEMMA EntriesOfBytes ==
    ASSUME NEW v \in Results, SerializeToBytes[v] \in Bytes,
           SerializeToBytes[v].type \in {"nested_dict", "nested_list"}
    PROVE  LET b == SerializeToBytes[v]
           IN  /\ IsContainer(v)
               /\ b.body.special = [k \in {m \in DOMAIN Items(v) : IsNested(Items(v)[m])} |->
                                        SerializeToBytes[Items(v)[k]]]
               /\ \A k \in DOMAIN b.body.special :
                     /\ k \in DOMAIN Items(v) /\ b.body.special[k] = SerializeToBytes[Items(v)[k]]
                     /\ b.body.special[k] \in Bytes
                     /\ <<b.body.special[k], b>> \in EntryOf
<1> DEFINE b == SerializeToBytes[v]
<1>1. ~Failed(b)
    BY DEF Bytes, Failed
<1>2. IsContainer(v)
    BY <1>1, BytesOfScalar
<1>3. /\ b.body.special = [k \in {m \in DOMAIN Items(v) : IsNested(Items(v)[m])} |->
                               SerializeToBytes[Items(v)[k]]]
      /\ \A k \in DOMAIN Items(v) : IsNested(Items(v)[k]) => ~Failed(SerializeToBytes[Items(v)[k]])
    BY <1>1, <1>2, BytesOfContainer
<1>4. \A k \in DOMAIN Items(v) : Items(v)[k] \in Results
    BY <1>2, ItemsBefore
<1>5. ASSUME NEW k \in DOMAIN b.body.special
      PROVE  /\ k \in DOMAIN Items(v) /\ b.body.special[k] = SerializeToBytes[Items(v)[k]]
             /\ b.body.special[k] \in Bytes
    BY <1>3, <1>4 DEF Bytes, Failed
<1>6. ASSUME NEW k \in DOMAIN b.body.special
      PROVE  <<b.body.special[k], b>> \in EntryOf
    BY <1>5 DEF EntryOf
<1> QED BY <1>2, <1>3, <1>5, <1>6

(* The recursion over bytes defines a function. *)
LEMMA ReadingDefined == ObjectIn = [b \in Bytes |-> ObjectOf(ObjectIn, b)]
<1>1. Reading!WellFounded
    <2> SUFFICES ASSUME NEW T \in SUBSET Bytes, T # {}
                 PROVE  \E b \in T : \A c \in T : <<c, b>> \notin EntryOf
        BY DEF Reading!WellFounded
    <2> DEFINE W == {v \in Results : SerializeToBytes[v] \in T}
    <2>1. W \in SUBSET Results /\ W # {}
        BY DEF Bytes
    <2>2. PICK v \in W : \A w \in W : Depth[v] <= Depth[w] /\ <<w, v>> \notin PartOf
        <3> HIDE DEF W
        <3> QED BY <2>1, PartsFirst
    <2> DEFINE b == SerializeToBytes[v]
    <2>3. ASSUME NEW c \in T, <<c, b>> \in EntryOf
          PROVE  FALSE
        <3>1. PICK k \in DOMAIN b.body.special : c = b.body.special[k]
            BY <2>3 DEF EntryOf
        <3>2. b \in Bytes /\ b.type \in {"nested_dict", "nested_list"}
            BY <2>3 DEF EntryOf
        <3>3. IsContainer(v) /\ k \in DOMAIN Items(v) /\ c = SerializeToBytes[Items(v)[k]]
            BY <3>1, <3>2, EntriesOfBytes
        <3>4. Items(v)[k] \in W /\ <<Items(v)[k], v>> \in PartOf
            BY <2>3, <3>3, ItemsBefore
        <3> QED BY <2>2, <3>4
    <2> QED BY <2>3
<1>2. Reading!Progressive
    <2> SUFFICES ASSUME NEW f, NEW g, NEW b \in Bytes,
                        \A c \in Bytes : <<c, b>> \in EntryOf => f[c] = g[c]
                 PROVE  ObjectOf(f, b) = ObjectOf(g, b)
        BY DEF Reading!Progressive
    <2>1. PICK v \in Results : b = SerializeToBytes[v]
        BY DEF Bytes
    <2>2. CASE b.type \notin {"nested_dict", "nested_list"}
        BY <2>2 DEF ObjectOf
    <2>3. CASE b.type \in {"nested_dict", "nested_list"}
        <3>1. \A k \in DOMAIN b.body.special : f[b.body.special[k]] = g[b.body.special[k]]
            BY <2>1, <2>3, EntriesOfBytes
        <3> QED BY <3>1 DEF ObjectOf
    <2> QED BY <2>2, <2>3
<1>3. ObjectIn = CHOOSE f : f = [b \in Bytes |-> ObjectOf(f, b)]
    BY DEF ObjectIn
<1> QED BY <1>1, <1>2, <1>3, Reading!Defines

(* What is read of the item k of a container *)
ItemRead(v, k) ==
    LET items == Items(v)
        base == BaseOf(items, k)
        name == IF v.kind = "dict" THEN Stripped[base.of] ELSE k
    IN  IF base.kind # "marker" THEN base
        ELSE IF name \in DOMAIN items /\ IsNested(items[name]) THEN ObjectIn[SerializeToBytes[items[name]]]
        ELSE Failure

(* What is read of a container, one level at a time. *)
LEMMA ObjectOfContainer ==
    ASSUME NEW v \in Results, IsContainer(v), ~Failed(SerializeToBytes[v])
    PROVE  ObjectIn[SerializeToBytes[v]] =
               IF \E k \in DOMAIN Items(v) : Failed(ItemRead(v, k)) THEN Failure
               ELSE IF v.kind = "dict" THEN Dict([k \in DOMAIN v.items |-> ItemRead(v, k)])
               ELSE List([k \in DOMAIN v.elems |-> ItemRead(v, k)])
<1> DEFINE b == SerializeToBytes[v]
           items == Items(v)
           base == b.body.base
           special == b.body.special
           name(k) == IF b.type = "nested_dict" THEN Stripped[base[k].of] ELSE k
           read(k) == IF base[k].kind # "marker" THEN base[k]
                      ELSE IF name(k) \in DOMAIN special THEN ObjectIn[special[name(k)]]
                      ELSE Failure
<1>1. b \in Bytes
    BY DEF Bytes, Failed
<1>2. ObjectIn[b] = ObjectOf(ObjectIn, b)
    BY <1>1, ReadingDefined
<1>3. /\ b.type = IF v.kind = "dict" THEN "nested_dict" ELSE "nested_list"
      /\ base = [k \in DOMAIN items |-> BaseOf(items, k)]
      /\ special = [k \in {m \in DOMAIN items : IsNested(items[m])} |-> SerializeToBytes[items[k]]]
    BY BytesOfContainer
<1>4. ObjectOf(ObjectIn, b) =
          IF \E k \in DOMAIN base : Failed(read(k)) THEN Failure
          ELSE IF b.type = "nested_dict" THEN Dict([k \in DOMAIN base |-> read(k)])
          ELSE List([k \in DOMAIN base |-> read(k)])
    BY <1>3 DEF ObjectOf
<1>5. DOMAIN base = DOMAIN items
    BY <1>3
<1>6. \A k \in DOMAIN items : read(k) = ItemRead(v, k)
    <2> SUFFICES ASSUME NEW k \in DOMAIN items PROVE read(k) = ItemRead(v, k)
        OBVIOUS
    <2>1. base[k] = BaseOf(items, k)
        BY <1>3
    <2>2. name(k) = IF v.kind = "dict" THEN Stripped[BaseOf(items, k).of] ELSE k
        BY <1>3, <2>1
    <2>3. \A m : m \in DOMAIN special <=> m \in DOMAIN items /\ IsNested(items[m])
        BY <1>3
    <2>4. \A m \in DOMAIN special : special[m] = SerializeToBytes[items[m]]
        BY <1>3
    <2> HIDE DEF base, special, name, items
    <2> QED BY <2>1, <2>2, <2>3, <2>4 DEF ItemRead, items
<1>7. items = IF v.kind = "dict" THEN v.items ELSE v.elems
    BY DEF Items
<1> HIDE DEF read, base, items
<1> QED BY <1>2, <1>3, <1>4, <1>5, <1>6, <1>7 DEF items

-----------------------------------------------------------------------------
(* What bytes hold *)

(* A container is serialisable, marked or confused if something in it is. *)
LEMMA Inherited ==
    ASSUME NEW v \in Results, IsContainer(v)
    PROVE  /\ Serialisable(v) <=> \A k \in DOMAIN Items(v) : Serialisable(Items(v)[k])
           /\ ~Marked(v) => \A k \in DOMAIN Items(v) : ~Marked(Items(v)[k])
           /\ ~Confused(v) => \A k \in DOMAIN Items(v) : ~Confused(Items(v)[k])
<1>1. /\ v \in Parts[v]
      /\ \A k \in DOMAIN Items(v) : Parts[Items(v)[k]] \subseteq Parts[v]
      /\ \A p \in Parts[v] : p = v \/ \E k \in DOMAIN Items(v) : p \in Parts[Items(v)[k]]
    BY PartsUnfolded
<1>2. v.kind # "object" /\ v.kind # "native"
    BY DEF IsContainer
<1> QED BY <1>1, <1>2 DEF Serialisable, Marked, Confused

(* A scalar that is not written apart is in the text as it reads back. *)
LEMMA ScalarJson ==
    ASSUME NEW v \in Results, ~IsContainer(v), ~IsSpecial(v)
    PROVE  /\ Failed(JsonOf(v)) <=> v.kind = "object" \/ (v.kind = "native" /\ ~HasOrjson)
           /\ v.kind = "marker" => JsonOf(v) = v
           /\ v.kind # "marker" => JsonOf(v).kind # "marker"
           /\ ~Failed(JsonOf(v)) => JsonOf(v) = Reread[v]
<1>1. v.kind \in {"plain", "nan", "native", "object", "marker"}
    BY Scalars DEF Plain, Nan, Native, Object, Frame, Array, Marker, IsSpecial
<1>2. /\ v.kind \in {"plain", "marker"} => JsonOf(v) = v
      /\ v.kind = "nan" => JsonOf(v) = IF HasOrjson THEN Null ELSE v
      /\ v.kind = "native" => JsonOf(v) = IF HasOrjson THEN Converted ELSE Failure
      /\ v.kind = "object" => JsonOf(v) = Failure
    BY DEF JsonOf
<1>3. ~Failed(v) /\ ~Failed(Converted) /\ ~Failed(Null) /\ Failed(Failure)
    BY <1>1 DEF Failed, Failure, Converted, Null
<1>4. Converted.kind # "marker" /\ Null.kind # "marker" /\ Failure.kind # "marker"
    BY DEF Converted, Null, Failure
<1>5. Reread[v] = Leaf(v)
    BY <1>1, RereadUnfolded
<1> QED BY <1>1, <1>2, <1>3, <1>4, <1>5 DEF Leaf

(* A result comes back as a value, not as a failure. *)
LEMMA RereadSucceeds ==
    ASSUME NEW v \in Results
    PROVE  ~Failed(Reread[v])
<1>1. CASE IsContainer(v)
    <2>1. PICK f : Reread[v] = Dict(f) \/ Reread[v] = List(f)
        BY <1>1, RereadUnfolded DEF IsContainer
    <2> QED BY <2>1 DEF Failed, Failure, Dict, List
<1>2. CASE ~IsContainer(v)
    <2>1. Reread[v] = Leaf(v)
        BY <1>2, RereadUnfolded DEF IsContainer
    <2>2. v.kind \in {"plain", "nan", "native", "object", "frame", "array", "marker"}
        BY <1>2, Scalars DEF Plain, Nan, Native, Object, Frame, Array, Marker
    <2> QED BY <2>1, <2>2 DEF Failed, Failure, Converted, Null, Leaf
<1> QED BY <1>1, <1>2

(* Bytes are made of a result exactly if it is serialisable. *)
LEMMA WrittenIfSerialisable ==
    ASSUME NEW r \in Results
    PROVE  Serialisable(r) <=> ~Failed(SerializeToBytes[r])
<1> DEFINE Right(v) == Serialisable(v) <=> ~Failed(SerializeToBytes[v])
           T == {v \in Results : ~Right(v)}
<1>1. SUFFICES ASSUME T # {} PROVE FALSE
    OBVIOUS
<1>2. PICK v \in T : \A w \in T : Depth[v] <= Depth[w] /\ <<w, v>> \notin PartOf
    <2>1. T \in SUBSET Results
        OBVIOUS
    <2> HIDE DEF T
    <2> QED BY <1>1, <2>1, PartsFirst
<1>3. CASE ~IsContainer(v)
    <2>1. Parts[v] = {v}
        BY <1>3, PartsUnfolded
    <2>2. Failed(SerializeToBytes[v]) <=> v.kind = "object" \/ (v.kind = "native" /\ ~HasOrjson)
        BY <1>3, BytesOfScalar
    <2> QED BY <2>1, <2>2 DEF Serialisable
<1>4. CASE IsContainer(v)
    <2> DEFINE items == Items(v)
    <2>1. ASSUME NEW k \in DOMAIN items
          PROVE  Serialisable(items[k]) <=>
                     ~(IF IsNested(items[k]) THEN Failed(SerializeToBytes[items[k]])
                                             ELSE Failed(JsonOf(items[k])))
        <3>1. items[k] \in Results /\ <<items[k], v>> \in PartOf
            BY <1>4, ItemsBefore
        <3>2. Right(items[k])
            BY <1>2, <3>1
        <3>3. CASE ~IsNested(items[k])
            <4>1. /\ ~IsContainer(items[k]) /\ ~IsSpecial(items[k])
                BY <3>3 DEF IsNested
            <4>2. Failed(SerializeToBytes[items[k]]) <=>
                      items[k].kind = "object" \/ (items[k].kind = "native" /\ ~HasOrjson)
                BY <3>1, <4>1, BytesOfScalar
            <4>3. Failed(JsonOf(items[k])) <=>
                      items[k].kind = "object" \/ (items[k].kind = "native" /\ ~HasOrjson)
                BY <3>1, <4>1, ScalarJson
            <4> QED BY <3>2, <3>3, <4>2, <4>3
        <3> QED BY <3>2, <3>3
    <2>2. Failed(SerializeToBytes[v]) <=>
              \E k \in DOMAIN items : IF IsNested(items[k]) THEN Failed(SerializeToBytes[items[k]])
                                                           ELSE Failed(JsonOf(items[k]))
        BY <1>4, BytesOfContainer
    <2>3. Serialisable(v) <=> \A k \in DOMAIN items : Serialisable(items[k])
        BY <1>4, Inherited
    <2> HIDE DEF items
    <2> QED BY <2>1, <2>2, <2>3
<1> QED BY <1>3, <1>4

(* What is read of an item that a reader is not led astray from. *)
LEMMA ItemsComeBack ==
    ASSUME NEW v \in Results, IsContainer(v), ~Failed(SerializeToBytes[v]),
           \A k \in DOMAIN Items(v) : Faithful(Items(v)[k]),
           NEW k \in DOMAIN Items(v),
           \/ ~Marked(v)
           \/ ~Confused(v) /\ ~Failed(ItemRead(v, k))
    PROVE  ItemRead(v, k) = Reread[Items(v)[k]] /\ ~Failed(ItemRead(v, k))
<1> DEFINE items == Items(v)
           base == BaseOf(items, k)
           name == IF v.kind = "dict" THEN Stripped[base.of] ELSE k
<1>1. /\ items[k] \in Results
      /\ IF IsNested(items[k]) THEN ~Failed(SerializeToBytes[items[k]]) ELSE ~Failed(JsonOf(items[k]))
    BY ItemsBefore, BytesOfContainer
<1>2. CASE IsNested(items[k])
    <2>1. base = Marker(k)
        BY <1>2 DEF BaseOf
    <2>2. base.kind = "marker" /\ base.of = k
        BY <2>1 DEF Marker
    <2>3. ItemRead(v, k) = IF name \in DOMAIN items /\ IsNested(items[name])
                           THEN ObjectIn[SerializeToBytes[items[name]]] ELSE Failure
        BY <2>2 DEF ItemRead
    <2>4. name = k
        <3>1. CASE v.kind # "dict"
            BY <3>1
        <3>2. CASE v.kind = "dict" /\ ~Marked(v)
            <4>1. v \in Parts[v]
                BY PartsUnfolded
            <4> QED BY <2>2, <3>2, <4>1 DEF Marked, Items
        <3>3. CASE v.kind = "dict" /\ ~Confused(v) /\ ~Failed(ItemRead(v, k))
            <4>1. v \in Parts[v]
                BY PartsUnfolded
            <4>2. name = Stripped[k]
                BY <2>2, <3>3
            <4>3. name \in DOMAIN items /\ IsNested(items[name])
                BY <2>3, <3>3 DEF Failed
            <4>4. /\ k \in DOMAIN v.items /\ name \in DOMAIN v.items
                  /\ IsNested(v.items[k]) /\ IsNested(v.items[name])
                BY <1>2, <3>3, <4>3 DEF Items
            <4> HIDE DEF name
            <4> QED BY <3>3, <4>1, <4>2, <4>4 DEF Confused
        <3> QED BY <3>1, <3>2, <3>3
    <2> DEFINE b == SerializeToBytes[items[k]]
    <2>5. ItemRead(v, k) = ObjectIn[b]
        BY <1>2, <2>3, <2>4
    <2>6. b = Written(b.type, b.body)
        BY <1>1, <1>2, BytesOfContainer, BytesOfScalar
    <2>7. /\ ~Failed(b) => \/ ObjectIn[b] = Reread[items[k]]
                           \/ Marked(items[k]) /\ (Failed(ObjectIn[b]) \/ Confused(items[k]))
        BY <2>6 DEF Faithful, DeserializeFromBytes
    <2>8. ObjectIn[b] = Reread[items[k]]
        BY <1>1, <1>2, <2>5, <2>7, Inherited
    <2> QED BY <1>1, <2>5, <2>8, RereadSucceeds
<1>3. CASE ~IsNested(items[k])
    <2>1. /\ ~IsContainer(items[k]) /\ ~IsSpecial(items[k])
        BY <1>3 DEF IsNested
    <2>2. base = JsonOf(items[k])
        BY <1>3 DEF BaseOf
    <2>3. /\ items[k].kind = "marker" => JsonOf(items[k]) = items[k]
          /\ items[k].kind # "marker" => JsonOf(items[k]).kind # "marker"
          /\ JsonOf(items[k]) = Reread[items[k]]
        BY <1>1, <1>3, <2>1, ScalarJson
    <2>4. CASE items[k].kind # "marker"
        BY <1>1, <2>2, <2>3, <2>4, RereadSucceeds DEF ItemRead
    <2>5. CASE items[k].kind = "marker"
        <3>1. Marked(v)
            <4>1. items[k] \in Parts[items[k]] /\ Parts[items[k]] \subseteq Parts[v]
                BY <1>1, PartsUnfolded
            <4> QED BY <2>5, <4>1 DEF Marked
        <3>2. ~Confused(v) /\ ~Failed(ItemRead(v, k))
            BY <3>1
        <3>3. base = items[k]
            BY <2>2, <2>3, <2>5
        <3>4. name \in DOMAIN items /\ IsNested(items[name])
            BY <2>5, <3>2, <3>3 DEF ItemRead, Failed
        <3>5. name # k
            BY <1>3, <3>4
        <3>6. v.kind = "dict"
            BY <3>5
        <3>7. /\ k \in DOMAIN v.items /\ name \in DOMAIN v.items
              /\ ~IsNested(v.items[k]) /\ IsNested(v.items[name])
              /\ v.items[k].kind = "marker" /\ name = Stripped[v.items[k].of]
            BY <1>3, <2>5, <3>3, <3>4, <3>6 DEF Items
        <3>8. v \in Parts[v]
            BY PartsUnfolded
        <3> HIDE DEF name
        <3> QED BY <3>2, <3>5, <3>6, <3>7, <3>8 DEF Confused
    <2> QED BY <2>4, <2>5
<1> QED BY <1>2, <1>3

(* Every result is encoded faithfully. *)
LEMMA AllFaithful ==
    ASSUME NEW r \in Results
    PROVE  Faithful(r)
<1> DEFINE T == {v \in Results : ~Faithful(v)}
<1>1. SUFFICES ASSUME T # {} PROVE FALSE
    OBVIOUS
<1>2. PICK v \in T : \A w \in T : Depth[v] <= Depth[w] /\ <<w, v>> \notin PartOf
    <2>1. T \in SUBSET Results
        OBVIOUS
    <2> HIDE DEF T
    <2> QED BY <1>1, <2>1, PartsFirst
<1> DEFINE b == SerializeToBytes[v]
           back == ObjectIn[b]
<1>3. SUFFICES ASSUME ~Failed(b)
               PROVE  back = Reread[v] \/ (Marked(v) /\ (Failed(back) \/ Confused(v)))
    <2>1. ~Failed(b) => b = Written(b.type, b.body)
        BY BytesOfContainer, BytesOfScalar
    <2>2. Serialisable(v) <=> ~Failed(b)
        BY WrittenIfSerialisable
    <2> QED BY <1>2, <2>1, <2>2 DEF Faithful, DeserializeFromBytes
<1>4. CASE ~IsContainer(v)
    <2>1. /\ b \in Bytes /\ b.type \notin {"nested_dict", "nested_list"}
          /\ b.body = Leaf(v)
        BY <1>3, <1>4, BytesOfScalar DEF Bytes, Failed
    <2>2. back = b.body
        BY <2>1, ReadingDefined DEF ObjectOf
    <2>3. Reread[v] = Leaf(v)
        BY <1>4, RereadUnfolded DEF IsContainer
    <2> QED BY <2>1, <2>2, <2>3
<1>5. CASE IsContainer(v)
    <2> DEFINE items == Items(v)
    <2>1. \A k \in DOMAIN items : Faithful(items[k])
        BY <1>2, <1>5, ItemsBefore
    <2>2. back = IF \E k \in DOMAIN items : Failed(ItemRead(v, k)) THEN Failure
                 ELSE IF v.kind = "dict" THEN Dict([k \in DOMAIN v.items |-> ItemRead(v, k)])
                 ELSE List([k \in DOMAIN v.elems |-> ItemRead(v, k)])
        BY <1>3, <1>5, ObjectOfContainer
    <2>3. Reread[v] = IF v.kind = "dict" THEN Dict([k \in DOMAIN v.items |-> Reread[v.items[k]]])
                      ELSE List([k \in DOMAIN v.elems |-> Reread[v.elems[k]]])
        BY <1>5, RereadUnfolded DEF IsContainer
    <2>4. items = IF v.kind = "dict" THEN v.items ELSE v.elems
        BY DEF Items
    <2>5. SUFFICES ASSUME ~Marked(v) \/ (~Confused(v) /\ ~Failed(back))
                   PROVE  back = Reread[v]
        OBVIOUS
    <2>6. ~Marked(v) \/ (~Confused(v) /\ \A k \in DOMAIN items : ~Failed(ItemRead(v, k)))
        BY <2>2, <2>5 DEF Failed
    <2>7. \A k \in DOMAIN items : ItemRead(v, k) = Reread[items[k]] /\ ~Failed(ItemRead(v, k))
        BY <1>3, <1>5, <2>1, <2>6, ItemsComeBack
    <2> HIDE DEF items, back
    <2> QED BY <2>2, <2>3, <2>4, <2>7
<1> QED BY <1>4, <1>5

-----------------------------------------------------------------------------
(* Compression and encryption *)

(* A box opens for its own maker only, and bare bytes are in no box. *)
LEMMA Boxes ==
    ASSUME NEW by, NEW d
    PROVE  /\ \A with : Opened(Box(by, d), with) = IF by = with THEN d ELSE Failure
           /\ \A body, what, x : Opened(Bare(body), <<what, x>>) = Failure
           /\ Box(by, d).box = by
           /\ ~Failed(Box(by, d))
BY DEF Opened, Box, Bare, Failed, Failure

(* What one configuration did to the bytes is undone by one that can, and  *)
(* by any other it is left in a box or refused: none reads other bytes.    *)
LEMMA UndoTransform ==
    ASSUME NEW w, NEW r, NEW body
    PROVE  LET back == Undo(r, Transform(w, Bare(body)), Stages(w))
           IN  /\ Undoes(r, w) => back = Bare(body)
               /\ Failed(back) \/ back.box # <<>> \/ back = Bare(body)
<1> DEFINE d == Bare(body)
           read == Undo(r, Transform(w, d), Stages(w))
<1>1. \A what, x : Opened(d, <<what, x>>) = Failure
    BY Boxes
<1>2. \A what, x : Opened(Failure, <<what, x>>) = Failure
    BY DEF Opened, Failed
<1> SUFFICES (Undoes(r, w) => read = d) /\ (Failed(read) \/ read.box # <<>> \/ read = d)
    OBVIOUS
<1> HIDE DEF d
<1>3. CASE Compressor(w) = "none" /\ ~HasKey(w)
    <2>1. Stages(w) = {} /\ Transform(w, d) = d /\ Undo(r, d, Stages(w)) = d
        BY <1>3 DEF Stages, Transform, Undo, Reversed
    <2> QED BY <2>1
<1>4. CASE Compressor(w) # "none" /\ ~HasKey(w)
    <2> DEFINE packed == Box(<<"compress", Compressor(w)>>, d)
    <2>1. Stages(w) = {"compress"} /\ Transform(w, d) = packed
        BY <1>4 DEF Stages, Transform, Compress
    <2>2. Undo(r, packed, Stages(w)) = IF "compress" \in Stages(r) THEN Decompress(r, packed) ELSE packed
        BY <2>1 DEF Undo, Reversed
    <2>3. Decompress(r, packed) = IF Compressor(r) = Compressor(w) THEN d ELSE Failure
        BY Boxes DEF Decompress
    <2>4. packed.box # <<>>
        BY Boxes
    <2>5. "compress" \in Stages(r) <=> Compressor(r) # "none"
        BY DEF Stages
    <2> HIDE DEF packed
    <2> QED BY <1>4, <2>1, <2>2, <2>3, <2>4, <2>5 DEF Failed, Undoes
<1>5. CASE HasKey(w)
    <2> DEFINE packed == IF Compressor(w) # "none" THEN Box(<<"compress", Compressor(w)>>, d) ELSE d
               locked == Box(<<"encrypt", Encryptor(w).pair>>, packed)
               unlocked == IF HasKey(r) THEN Decrypt(r, locked) ELSE locked
    <2>1. /\ Transform(w, d) = locked
          /\ "encrypt" \in Stages(w)
          /\ "compress" \in Stages(w) <=> Compressor(w) # "none"
          /\ "encrypt" \in Stages(r) <=> HasKey(r)
          /\ "compress" \in Stages(r) <=> Compressor(r) # "none"
        BY <1>5 DEF Stages, Transform, Compress, Encrypt
    <2>2. Undo(r, locked, Stages(w)) =
              IF Compressor(r) # "none" /\ Compressor(w) # "none"
              THEN Decompress(r, unlocked) ELSE unlocked
        BY <2>1 DEF Undo, Reversed
    <2>3. Decrypt(r, locked) =
              IF Encryptor(r).private /\ Encryptor(r).pair = Encryptor(w).pair THEN packed ELSE Failure
        BY Boxes DEF Decrypt
    <2>4. Decompress(r, locked) = Failure /\ Decompress(r, Failure) = Failure
        BY <1>2, Boxes DEF Decompress
    <2>5. Compressor(w) # "none" =>
              /\ Decompress(r, packed) = IF Compressor(r) = Compressor(w) THEN d ELSE Failure
              /\ packed.box # <<>>
        <3> SUFFICES ASSUME Compressor(w) # "none"
                     PROVE  /\ Decompress(r, packed) =
                                   IF Compressor(r) = Compressor(w) THEN d ELSE Failure
                            /\ packed.box # <<>>
            OBVIOUS
        <3>1. packed = Box(<<"compress", Compressor(w)>>, d)
            OBVIOUS
        <3> HIDE DEF packed
        <3> QED BY <3>1, Boxes DEF Decompress
    <2>6. locked.box # <<>>
        BY Boxes
    <2>7. Compressor(w) = "none" => packed = d
        OBVIOUS
    <2>8. HasKey(r) <=> Encryptor(r).pair # 0
        BY DEF HasKey
    <2>9. HasKey(w) <=> Encryptor(w).pair # 0
        BY DEF HasKey
    <2> DEFINE opens == HasKey(r) /\ Encryptor(r).private /\ Encryptor(r).pair = Encryptor(w).pair
               back == Undo(r, locked, Stages(w))
    <2> HIDE DEF packed, locked
    <2>10. CASE opens
        <3>1. unlocked = packed
            BY <2>3, <2>10
        <3>2. CASE Compressor(w) = "none"
            BY <1>5, <2>1, <2>2, <2>7, <2>8, <2>9, <2>10, <3>1, <3>2 DEF Undoes
        <3>3. CASE Compressor(w) # "none" /\ Compressor(r) = "none"
            <4>1. back = packed /\ packed.box # <<>>
                BY <2>2, <2>5, <3>1, <3>3
            <4> QED BY <2>1, <3>3, <4>1 DEF Undoes
        <3>4. CASE Compressor(w) # "none" /\ Compressor(r) # "none"
            <4>1. back = IF Compressor(r) = Compressor(w) THEN d ELSE Failure
                BY <2>2, <2>5, <3>1, <3>4
            <4> QED BY <2>1, <3>4, <4>1 DEF Undoes, Failed
        <3> QED BY <3>2, <3>3, <3>4
    <2>11. CASE ~opens
        <3>1. unlocked = Failure \/ unlocked = locked
            BY <2>3, <2>11
        <3>2. back = Failure \/ back = locked
            BY <2>2, <2>4, <3>1
        <3>3. ~Undoes(r, w)
            BY <1>5, <2>8, <2>9, <2>11 DEF Undoes
        <3> QED BY <2>1, <2>6, <3>2, <3>3 DEF Failed
    <2> QED BY <2>10, <2>11
<1> QED BY <1>3, <1>4, <1>5
(* What the writer's bytes hold is what any reader gets, if it gets        *)
(* anything; and it gets it if it can undo what the writer did.            *)
LEMMA ReadBack ==
    ASSUME NEW v, Faithful(v), NEW w, NEW r
    PROVE  LET row == Serialize(w, v)
               back == DeserializeFromBytes(SerializeToBytes[v].type, SerializeToBytes[v].body)
           IN  /\ Failed(row) <=> ~Serialisable(v)
               /\ ~Failed(row) =>
                      /\ Undoes(r, w) => Deserialize(r, row) = back
                      /\ Failed(Deserialize(r, row)) \/ Deserialize(r, row) = back
<1> DEFINE b == SerializeToBytes[v]
           row == Serialize(w, v)
           back == DeserializeFromBytes(b.type, b.body)
           data == Undo(r, Transform(w, Bare(b.body)), Stages(w))
<1>1. CASE Failed(b)
    BY <1>1 DEF Faithful, Serialize, Failed
<1>2. CASE ~Failed(b)
    <2>1. row = Row(b.type, Stages(w), Transform(w, Bare(b.body)))
        BY <1>2 DEF Serialize
    <2>2. /\ ~Failed(row)
          /\ row.type = b.type /\ row.applied = Stages(w) /\ row.data = Transform(w, Bare(b.body))
        BY <2>1 DEF Row, Failed, Failure
    <2>3. /\ Undoes(r, w) => data = Bare(b.body)
          /\ Failed(data) \/ data.box # <<>> \/ data = Bare(b.body)
        BY UndoTransform
    <2>4. Deserialize(r, row) = IF Failed(data) \/ data.box # <<>> THEN Failure
                                ELSE DeserializeFromBytes(b.type, data.data)
        BY <2>2 DEF Deserialize
    <2>5. LET d == Bare(b.body) IN ~Failed(d) /\ d.box = <<>> /\ d.data = b.body
        BY DEF Bare, Failed, Failure
    <2> HIDE DEF row, data
    <2>6. Undoes(r, w) => Deserialize(r, row) = back
        BY <2>3, <2>4, <2>5
    <2>7. Failed(Deserialize(r, row)) \/ Deserialize(r, row) = back
        BY <2>3, <2>4, <2>5 DEF Failed
    <2>8. Serialisable(v)
        BY <1>2 DEF Faithful
    <2> QED BY <2>2, <2>6, <2>7, <2>8 DEF row
<1> QED BY <1>1, <1>2

(* Compressing all and then encrypting all gives the rows that one result  *)
(* after the other gives, with other data where a thread did harm.         *)
LEMMA StageByStage ==
    ASSUME NEW cfg, NEW vs, \A i \in DOMAIN vs : ~Failed(SerializeToBytes[vs[i]]),
           NEW harmed, NEW i \in DOMAIN vs
    PROVE  LET rows == Locked(cfg, Packed(cfg, BareRows(vs), harmed))
               single == Serialize(cfg, vs[i])
           IN  /\ rows = [k \in DOMAIN vs |-> rows[k]]
               /\ rows[i].type = single.type /\ rows[i].applied = single.applied
               /\ i \notin harmed => rows[i] = single
<1> DEFINE bare == BareRows(vs)
           packed == Packed(cfg, bare, harmed)
           locked == Locked(cfg, packed)
           b == SerializeToBytes[vs[i]]
           d == Bare(b.body)
           data == IF Compressor(cfg) = "none" THEN d
                   ELSE IF i \in harmed THEN Damaged ELSE Compress(cfg, d)
           stages == IF Compressor(cfg) = "none" THEN {} ELSE {"compress"}
<1>1. bare = [k \in DOMAIN vs |-> bare[k]] /\ bare[i] = Row(b.type, {}, d)
    BY DEF BareRows
<1> HIDE DEF bare
<1>2. /\ packed = [k \in DOMAIN vs |-> packed[k]]
      /\ packed[i] = IF Compressor(cfg) = "none" THEN bare[i]
                     ELSE Row(bare[i].type, bare[i].applied \cup {"compress"},
                              IF i \in harmed THEN Damaged ELSE Compress(cfg, bare[i].data))
    BY <1>1 DEF Packed
<1> HIDE DEF packed
<1>3. /\ locked = [k \in DOMAIN vs |-> locked[k]]
      /\ locked[i] = IF ~HasKey(cfg) THEN packed[i]
                     ELSE Row(packed[i].type, packed[i].applied \cup {"encrypt"},
                              Encrypt(cfg, packed[i].data))
    BY <1>2 DEF Locked
<1> HIDE DEF locked, b, d
<1>4. bare[i].type = b.type /\ bare[i].applied = {} /\ bare[i].data = d
    BY <1>1 DEF Row
<1>5. packed[i] = Row(b.type, stages, data)
    BY <1>1, <1>2, <1>4
<1> HIDE DEF data, stages
<1>6. packed[i].type = b.type /\ packed[i].applied = stages /\ packed[i].data = data
    BY <1>5 DEF Row
<1>7. locked[i] = Row(b.type, stages \cup (IF HasKey(cfg) THEN {"encrypt"} ELSE {}),
                      IF HasKey(cfg) THEN Encrypt(cfg, data) ELSE data)
    BY <1>3, <1>5, <1>6
<1>8. Stages(cfg) = stages \cup (IF HasKey(cfg) THEN {"encrypt"} ELSE {})
    BY DEF Stages, stages
<1>9. Serialize(cfg, vs[i]) = Row(b.type, Stages(cfg), Transform(cfg, d))
    BY DEF Serialize, b, d
<1>10. i \notin harmed => Transform(cfg, d) = IF HasKey(cfg) THEN Encrypt(cfg, data) ELSE data
    BY DEF Transform, Stages, data
<1>11. locked[i].type = Serialize(cfg, vs[i]).type /\ locked[i].applied = Serialize(cfg, vs[i]).applied
    BY <1>7, <1>8, <1>9 DEF Row
<1>12. i \notin harmed => locked[i] = Serialize(cfg, vs[i])
    BY <1>7, <1>8, <1>9, <1>10
<1> QED BY <1>3, <1>11, <1>12 DEF locked, packed, bare

(* All rows of a batch, harmed as they are. *)
LEMMA RowsOfBatch ==
    ASSUME NEW cfg, NEW vs, \A i \in DOMAIN vs : ~Failed(SerializeToBytes[vs[i]]), NEW harmed
    PROVE  LET rows == Locked(cfg, Packed(cfg, BareRows(vs), harmed))
           IN  /\ harmed = {} => rows = Singles(cfg, vs)
               /\ Types(rows) = Types(Singles(cfg, vs))
<1> DEFINE bare == BareRows(vs)
           packed == Packed(cfg, bare, harmed)
           rows == Locked(cfg, packed)
           singles == Singles(cfg, vs)
<1>1. rows = [k \in DOMAIN vs |-> rows[k]]
    <2>1. bare = [k \in DOMAIN vs |-> bare[k]]
        BY DEF BareRows
    <2> HIDE DEF bare
    <2>2. packed = [k \in DOMAIN vs |-> packed[k]]
        BY <2>1 DEF Packed
    <2> HIDE DEF packed
    <2> QED BY <2>2 DEF Locked
<1>2. singles = [k \in DOMAIN vs |-> singles[k]]
    BY DEF Singles
<1>3. ASSUME NEW i \in DOMAIN vs
      PROVE  /\ rows[i].type = singles[i].type /\ rows[i].applied = singles[i].applied
             /\ i \notin harmed => rows[i] = singles[i]
    BY StageByStage DEF Singles
<1> HIDE DEF rows, singles
<1>4. harmed = {} => rows = singles
    BY <1>1, <1>2, <1>3
<1>5. Types(rows) = Types(singles)
    BY <1>1, <1>2, <1>3 DEF Types
<1> QED BY <1>4, <1>5 DEF rows, packed, bare, singles

(* The outcomes of a batch: those of storing one by one, and under zstd in *)
(* a long batch an exception or rows of the same types.                    *)
LEMMA BatchOutcomes ==
    ASSUME NEW cfg, NEW vs, \A i \in DOMAIN vs : ~Failed(SerializeToBytes[vs[i]])
    PROVE  /\ Singles(cfg, vs) \in SerializeBatch(cfg, vs)
           /\ Len(vs) <= 3 \/ Compressor(cfg) # "zstd" => SerializeBatch(cfg, vs) = {Singles(cfg, vs)}
           /\ \A batch \in SerializeBatch(cfg, vs) \ {<<>>} : Types(batch) = Types(Singles(cfg, vs))
<1> DEFINE rows(harmed) == Locked(cfg, Packed(cfg, BareRows(vs), harmed))
<1>1. CASE Len(vs) <= 3 \/ Stages(cfg) = {}
    BY <1>1 DEF SerializeBatch, Singles
<1>2. CASE ~(Len(vs) <= 3 \/ Stages(cfg) = {})
    <2>1. SerializeBatch(cfg, vs) = {rows(harmed) : harmed \in SUBSET Exposed(cfg, vs)}
                                    \cup (IF Exposed(cfg, vs) = {} THEN {} ELSE {<<>>})
        BY <1>2 DEF SerializeBatch, SerializeBatchOptimized
    <2>2. /\ rows({}) = Singles(cfg, vs)
          /\ \A harmed : Types(rows(harmed)) = Types(Singles(cfg, vs))
        BY RowsOfBatch
    <2>3. Compressor(cfg) # "zstd" => Exposed(cfg, vs) = {}
        BY DEF Exposed
    <2> HIDE DEF rows
    <2>4. Singles(cfg, vs) \in SerializeBatch(cfg, vs)
        <3>1. rows({}) \in SerializeBatch(cfg, vs)
            BY <2>1
        <3> QED BY <2>2, <3>1
    <2>5. Compressor(cfg) # "zstd" => SerializeBatch(cfg, vs) = {Singles(cfg, vs)}
        BY <2>1, <2>2, <2>3
    <2>6. \A batch \in SerializeBatch(cfg, vs) \ {<<>>} : Types(batch) = Types(Singles(cfg, vs))
        BY <2>1, <2>2
    <2> QED BY <1>2, <2>4, <2>5, <2>6
<1> QED BY <1>1, <1>2

-----------------------------------------------------------------------------
(* What the one step of a behaviour makes of its input *)

(* Each step takes an input of the kind it is about. *)
LEMMA OneInput ==
    ASSUME Next
    PROVE  /\ input'.about = "value" => TakeValue
           /\ input'.about = "batch" => TakeBatch
           /\ input'.about = "list" => TakeList
           /\ input'.about = "pattern" => TakePattern
           /\ input'.about = "configuration" => TakeConfiguration
           /\ input'.about = "thresholds" => TakeThresholds
<1>1. TakeValue => input'.about = "value"
    BY DEF TakeValue
<1>2. TakeBatch => input'.about = "batch"
    BY DEF TakeBatch
<1>3. TakeList => input'.about = "list"
    BY DEF TakeList
<1>4. TakePattern => input'.about = "pattern"
    BY DEF TakePattern
<1>5. TakeConfiguration => input'.about = "configuration"
    BY DEF TakeConfiguration
<1>6. TakeThresholds => input'.about = "thresholds"
    BY DEF TakeThresholds
<1> QED BY <1>1, <1>2, <1>3, <1>4, <1>5, <1>6 DEF Next

(* Bytes are made of every result that can be serialised, and hold it: it   *)
(* comes back as it was, unless it has placeholder text in it, for results *)
(* of any shape and depth (serializer.py:316-482, 537-603).                *)
THEOREM ResultsEncodedFaithfully == Spec => []EncodesFaithfully
<1>1. Init => EncodesFaithfully
    BY DEF Init, EncodesFaithfully
<1>2. EncodesFaithfully /\ [Next]_vars => EncodesFaithfully'
    <2>1. ASSUME TakeValue PROVE EncodesFaithfully'
        <3>1. PICK v \in Results, w \in Setups, r \in Setups :
                  input' = [about |-> "value", value |-> v, writer |-> w, reader |-> r]
            BY <2>1 DEF TakeValue
        <3>2. input'.value = v
            BY <3>1
        <3>3. Faithful(v)
            BY AllFaithful
        <3> QED BY <3>2, <3>3 DEF EncodesFaithfully, Faithful
    <2>2. CASE Next
        BY <2>1, <2>2, OneInput DEF EncodesFaithfully
    <2>3. CASE UNCHANGED vars
        BY <2>3 DEF vars, EncodesFaithfully, Faithful
    <2> QED BY <2>2, <2>3
<1> QED BY <1>1, <1>2, PTL DEF Spec

(* Compressed and encrypted bytes hold it too: a reader that can undo what *)
(* the writer did gets the result back (serializer.py:61-125,              *)
(* pipeline.py:60-206), for all configurations.                            *)
THEOREM ResultsComeBack == Spec => []RoundTrip
<1>1. Init => RoundTrip
    BY DEF Init, RoundTrip
<1>2. RoundTrip /\ [Next]_vars => RoundTrip'
    <2>1. ASSUME TakeValue PROVE RoundTrip'
        <3>1. PICK v \in Results, w \in Setups, r \in Setups :
                  input' = [about |-> "value", value |-> v, writer |-> w, reader |-> r]
            BY <2>1 DEF TakeValue
        <3>2. Faithful(v)
            BY AllFaithful
        <3>3. ~Marked(v) /\ Serialisable(v) => DeserializeFromBytes(SerializeToBytes[v].type, SerializeToBytes[v].body) = Reread[v]
            BY <3>2 DEF Faithful
        <3>4. LET row == Serialize(w, v)
              IN  IF Serialisable(v)
                  THEN Undoes(r, w) /\ ~Marked(v) => Deserialize(r, row) = Reread[v]
                  ELSE Failed(row)
            BY <3>2, <3>3, ReadBack
        <3> QED BY <3>1, <3>4 DEF RoundTrip
    <2>2. CASE Next
        BY <2>1, <2>2, OneInput DEF RoundTrip
    <2>3. CASE UNCHANGED vars
        BY <2>3 DEF vars, RoundTrip
    <2> QED BY <2>2, <2>3
<1> QED BY <1>1, <1>2, PTL DEF Spec

(* And whatever the reader is configured for, it gets that or nothing: no  *)
(* change of compression, key or backend garbles a result                  *)
(* (pipeline.py:156-206, zstd.py:108-146, age.py:88-113).                  *)
THEOREM ResultsNeverGarbled == Spec => []NeverGarbled
<1>1. Init => NeverGarbled
    BY DEF Init, NeverGarbled
<1>2. NeverGarbled /\ [Next]_vars => NeverGarbled'
    <2>1. ASSUME TakeValue PROVE NeverGarbled'
        <3>1. PICK v \in Results, w \in Setups, r \in Setups :
                  input' = [about |-> "value", value |-> v, writer |-> w, reader |-> r]
            BY <2>1 DEF TakeValue
        <3> DEFINE back == DeserializeFromBytes(SerializeToBytes[v].type, SerializeToBytes[v].body)
                   row == Serialize(w, v)
        <3>2. Faithful(v)
            BY AllFaithful
        <3>3. Serialisable(v) => back = Reread[v] \/ Failed(back) \/ Confused(v)
            BY <3>2 DEF Faithful
        <3>4. ~Failed(row) => Serialisable(v) /\ (Failed(Deserialize(r, row)) \/ Deserialize(r, row) = back)
            BY <3>2, ReadBack
        <3> HIDE DEF back
        <3>5. ~Failed(row) => \/ Failed(Deserialize(r, row))
                              \/ Deserialize(r, row) = Reread[v]
                              \/ Confused(v)
            BY <3>3, <3>4
        <3> QED BY <3>1, <3>5 DEF NeverGarbled
    <2>2. CASE Next
        BY <2>1, <2>2, OneInput DEF NeverGarbled
    <2>3. CASE UNCHANGED vars
        BY <2>3 DEF vars, NeverGarbled
    <2> QED BY <2>2, <2>3
<1> QED BY <1>1, <1>2, PTL DEF Spec

(* A batch of any length gives the rows that its results give one by one,  *)
(* or none if one of them fails; but long batches under zstd may give an   *)
(* exception or rows with other data (serializer.py:127-202, zstd.py:45).  *)
THEOREM BatchesLikeSingles == Spec => []BatchLikeSingles
<1>1. Init => BatchLikeSingles
    BY DEF Init, BatchLikeSingles
<1>2. BatchLikeSingles /\ [Next]_vars => BatchLikeSingles'
    <2>1. ASSUME TakeBatch PROVE BatchLikeSingles'
        <3>1. PICK vs \in Batches, w \in Setups :
                  input' = [about |-> "batch", values |-> vs, writer |-> w]
            BY <2>1 DEF TakeBatch
        <3>2. \A i \in DOMAIN vs : Serialisable(vs[i]) <=> ~Failed(SerializeToBytes[vs[i]])
            BY AlgorithmsAssumption, WrittenIfSerialisable
        <3>3. input'.values = vs /\ input'.writer = w
            BY <3>1
        <3>4. CASE \A i \in DOMAIN vs : Serialisable(vs[i])
            <4>1. \A i \in DOMAIN vs : ~Failed(SerializeToBytes[vs[i]])
                BY <3>2, <3>4
            <4> QED BY <3>3, <3>4, <4>1, BatchOutcomes DEF BatchLikeSingles
        <3>5. CASE ~(\A i \in DOMAIN vs : Serialisable(vs[i]))
            <4>1. SerializeBatch(w, vs) = {<<>>}
                BY <3>2, <3>5 DEF SerializeBatch
            <4> QED BY <3>3, <3>5, <4>1 DEF BatchLikeSingles
        <3> QED BY <3>4, <3>5
    <2>2. CASE Next
        BY <2>1, <2>2, OneInput DEF BatchLikeSingles
    <2>3. CASE UNCHANGED vars
        BY <2>3 DEF vars, BatchLikeSingles
    <2> QED BY <2>2, <2>3
<1> QED BY <1>1, <1>2, PTL DEF Spec

-----------------------------------------------------------------------------
(* Batches of entries *)

(* A non-empty set of numbers up to n has a greatest member. *)
LEMMA Greatest ==
    ASSUME NEW n \in Nat, NEW S \in SUBSET (1..n), S # {}
    PROVE  Max(S) \in S /\ \A i \in S : i <= Max(S)
<1> DEFINE T == {n - i : i \in S}
<1>1. T \in SUBSET Nat
    <2> SUFFICES ASSUME NEW i \in S PROVE n - i \in Nat
        OBVIOUS
    <2>1. i \in 1..n
        OBVIOUS
    <2> QED BY <2>1
<1>2. PICK x \in T : \A y \in T : x <= y
    <2>1. T # {}
        OBVIOUS
    <2> HIDE DEF T
    <2> QED BY <1>1, <2>1, LeastNumber
<1>3. PICK i \in S : x = n - i
    BY <1>2
<1>4. ASSUME NEW j \in S
      PROVE  i >= j
    <2>1. n - i <= n - j
        BY <1>2, <1>3
    <2> QED BY <2>1
<1>5. \E m \in S : \A j \in S : m >= j
    BY <1>4
<1> QED BY <1>5 DEF Max

(* The entries of a batch are stored as one store for each would, unless   *)
(* they share a dict of metadata and differ in mode, for any length of     *)
(* batch and any entries left out (storage_ops.py:273-392, core.py:346).   *)
THEOREM BatchesStoredLikeSingles == Spec => []BatchStoredLikeSingles
<1>1. Init => BatchStoredLikeSingles
    BY DEF Init, BatchStoredLikeSingles
<1>2. BatchStoredLikeSingles /\ [Next]_vars => BatchStoredLikeSingles'
    <2>1. ASSUME TakeList PROVE BatchStoredLikeSingles'
        <3>1. PICK b \in Lists : input' = [about |-> "list", list |-> b]
            BY <2>1 DEF TakeList
        <3> DEFINE oneMode == \A i, j \in Stored(b) : ActualMode(b, i) = ActualMode(b, j)
                   sharing(i) == {m \in Stored(b) : Metadata(b, m) = Metadata(b, i)}
        <3>2. PICK n \in Nat : DOMAIN b.entries = 1..n
            BY AlgorithmsAssumption
        <3>3. ASSUME b.metadata = "shared" => oneMode, NEW i \in Stored(b)
              PROVE  ActualMode(b, Max(sharing(i))) = ActualMode(b, i)
            <4>1. i \in sharing(i) /\ sharing(i) \in SUBSET (1..n)
                BY <3>2 DEF Stored
            <4>2. Max(sharing(i)) \in sharing(i)
                BY <4>1, Greatest
            <4>3. CASE b.metadata = "shared"
                BY <3>3, <4>2, <4>3
            <4>4. CASE b.metadata # "shared"
                BY <4>2, <4>4 DEF Metadata
            <4> QED BY <4>3, <4>4
        <3>4. (b.metadata = "shared" => oneMode) =>
                  StoredTogether(b) = [i \in Stored(b) |-> StoredAlone(b, i)]
            BY <3>3 DEF StoredTogether, StoredAlone
        <3> QED BY <3>1, <3>4 DEF BatchStoredLikeSingles
    <2>2. CASE Next
        BY <2>1, <2>2, OneInput DEF BatchStoredLikeSingles
    <2>3. CASE UNCHANGED vars
        BY <2>3 DEF vars, BatchStoredLikeSingles
    <2> QED BY <2>2, <2>3
<1> QED BY <1>1, <1>2, PTL DEF Spec

-----------------------------------------------------------------------------
(* Configurations *)

(* Whatever cache was there before, the configuration in force was         *)
(* accepted, and if it asks for encryption nothing is stored in the clear  *)
(* (config.py:91-167, lancedb.py:25-51, 77-116).                           *)
THEOREM AcceptedIsApplied == Spec => []AcceptedApplied
<1>1. Init => AcceptedApplied
    BY DEF Init, AcceptedApplied
<1>2. AcceptedApplied /\ [Next]_vars => AcceptedApplied'
    <2>1. ASSUME TakeConfiguration PROVE AcceptedApplied'
        <3>1. PICK earlier \in Earlier, given \in Configurations :
                  input' = [about |-> "configuration", earlier |-> earlier, cfg |-> given]
            BY <2>1 DEF TakeConfiguration
        <3> DEFINE cfg == InForce(earlier, given)
        <3>2. /\ cfg # given => cfg = earlier /\ Initialises(earlier)
              /\ Valid(given) => Valid(cfg)
            BY DEF InForce, Initialises
        <3>3. cfg.encryption_enabled => Encryption(cfg) # None
            <4> HIDE DEF cfg
            <4> QED BY AlgorithmsAssumption DEF Encryption
        <3>4. Valid(cfg) => /\ cfg.compression_enabled => Compression(cfg) = cfg.compression_algorithm
                            /\ ~cfg.compression_enabled => Compression(cfg) = "none"
            <4> HIDE DEF cfg
            <4> QED BY DEF Valid, Compression
        <3>5. input'.earlier = earlier /\ input'.cfg = given
            BY <3>1
        <3> HIDE DEF cfg
        <3> QED BY <3>2, <3>3, <3>4, <3>5 DEF AcceptedApplied, cfg
    <2>2. CASE Next
        BY <2>1, <2>2, OneInput DEF AcceptedApplied
    <2>3. CASE UNCHANGED vars
        BY <2>3 DEF vars, AcceptedApplied
    <2> QED BY <2>2, <2>3
<1> QED BY <1>1, <1>2, PTL DEF Spec

(* With its "key:value" entries before its "key" entries, a list of        *)
(* context thresholds of any length gives the most specific match or the   *)
(* default (config.py:169-187).                                            *)
THEOREM SortedIsMostSpecific == Spec => []MostSpecific
<1>1. Init => MostSpecific
    BY DEF Init, MostSpecific
<1>2. MostSpecific /\ [Next]_vars => MostSpecific'
    <2>1. ASSUME TakeThresholds PROVE MostSpecific'
        <3>1. PICK ts \in ThresholdLists, context \in LookupContexts :
                  input' = [about |-> "thresholds", thresholds |-> ts, context |-> context]
            BY <2>1 DEF TakeThresholds
        <3> DEFINE fit == {i \in DOMAIN ts : Applies(ts[i], context)}
                   best == {i \in fit : ts[i].value # None \/ \A j \in fit : ts[j].value = None}
                   sorted == \A i, j \in DOMAIN ts : i < j /\ ts[i].value = None => ts[j].value = None
                   first == CHOOSE i \in fit : \A j \in fit : i <= j
        <3>2. fit \in SUBSET Nat
            BY AlgorithmsAssumption
        <3>3. CASE fit = {}
            <4>1. best = {} /\ ThresholdFor(ts, Default, context) = Default
                BY <3>3 DEF ThresholdFor
            <4> QED BY <3>1, <4>1 DEF MostSpecific
        <3>4. CASE fit # {}
            <4>1. \E i \in fit : \A j \in fit : i <= j
                BY <3>2, <3>4, LeastNumber
            <4>2. first \in fit /\ \A j \in fit : first <= j
                BY <4>1
            <4>3. ThresholdFor(ts, Default, context) = ts[first].threshold
                BY <3>4 DEF ThresholdFor
            <4>4. sorted => first \in best
                <5> SUFFICES ASSUME sorted, ts[first].value = None, NEW j \in fit
                             PROVE  ts[j].value = None
                    BY <4>2
                <5>1. first < j \/ first = j
                    BY <3>2, <4>2
                <5> QED BY <4>2, <5>1
            <4> HIDE DEF first
            <4> QED BY <3>1, <4>3, <4>4 DEF MostSpecific
        <3> QED BY <3>3, <3>4
    <2>2. CASE Next
        BY <2>1, <2>2, OneInput DEF MostSpecific
    <2>3. CASE UNCHANGED vars
        BY <2>3 DEF vars, MostSpecific
    <2> QED BY <2>2, <2>3
<1> QED BY <1>1, <1>2, PTL DEF Spec

-----------------------------------------------------------------------------
(* Patterns *)

(* A context pair or an age more selects no more rows, for any pattern and *)
(* any row (types.py:177-202).                                             *)
THEOREM MoreCriteriaSelectLess == Spec => []MoreSelectsLess
<1>1. Init => MoreSelectsLess
    BY DEF Init, MoreSelectsLess
<1>2. MoreSelectsLess /\ [Next]_vars => MoreSelectsLess'
    <2>1. ASSUME TakePattern PROVE MoreSelectsLess'
        <3>1. PICK p \in BulkPatterns, row \in StoredRows :
                  \E more \in {[p EXCEPT !.context_matches = With(@, pair[1], pair[2])] :
                                  pair \in {x \in Pairs : x[1] \notin DOMAIN p.context_matches}}
                              \cup {[p EXCEPT !.older_than_seconds = a] :
                                        a \in IF p.older_than_seconds = None THEN Ages ELSE {}} :
                      input' = [about |-> "pattern", pattern |-> p, more |-> more, row |-> row]
            BY <2>1 DEF TakePattern
        <3>2. IsPattern(p)
            BY AlgorithmsAssumption
        <3>3. ASSUME NEW pair \in Pairs, pair[1] \notin DOMAIN p.context_matches
              PROVE  LET more == [p EXCEPT !.context_matches = With(@, pair[1], pair[2])]
                     IN  Selects(more, row) => Selects(p, row)
            <4> DEFINE wider == With(p.context_matches, pair[1], pair[2])
                       more == [p EXCEPT !.context_matches = wider]
            <4>1. \A k \in DOMAIN p.context_matches : k \in DOMAIN wider /\ wider[k] = p.context_matches[k]
                BY <3>3 DEF With
            <4> HIDE DEF wider
            <4>2. /\ more.context_matches = wider
                  /\ more.query_regex = p.query_regex /\ more.query_prefix = p.query_prefix
                  /\ more.query_suffix = p.query_suffix
                  /\ more.older_than_seconds = p.older_than_seconds
                BY <3>2 DEF IsPattern
            <4> HIDE DEF more
            <4>3. MatchesContext(more, row.context) => MatchesContext(p, row.context)
                BY <4>1, <4>2 DEF MatchesContext
            <4>4. Selects(more, row) => Selects(p, row)
                BY <4>2, <4>3 DEF Selects, MatchesQuery, MatchesAge
            <4> QED BY <4>4 DEF more, wider
        <3>4. ASSUME p.older_than_seconds = None, NEW a \in Ages
              PROVE  LET more == [p EXCEPT !.older_than_seconds = a]
                     IN  Selects(more, row) => Selects(p, row)
            <4> DEFINE more == [p EXCEPT !.older_than_seconds = a]
            <4>1. /\ more.context_matches = p.context_matches
                  /\ more.query_regex = p.query_regex /\ more.query_prefix = p.query_prefix
                  /\ more.query_suffix = p.query_suffix
                BY <3>2 DEF IsPattern
            <4> HIDE DEF more
            <4>2. Selects(more, row) => Selects(p, row)
                BY <3>4, <4>1 DEF Selects, MatchesQuery, MatchesContext, MatchesAge
            <4> QED BY <4>2 DEF more
        <3> QED BY <3>1, <3>3, <3>4 DEF MoreSelectsLess
    <2>2. CASE Next
        BY <2>1, <2>2, OneInput DEF MoreSelectsLess
    <2>3. CASE UNCHANGED vars
        BY <2>3 DEF vars, MoreSelectsLess
    <2> QED BY <2>2, <2>3
<1> QED BY <1>1, <1>2, PTL DEF Spec

(* Without wildcards, character i of the pattern is matched by character i *)
(* of the text.                                                            *)
LEMMA CutOneByOne ==
    ASSUME NEW pattern, Text(pattern), NEW text, Text(text), ~HasWildcard(pattern),
           NEW cut \in [0..Len(pattern) -> 0..Len(text)], Divides(cut, pattern, text)
    PROVE  \A i \in 0..Len(pattern) : cut[i] = i
<1> DEFINE n == Len(pattern)
           T == {i \in 0..n : cut[i] # i}
<1>1. n \in Nat /\ \A i \in 0..n : cut[i] \in Nat
    BY DEF Text
<1>2. \A i \in 1..n : cut[i] = cut[i - 1] + 1
    BY DEF Divides, HasWildcard, Contains
<1>3. ASSUME T # {}
      PROVE  FALSE
    <2>1. PICK i \in T : \A j \in T : i <= j
        <3>1. T \in SUBSET Nat
            BY <1>1
        <3> HIDE DEF T
        <3> QED BY <1>3, <3>1, LeastNumber
    <2>2. i \in 0..n /\ cut[i] # i
        OBVIOUS
    <2>3. i # 0
        BY <2>2 DEF Divides
    <2>4. i \in 1..n /\ i - 1 \in 0..n
        BY <1>1, <2>2, <2>3
    <2>5. i - 1 \notin T
        BY <2>1, <2>4
    <2>6. cut[i - 1] = i - 1
        BY <2>4, <2>5
    <2> QED BY <1>1, <1>2, <2>2, <2>4, <2>6
<1> QED BY <1>3

(* So it matches its own text, with or without a newline at the end. *)
LEMMA LiteralMatch ==
    ASSUME NEW pattern, Text(pattern), NEW text, Text(text), ~HasWildcard(pattern)
    PROVE  MatchWildcard(pattern, text) <=> pattern \in {text, Chomped(text)}
<1> DEFINE n == Len(pattern)
           m == Len(text)
<1>1. /\ pattern \in Seq(STRING) /\ text \in Seq(STRING) /\ n \in Nat /\ m \in Nat
      /\ text = <<>> <=> m = 0
    BY DEF Text
<1>2. ASSUME NEW cut \in [0..n -> 0..m], Divides(cut, pattern, text),
             cut[n] = m \/ (cut[n] = m - 1 /\ text[m] = "newline")
      PROVE  pattern \in {text, Chomped(text)}
    <2>1. \A i \in 0..n : cut[i] = i
        BY <1>2, CutOneByOne
    <2>2. \A i \in 1..n : pattern[i] = text[i]
        BY <1>1, <1>2, <2>1 DEF Divides, HasWildcard, Contains
    <2>3. CASE n = m
        <3>1. pattern = text
            BY <1>1, <2>2, <2>3
        <3> QED BY <3>1
    <2>4. CASE n = m - 1 /\ text[m] = "newline"
        <3>1. Chomped(text) = SubSeq(text, 1, m - 1)
            BY <1>1, <2>4 DEF Chomped, Front, Last
        <3>2. pattern = SubSeq(text, 1, m - 1)
            BY <1>1, <2>2, <2>4
        <3> QED BY <3>1, <3>2
    <2> QED BY <1>1, <1>2, <2>1, <2>3, <2>4
<1>3. ASSUME pattern \in {text, Chomped(text)}
      PROVE  MatchWildcard(pattern, text)
    <2>1. \/ n = m
          \/ n = m - 1 /\ text[m] = "newline"
        BY <1>1, <1>3 DEF Chomped, Front, Last
    <2>2. \A i \in 1..n : pattern[i] = text[i]
        BY <1>1, <1>3 DEF Chomped, Front, Last
    <2> DEFINE cut == [i \in 0..n |-> i]
    <2>3. cut \in [0..n -> 0..m]
        BY <1>1, <2>1
    <2>4. Divides(cut, pattern, text)
        BY <1>1, <2>2 DEF Divides, HasWildcard, Contains
    <2>5. cut[n] = n
        BY <1>1
    <2> HIDE DEF cut
    <2> QED BY <2>1, <2>3, <2>4, <2>5 DEF MatchWildcard
<1> QED BY <1>2, <1>3 DEF MatchWildcard

(* Without wildcards a context pattern of any size selects the contexts    *)
(* that have its keys with its values, whatever their text, and no others  *)
(* (types.py:177-196, 218-222).                                            *)
THEOREM LiteralPatterns == Spec => []LiteralMeansEqual
<1>1. Init => LiteralMeansEqual
    BY DEF Init, LiteralMeansEqual
<1>2. LiteralMeansEqual /\ [Next]_vars => LiteralMeansEqual'
    <2>1. ASSUME TakePattern PROVE LiteralMeansEqual'
        <3>1. PICK p \in BulkPatterns, row \in StoredRows :
                  /\ input'.pattern = p /\ input'.row = row
            BY <2>1 DEF TakePattern
        <3> DEFINE m == p.context_matches
                   c == row.context
                   same(pattern, text) == pattern \in {text, Chomped(text)}
        <3>2. IsContext(m) /\ IsContext(c)
            BY AlgorithmsAssumption DEF IsPattern
        <3>3. ASSUME \A k \in DOMAIN m : ~HasWildcard(k) /\ ~HasWildcard(m[k])
              PROVE  MatchesContext(p, c) <=> \A k \in DOMAIN m :
                                                 /\ \E x \in DOMAIN c : same(k, x)
                                                 /\ \A x \in DOMAIN c : same(k, x) => same(m[k], c[x])
            <4>1. \A k \in DOMAIN m, x \in DOMAIN c :
                     /\ MatchWildcard(k, x) <=> same(k, x)
                     /\ MatchWildcard(m[k], c[x]) <=> same(m[k], c[x])
                BY <3>2, <3>3, LiteralMatch DEF IsContext
            <4>2. \A k \in DOMAIN m : m[k] # <<"*">>
                BY <3>3 DEF HasWildcard, Contains
            <4> HIDE DEF same
            <4> QED BY <3>3, <4>1, <4>2 DEF MatchesContext
        <3> QED BY <3>1, <3>3 DEF LiteralMeansEqual
    <2>2. CASE Next
        BY <2>1, <2>2, OneInput DEF LiteralMeansEqual
    <2>3. CASE UNCHANGED vars
        BY <2>3 DEF vars, LiteralMeansEqual
    <2> QED BY <2>2, <2>3
<1> QED BY <1>1, <1>2, PTL DEF Spec
=============================================================================
