------------------------------ MODULE Encoding ------------------------------
(***************************************************************************)
(* How a result becomes bytes and comes back: _serialize_to_bytes and      *)
(* _deserialize_from_bytes of serialization/serializer.py.  What           *)
(* compression and encryption do to the bytes is in Serialization.         *)
(*                                                                         *)
(* Values are terms:                                                       *)
(*   [kind |-> "plain"]           text, finite numbers, booleans, None     *)
(*   [kind |-> "nan"]             NaN and the infinities                   *)
(*   [kind |-> "native"]          what orjson writes as something else:    *)
(*       dates and UUIDs as text, dataclasses as dicts, enums as values    *)
(*   [kind |-> "object"]          what no serialiser takes, dicts with     *)
(*       keys that are no text and integers beyond 64 bits included        *)
(*   [kind |-> "marker", of |-> k]  the text "__special__k"                *)
(*   [kind |-> "frame"]           Arrow, Pandas and Polars tables, and     *)
(*   [kind |-> "array"]           NumPy arrays, as Arrow keeps them        *)
(*   [kind |-> "dict", items |-> a function on keys]                       *)
(*   [kind |-> "list", elems |-> a sequence], and "tuple"                  *)
(* Bytes are a base type and what was written.                             *)
(***************************************************************************)
EXTENDS Optional, Naturals

CONSTANTS
    HasOrjson,      \* whether orjson is installed
    Stripped,       \* Stripped[k]: the key k without any "__special__" in it
    Results,        \* the results there may be, and the values inside them
    Depth           \* Depth[v]: how deeply v is nested

Plain == [kind |-> "plain"]
Nan == [kind |-> "nan"]
Null == [kind |-> "null"]
Native == [kind |-> "native"]
Converted == [kind |-> "converted"]
Object == [kind |-> "object"]
Frame == [kind |-> "frame"]
Array == [kind |-> "array"]
Marker(k) == [kind |-> "marker", of |-> k]
Dict(items) == [kind |-> "dict", items |-> items]
List(elems) == [kind |-> "list", elems |-> elems]
Tuple(elems) == [kind |-> "tuple", elems |-> elems]

(* The values in a container, by key or by index *)
Items(v) == IF v.kind = "dict" THEN v.items ELSE v.elems

IsContainer(v) == v.kind \in {"dict", "list", "tuple"}
IsSpecial(v) == v.kind \in {"frame", "array"}

(* A value inside a container that is written apart: a placeholder takes   *)
(* its place.  Every container counts, as its type starts with "nested_".  *)
IsNested(v) == IsSpecial(v) \/ IsContainer(v)

(* Results are terms, and what is inside them is nested less deeply: a     *)
(* list that contains itself cannot be written (RecursionError).           *)
ASSUME EncodingAssumption ==
    /\ HasOrjson \in BOOLEAN
    /\ Depth \in [Results -> Nat]
    /\ \A v \in Results :
          \/ v \in {Plain, Nan, Native, Object, Frame, Array}
          \/ \E k \in DOMAIN Stripped : v = Marker(k)
          \/ /\ IsContainer(v)
             /\ v \in {Dict(Items(v)), List(Items(v)), Tuple(Items(v))}
             /\ v.kind = "dict" => DOMAIN v.items \subseteq DOMAIN Stripped
             /\ Items(v) = [k \in DOMAIN Items(v) |-> Items(v)[k]]
             /\ \A k \in DOMAIN Items(v) :
                   Items(v)[k] \in Results /\ Depth[Items(v)[k]] < Depth[v]

-----------------------------------------------------------------------------
(* Object to bytes *)

(* Mutant of JsonOf: what JSON does not know is written as text *)
JsonOfAnything(v) ==
    CASE v.kind \in {"plain", "marker"} -> v
      [] v.kind = "nan" -> IF HasOrjson THEN Null ELSE v
      [] OTHER -> Converted

(* What a JSON text of a scalar reads back as.  orjson has no NaN and no   *)
(* infinities, and writes null; the json module writes and reads them.     *)
JsonOf(v) ==
    CASE v.kind \in {"plain", "marker"} -> v
      [] v.kind = "nan" -> IF HasOrjson THEN Null ELSE v
      [] v.kind = "native" /\ HasOrjson -> Converted
      [] OTHER -> Failure

Written(type, body) == [type |-> type, body |-> body]

(* The values of a container, base and special: a nested value is replaced *)
(* by the text "__special__" and its key, or its index in a list.  bytes   *)
(* are those of the nested values.                                         *)
NestedText(bytes, items) ==
    LET nested == {k \in DOMAIN items : IsNested(items[k])}
        special == [k \in nested |-> bytes[items[k]]]
        base == [k \in DOMAIN items |-> IF k \in nested THEN Marker(k) ELSE JsonOf(items[k])]
    IN  IF \E k \in DOMAIN items : Failed(base[k]) \/ (k \in nested /\ Failed(special[k]))
        THEN Failure
        ELSE [base |-> base, special |-> special]

BytesOf(bytes, v) ==
    LET type == CASE v.kind = "dict" -> "nested_dict"
                  [] v.kind \in {"list", "tuple"} -> "nested_list"
                  [] v.kind = "frame" -> "arrow_ipc"
                  [] v.kind = "array" -> "numpy_arrow"
                  [] OTHER -> IF HasOrjson THEN "orjson" ELSE "json"
        body == IF IsContainer(v) THEN NestedText(bytes, Items(v))
                ELSE IF IsSpecial(v) THEN v
                ELSE JsonOf(v)
    IN  IF Failed(body) THEN Failure ELSE Written(type, body)

(* _serialize_to_bytes *)
SerializeToBytes[v \in Results] == BytesOf(SerializeToBytes, v)

(* The bytes there may be *)
Bytes == {SerializeToBytes[v] : v \in Results} \ {Failure}

-----------------------------------------------------------------------------
(* Bytes to object *)

(* Mutant of DeserializeFromBytes: a nested value is put back as it was    *)
(* written                                                                 *)
DeserializeShallow(type, body) ==
    LET name(k) == IF type = "nested_dict" THEN Stripped[body.base[k].of] ELSE k
        read == [k \in DOMAIN body.base |->
                    IF body.base[k].kind # "marker" THEN body.base[k]
                    ELSE IF name(k) \in DOMAIN body.special THEN body.special[name(k)].body
                    ELSE Failure]
    IN  IF type \notin {"nested_dict", "nested_list"} THEN body
        ELSE IF \E k \in DOMAIN read : Failed(read[k]) THEN Failure
        ELSE IF type = "nested_dict" THEN Dict(read)
        ELSE List(read)

(* In a container any text that begins like a placeholder is taken for     *)
(* one: it names its special entry by what is left of the text (in a dict) *)
(* or by its own index (in a list).                                        *)
ObjectOf(object, bytes) ==
    LET type == bytes.type
        base == bytes.body.base
        special == bytes.body.special
        name(k) == IF type = "nested_dict" THEN Stripped[base[k].of] ELSE k
        read == [k \in DOMAIN base |->
                    IF base[k].kind # "marker" THEN base[k]
                    ELSE IF name(k) \in DOMAIN special THEN object[special[name(k)]]
                    ELSE Failure]
    IN  IF type \notin {"nested_dict", "nested_list"} THEN bytes.body
        ELSE IF \E k \in DOMAIN read : Failed(read[k]) THEN Failure
        ELSE IF type = "nested_dict" THEN Dict(read)
        ELSE List(read)

ObjectIn[bytes \in Bytes] == ObjectOf(ObjectIn, bytes)

(* _deserialize_from_bytes *)
DeserializeFromBytes(type, body) == ObjectIn[Written(type, body)]

-----------------------------------------------------------------------------
(* What a caller may expect *)

RereadOf(reread, v) ==
    CASE v.kind = "native" -> Converted
      [] v.kind = "nan" /\ HasOrjson -> Null
      [] v.kind = "dict" -> Dict([k \in DOMAIN v.items |-> reread[v.items[k]]])
      [] v.kind \in {"list", "tuple"} -> List([k \in DOMAIN v.elems |-> reread[v.elems[k]]])
      [] OTHER -> v

(* The value a result comes back as: tuples as lists, what orjson writes   *)
(* as something else as that, and NaN and the infinities as None           *)
Reread[v \in Results] == RereadOf(Reread, v)

PartsOf(parts, v) ==
    {v} \cup (IF IsContainer(v) THEN UNION {parts[Items(v)[k]] : k \in DOMAIN Items(v)} ELSE {})

(* v and all the values inside it *)
Parts[v \in Results] == PartsOf(Parts, v)

(* v holds text that begins like a placeholder, or has a key with          *)
(* "__special__" in it                                                     *)
Marked(v) ==
    \E p \in Parts[v] :
        \/ p.kind = "marker"
        \/ p.kind = "dict" /\ \E k \in DOMAIN p.items : Stripped[k] # k

(* v holds a dict with a text or key that leads to another key's value *)
Confused(v) ==
    \E p \in Parts[v] :
        /\ p.kind = "dict"
        /\ \E k \in DOMAIN p.items : \E m \in DOMAIN p.items :
              /\ IsNested(p.items[m]) /\ m # k
              /\ m = IF IsNested(p.items[k]) THEN Stripped[k]
                     ELSE IF p.items[k].kind = "marker" THEN Stripped[p.items[k].of]
                     ELSE k

Serialisable(v) ==
    \A p \in Parts[v] : p.kind # "object" /\ (p.kind = "native" => HasOrjson)
=============================================================================
