---------------------------- MODULE Serialization ----------------------------
(***************************************************************************)
(* How the bytes of a result become a row and are read back:               *)
(* serialization/serializer.py and pipeline.py, with the compressors and   *)
(* the encryptor as boxes that only the matching one opens.  How a result  *)
(* becomes bytes is in Encoding.                                           *)
(*                                                                         *)
(* Data are the bytes and the boxes around them.  A type descriptor is the *)
(* base type and the set of transformations named before it.               *)
(***************************************************************************)
EXTENDS Encoding, Sequences

-----------------------------------------------------------------------------
(* The pipeline *)

(* A configuration says whether and how results are compressed and under   *)
(* which key they are encrypted; a key is one half of a pair.              *)
Compressor(cfg) ==
    IF cfg.compression_enabled THEN cfg.compression_algorithm ELSE "none"

Encryptor(cfg) == IF cfg.encryption_enabled THEN cfg.key ELSE [pair |-> 0, private |-> FALSE]

HasKey(cfg) == Encryptor(cfg).pair # 0

Bare(body) == [box |-> <<>>, data |-> body]
Box(by, d) == [box |-> by, data |-> d]

(* A stage of the pipeline does or undoes one transformation *)
Compress(cfg, d) == Box(<<"compress", Compressor(cfg)>>, d)
Encrypt(cfg, d) == Box(<<"encrypt", Encryptor(cfg).pair>>, d)

Opened(d, by) == IF ~Failed(d) /\ d.box = by THEN d.data ELSE Failure

Decompress(cfg, d) == Opened(d, <<"compress", Compressor(cfg)>>)

(* Only a private key decrypts *)
Decrypt(cfg, d) ==
    IF Encryptor(cfg).private THEN Opened(d, <<"encrypt", Encryptor(cfg).pair>>) ELSE Failure

(* The stages of a configuration: forward_stages has those of them it is   *)
(* given a compressor or an encryptor for, in this order                   *)
Stages(cfg) ==
    {s \in {"compress", "encrypt"} : IF s = "compress" THEN Compressor(cfg) # "none" ELSE HasKey(cfg)}

Transform(cfg, d) ==
    LET packed == IF "compress" \in Stages(cfg) THEN Compress(cfg, d) ELSE d
    IN  IF "encrypt" \in Stages(cfg) THEN Encrypt(cfg, packed) ELSE packed

(* The stages undone, the last first *)
Reversed(cfg, d, undone) ==
    LET unlocked == IF "encrypt" \in undone THEN Decrypt(cfg, d) ELSE d
    IN  IF "compress" \in undone THEN Decompress(cfg, unlocked) ELSE unlocked

(* Mutant of Undo: every stage of the configuration is undone *)
UndoAll(cfg, d, applied) == Reversed(cfg, d, Stages(cfg))

(* reverse: stages that were not applied are passed over; so are stages    *)
(* that were, if the configuration no longer has them                      *)
Undo(cfg, d, applied) == Reversed(cfg, d, Stages(cfg) \cap applied)

-----------------------------------------------------------------------------
(* The serializer *)

Row(type, applied, data) == [type |-> type, applied |-> applied, data |-> data]

Serialize(cfg, v) ==
    LET b == SerializeToBytes[v]
    IN  IF Failed(b) THEN Failure
        ELSE Row(b.type, Stages(cfg), Transform(cfg, Bare(b.body)))

(* deserialize.  Bytes that are still in a box are no text any reader      *)
(* accepts; a row that cannot be read is no candidate of a search          *)
(* (_arrow_row_to_cache_entry).                                            *)
Deserialize(cfg, row) ==
    LET d == Undo(cfg, row.data, row.applied)
    IN  IF Failed(d) \/ d.box # <<>> THEN Failure ELSE DeserializeFromBytes(row.type, d.data)

(* What is left of bytes whose compression another one interfered with *)
Damaged == Box(<<"damaged">>, Failure)

(* _serialize_batch_optimized: all values are packed by up to four         *)
(* threads, then all are locked, and each step writes its name before the  *)
(* types.  The threads share the compressor.  gzip keeps nothing between   *)
(* two calls, but a ZstdCompressor has one context for all of them, which  *)
(* only one thread may use at a time: any of the values may be harmed.     *)
Packed(cfg, rows, harmed) ==
    IF Compressor(cfg) = "none" THEN rows
    ELSE [i \in DOMAIN rows |-> Row(rows[i].type, rows[i].applied \cup {"compress"},
                                    IF i \in harmed THEN Damaged ELSE Compress(cfg, rows[i].data))]

Exposed(cfg, vs) == IF Compressor(cfg) = "zstd" THEN DOMAIN vs ELSE {}

Locked(cfg, rows) ==
    IF ~HasKey(cfg) THEN rows
    ELSE [i \in DOMAIN rows |-> Row(rows[i].type, rows[i].applied \cup {"encrypt"},
                                    Encrypt(cfg, rows[i].data))]

BareRows(vs) ==
    [i \in DOMAIN vs |-> Row(SerializeToBytes[vs[i]].type, {}, Bare(SerializeToBytes[vs[i]].body))]

(* Mutant of SerializeBatchOptimized: encrypted before it is compressed *)
SerializeBatchSwapped(cfg, vs) == {Packed(cfg, Locked(cfg, BareRows(vs)), {})}

(* The outcomes there may be; an exception leaves add nothing to add *)
SerializeBatchOptimized(cfg, vs) ==
    {Locked(cfg, Packed(cfg, BareRows(vs), harmed)) : harmed \in SUBSET Exposed(cfg, vs)}
    \cup (IF Exposed(cfg, vs) = {} THEN {} ELSE {<<>>})

(* serialize_batch: one value that fails is an exception for all *)
SerializeBatch(cfg, vs) ==
    IF \E i \in DOMAIN vs : Failed(SerializeToBytes[vs[i]])
    THEN {<<>>}
    ELSE IF Len(vs) <= 3 \/ Stages(cfg) = {}
    THEN {[i \in DOMAIN vs |-> Serialize(cfg, vs[i])]}
    ELSE SerializeBatchOptimized(cfg, vs)

-----------------------------------------------------------------------------
(* What a caller may expect *)

(* The rows of storing one by one *)
Singles(cfg, vs) == [i \in DOMAIN vs |-> Serialize(cfg, vs[i])]

(* What rows say of their data *)
Types(rows) == [i \in DOMAIN rows |-> <<rows[i].type, rows[i].applied>>]

(* The configuration r can undo what w did *)
Undoes(r, w) ==
    /\ Compressor(w) # "none" => Compressor(r) = Compressor(w)
    /\ HasKey(w) => Encryptor(r).pair = Encryptor(w).pair /\ Encryptor(r).private
=============================================================================
