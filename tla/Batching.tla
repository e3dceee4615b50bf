------------------------------ MODULE Batching ------------------------------
(***************************************************************************)
(* Which entries of a store_batch are stored, and in which table, against  *)
(* what one store for each of them does (storage_ops.py).                  *)
(*                                                                         *)
(* A batch is the mode it is stored in, whether errors are allowed, how    *)
(* the metadata is given, and its entries: each has the mode its query is  *)
(* detected as, and is an error or not.  Metadata is "none", one dict for  *)
(* each entry ("own"), or one dict for all, "shared" or "empty": an empty  *)
(* dict is false, and every entry gets a new one.                          *)
(***************************************************************************)
EXTENDS Integers, Sequences, FiniteSetsExt

ActualMode(b, i) == IF b.mode = "auto" THEN b.entries[i].detected ELSE b.mode

(* LanceDBBackend.add routes an entry by the mode in its metadata *)
TableFor(mode) == IF mode = "exact" THEN "exact" ELSE "semantic"

(* The positions of the entries that are stored; their rows are added in   *)
(* this order                                                              *)
Stored(b) == {i \in DOMAIN b.entries : b.allow_errors \/ ~b.entries[i].error}

(* store, for the entry at position i: its table *)
StoredAlone(b, i) == TableFor(ActualMode(b, i))

(* The dict the entry at position i writes its mode to *)
Metadata(b, i) == IF b.metadata = "shared" THEN 0 ELSE i

(* Mutant of StoredTogether: the modes are those of the whole batch, taken *)
(* in order by the entries that are stored                                 *)
StoredTogetherInOrder(b) ==
    [i \in Stored(b) |-> TableFor(ActualMode(b, Cardinality({m \in Stored(b) : m <= i})))]

(* store_batch: all modes are written to the metadata before any entry is  *)
(* added, so of those who share a dict the last one decides                *)
StoredTogether(b) ==
    LET last(i) == Max({m \in Stored(b) : Metadata(b, m) = Metadata(b, i)})
    IN  [i \in Stored(b) |-> TableFor(ActualMode(b, last(i)))]
=============================================================================
