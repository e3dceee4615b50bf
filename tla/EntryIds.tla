------------------------------ MODULE EntryIds ------------------------------
(***************************************************************************)
(* How an entry (a query in a context) is named to the eviction policy,    *)
(* and how _evict_one goes from that name back to the stored entries.      *)
(*                                                                         *)
(* The name is query[:30] + ":" + json(context)[:30].  To delete a victim  *)
(* the code splits the name at its first ":", reads the right part as JSON *)
(* ({} when that fails) and takes every entry of that context whose query  *)
(* starts with the left part.  Strings are not modelled: the functions and *)
(* sets below say what those string operations give on the queries and     *)
(* contexts of an instance.                                                *)
(***************************************************************************)

CONSTANTS
    Query,          \* queries a client uses
    Context,        \* contexts a client uses
    EmptyContext,   \* the context {}
    Preview,        \* Preview[q]: query[:30]
    BeforeColon,    \* BeforeColon[t]: the part of t before its first ":", or t
    IsPrefix,       \* pairs <<t, q>> such that query q starts with text t
    Shown,          \* Shown[c]: json(context)[:30]
    LongContext     \* contexts whose JSON is longer than 30 characters

(* What identifies a row: compute_query_hash(query, context) *)
Key == Query \X Context

(* _generate_entry_id *)
EntryId(k) == <<Preview[k[1]], Shown[k[2]]>>

(* A colon in the preview moves the split, and a cut JSON object does not  *)
(* parse: in both cases the code goes on with the empty context.           *)
ParsedContext(id) ==
    IF BeforeColon[id[1]] = id[1] /\ \E c \in Context \ LongContext : Shown[c] = id[2]
    THEN CHOOSE c \in Context \ LongContext : Shown[c] = id[2]
    ELSE EmptyContext

(* The keys of the rows that the search of _evict_one selects for a name *)
Resolves(id) ==
    {k \in Key : k[2] = ParsedContext(id) /\ <<BeforeColon[id[1]], k[1]>> \in IsPrefix}

(* Names are faithful: each resolves to the one key it was made from *)
PlainKeys == \A k \in Key : Resolves(EntryId(k)) = {k}

=============================================================================
