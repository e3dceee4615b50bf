---------------------------- MODULE Vocabulary -----------------------------
(***************************************************************************)
(* The queries and contexts of the instances TLC checks.  Two vocabularies:*)
(*  - plain: short queries and contexts, no query a prefix of another;     *)
(*  - awkward: "ab" is a prefix of "abc", "x:y" holds a colon, and the two *)
(*    contexts l1 and l2 are longer than 30 characters and begin alike.    *)
(***************************************************************************)
EXTENDS EntryIds

Identity(S) == [x \in S |-> x]

PlainPrefix == {<<q, q>> : q \in Query}

NoContext == {}

AwkwardQuery == {"ab", "abc", "x:y"}
AwkwardContext == {"empty", "l1", "l2"}
AwkwardBefore == [t \in AwkwardQuery |-> IF t = "x:y" THEN "x" ELSE t]
AwkwardPrefix == {<<"ab", "ab">>, <<"ab", "abc">>, <<"abc", "abc">>, <<"x", "x:y">>}
AwkwardShown == [c \in AwkwardContext |-> IF c = "empty" THEN "{}" ELSE "{cut"]
AwkwardLong == {"l1", "l2"}

(* q1 and q2 are paraphrases of each other; nothing else is close *)
Close(q, r) == IF q = r THEN 2 ELSE IF {q, r} \subseteq {"q1", "q2"} THEN 1 ELSE 0
PlainSimilarity == [p \in Query \X Query |-> Close(p[1], p[2])]

PlainQueries == Identity(Query)
PlainContexts == Identity(Context)
=============================================================================
