------------------------------ MODULE Patterns ------------------------------
(***************************************************************************)
(* Which rows a pattern of invalidate_bulk selects: BulkInvalidatePattern  *)
(* in types.py.  Text is a sequence of characters, "*" is the wildcard and *)
(* "newline" the one character a wildcard does not match.  A context is a  *)
(* function from keys to values, both text.  A regular expression is the   *)
(* set of the queries it matches.                                          *)
(***************************************************************************)
EXTENDS Optional, Integers, SequencesExt

(* A division of the text among the characters of the pattern: character i *)
(* is matched by what lies between cut[i - 1] and cut[i].                  *)
Divides(cut, pattern, text) ==
    /\ cut[0] = 0
    /\ \A i \in 1..Len(pattern) :
          IF pattern[i] = "*"
          THEN /\ cut[i - 1] <= cut[i]
               /\ \A j \in (cut[i - 1] + 1)..cut[i] : text[j] # "newline"
          ELSE cut[i] = cut[i - 1] + 1 /\ text[cut[i]] = pattern[i]

(* Mutant of MatchWildcard: the "$" of the expression is left out *)
MatchWildcardOpen(pattern, text) ==
    \E cut \in [0..Len(pattern) -> 0..Len(text)] : Divides(cut, pattern, text)

(* _match_wildcard: "^", the pattern with every "*" as ".*", "$".  Python's *)
(* "$" also matches before a newline that ends the text.                   *)
MatchWildcard(pattern, text) ==
    \E cut \in [0..Len(pattern) -> 0..Len(text)] :
        /\ Divides(cut, pattern, text)
        /\ \/ cut[Len(pattern)] = Len(text)
           \/ cut[Len(pattern)] = Len(text) - 1 /\ text[Len(text)] = "newline"

HasWildcard(text) == Contains(text, "*")

(* The first criterion that is given decides: an expression hides a prefix, *)
(* a prefix hides a suffix.                                                *)
MatchesQuery(p, query) ==
    IF p.query_regex # None THEN query \in p.query_regex
    ELSE IF p.query_prefix # None THEN IsPrefix(p.query_prefix, query)
    ELSE p.query_suffix # None => IsSuffix(p.query_suffix, query)

(* Mutant of MatchesContext: one pair of the pattern is enough *)
MatchesContextAny(p, context) ==
    \/ DOMAIN p.context_matches = {}
    \/ \E key \in DOMAIN p.context_matches : \E k \in DOMAIN context :
           /\ MatchWildcard(key, k)
           /\ MatchWildcard(p.context_matches[key], context[k])

(* For each pair of the pattern, every key of the context that fits must   *)
(* have a value that fits; a key pattern without a wildcard must fit one.  *)
MatchesContext(p, context) ==
    \A key \in DOMAIN p.context_matches :
        LET fits == {k \in DOMAIN context : MatchWildcard(key, k)}
            value == p.context_matches[key]
        IN  /\ \A k \in fits : value = <<"*">> \/ MatchWildcard(value, context[k])
            /\ fits # {} \/ HasWildcard(key)

MatchesAge(p, age) == p.older_than_seconds # None => age > p.older_than_seconds

(* The rows invalidate_bulk collects *)
Selects(p, row) ==
    /\ MatchesQuery(p, row.query)
    /\ MatchesContext(p, row.context)
    /\ MatchesAge(p, row.age)
=============================================================================
