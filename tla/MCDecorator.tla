----------------------------- MODULE MCDecorator -----------------------------
(* Instances of Decorator for TLC: f is decorated with the defaults and     *)
(* query_mode="auto"; g without batch_mode, and caches errors.  Both take   *)
(* the same context parameter, whose default is None, and share its         *)
(* contexts.  The two queries are close to each other.                      *)
EXTENDS Decorator, TLC

NoStatic == [f \in Func |-> {}]
Plainly == [a \in Arg |-> a]
Modes == [f \in Func |-> IF f = "f" THEN "auto" ELSE "semantic"]
Close == [p \in Query \X Query |-> IF p[1] = p[2] THEN 2 ELSE 1]

One(f, q, a) ==
    [func |-> f, arg |-> a, queries |-> <<q>>, single |-> TRUE, positional |-> FALSE]
Many(qs, a, positional) ==
    [func |-> "f", arg |-> a, queries |-> qs, single |-> FALSE, positional |-> positional]

(* Single queries of both functions, a list of an exact and a semantic     *)
(* query, one without any, and one with the context argument given by      *)
(* position.                                                               *)
SomeAsks ==
    {One("f", "q1", "a"), One("g", "q2", "a"), One("g", "q1", "none"),
     Many(<<"q2", "q1">>, "a", FALSE), Many(<<"q2">>, "a", TRUE), Many(<<>>, "a", FALSE)}

Symmetry == Permutations(Caller)
=============================================================================
