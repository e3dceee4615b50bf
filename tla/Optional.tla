------------------------------ MODULE Optional ------------------------------
(* Python's None, for the modules whose records have optional fields, and   *)
(* what stands for the result of a call that ended with an exception        *)
CONSTANT None

Failure == [kind |-> "failure"]

Failed(x) == x = Failure
=============================================================================
