--------------------------- MODULE MCTokenBucket ---------------------------
(* Small instances of TokenBucket: two tasks and a burst of two. *)
EXTENDS TokenBucket

MCTask == {"a", "b"}
=============================================================================
