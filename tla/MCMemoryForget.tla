--------------------------- MODULE MCMemoryForget ---------------------------
(* Small instances of MemoryForget for TLC.  Requests are interchangeable,    *)
(* and so are the identities of memories: no property names one.              *)
EXTENDS MemoryForget, TLC

AnyName == Permutations(Workers) \cup Permutations(Items)
=============================================================================
