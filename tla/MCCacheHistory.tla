--------------------------- MODULE MCCacheHistory ---------------------------
(* Instances of CacheHistory for TLC *)
EXTENDS CacheHistory, Vocabulary
=============================================================================
