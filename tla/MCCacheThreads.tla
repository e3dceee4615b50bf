--------------------------- MODULE MCCacheThreads ---------------------------
(* Instances of CacheThreads for TLC *)
EXTENDS CacheThreads
=============================================================================
