---------------------------- MODULE MCReadCache ----------------------------
(* Model-checking instance of ReadCache: two reads that overlap.             *)
EXTENDS ReadCache
=============================================================================
