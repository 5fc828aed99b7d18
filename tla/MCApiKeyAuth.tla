---------------------------- MODULE MCApiKeyAuth ----------------------------
(* The sizes and lifetimes of the two caches, for TLC.                      *)
EXTENDS ApiKeyAuth

OneEach == [pos |-> 1, neg |-> 1]
Lifetimes == [pos |-> 1, neg |-> 1]
=============================================================================
