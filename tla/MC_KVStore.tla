---------------------------- MODULE MC_KVStore ----------------------------
(* A small engine: two hkeys, entries of one or two bytes, a first table  *)
(* of four bytes, so overwrites fill it and spill within a few puts.      *)
EXTENDS KVStore

CONSTANTS h1, h2, v1, v2
=============================================================================
