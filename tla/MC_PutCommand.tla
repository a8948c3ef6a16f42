--------------------------- MODULE MC_PutCommand ---------------------------
(* Two keys and four values: every argument combination of PUT against    *)
(* absent, live and expired entries, with and without a TTL.              *)
EXTENDS PutCommand

CONSTANTS k1, k2, v1, v2, v3, v4
=============================================================================
