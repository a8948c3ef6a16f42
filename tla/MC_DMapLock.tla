---------------------------- MODULE MC_DMapLock ----------------------------
(* Two callers on different members contend for one key owned by n1: c1  *)
(* reaches it locally, c2 over RPC.                                       *)
EXTENDS DMapLock

CONSTANTS c1, c2, n1, n2,
          fb,   \* a foreign value that decodes to []byte
          fs    \* a foreign value that decodes to another type (a string)

MC_HomeOf == [c \in Clients |-> IF c = c1 THEN n1 ELSE n2]
MC_Owner  == [k \in Keys |-> n1]
=============================================================================
