------------------------------ MODULE KVTable ------------------------------
(***************************************************************************)
(* A table of the kvstore engine: a fixed-capacity slab of encoded        *)
(* entries and an index hkey -> entry.  table.go is not under src/; the   *)
(* operations are modelled from spec.md 4.A.  The slab's bytes are        *)
(* abstracted to the counters that describe them: an entry is its value,  *)
(* its TTL and its encoded length, and the index maps an hkey to the      *)
(* entry its offset points at.                                             *)
(***************************************************************************)
EXTENDS Naturals, Functions

Table(HK, Entries) ==
    [allocated : Nat, offset : Nat, inuse : Nat, garbage : Nat,
     hkeys : UNION {[D -> Entries] : D \in SUBSET HK}]

\* newTable(size): an empty slab of size bytes.
NewTable(size) ==
    [allocated |-> size, offset |-> 0, inuse |-> 0, garbage |-> 0,
     hkeys |-> [h \in {} |-> 0]]

\* put fails with errNotEnoughSpace unless the encoded entry fits after offset.
TFits(t, e) == t.offset + e.len <= t.allocated

\* put(hkey, entry): an overwritten entry's bytes turn into garbage; the new
\* entry is appended at offset.
TPut(t, h, e) ==
    LET old == IF h \in DOMAIN t.hkeys THEN t.hkeys[h].len ELSE 0 IN
    [t EXCEPT !.hkeys   = [x \in DOMAIN t.hkeys \cup {h} |-> IF x = h THEN e ELSE t.hkeys[x]],
              !.offset  = t.offset + e.len,
              !.inuse   = t.inuse - old + e.len,
              !.garbage = t.garbage + old]

\* delete(hkey): the entry's bytes turn into garbage and its index entry goes.
TDelete(t, h) ==
    [t EXCEPT !.hkeys   = Restrict(t.hkeys, DOMAIN t.hkeys \ {h}),
              !.inuse   = t.inuse - t.hkeys[h].len,
              !.garbage = t.garbage + t.hkeys[h].len]

\* updateTTL(hkey, entry): the entry's TTL is rewritten in place.
TUpdateTTL(t, h, ttl) ==
    [t EXCEPT !.hkeys[h].ttl = ttl]
=============================================================================
