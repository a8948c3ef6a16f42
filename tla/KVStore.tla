------------------------------ MODULE KVStore ------------------------------
(***************************************************************************)
(* The kvstore storage engine (internal/kvstore/kvstore.go): a chain of    *)
(* tables, oldest first.  Puts go to the newest table, and a put that does *)
(* not fit appends a table of twice the engine's in-use bytes and retries; *)
(* reads scan newest to oldest; a delete on a one-table chain whose        *)
(* garbage reached 40% of its size appends an empty table; Export and      *)
(* Import move a one-table engine through a transport record.             *)
(*                                                                         *)
(* The engine is not synchronised: its caller serialises the calls, so    *)
(* each call is one step.  A put whose retry loop can never succeed does  *)
(* not return; looping records that the engine is stuck in it.           *)
(***************************************************************************)
EXTENDS Naturals, Sequences, FiniteSetsExt, KVTable

CONSTANTS HKeys,        \* hashed keys
          Values,       \* values (model values)
          TTLs,         \* TTL values an entry may carry
          Lens,         \* encoded entry lengths
          MinimumSize,  \* TableSize option of New (minimumSize)
          MaxTables,    \* bound: length of the table chain
          Matching,     \* hkeys whose key the MatchOnKey expression matches
          None          \* KeyNotFound

ASSUME Lens \subseteq Nat \ {0} /\ MinimumSize \in Nat /\ MaxTables \in Nat \ {0}
ASSUME Matching \subseteq HKeys

Entries == [val : Values, ttl : TTLs, len : Lens]

VARIABLES tables,   \* kv.tables
          looping   \* a Put is spinning in its retry loop forever

vars == <<tables, looping>>

TypeOK ==
    /\ tables \in Seq(Table(HKeys, Entries))
    /\ Len(tables) \in 1..MaxTables
    /\ looping \in BOOLEAN

\* New(options): one table of the configured size.
Init ==
    /\ tables = <<NewTable(MinimumSize)>>
    /\ looping = FALSE

-----------------------------------------------------------------------------
(* Reads                                                                   *)

\* Indices of the tables whose index holds h.
Holders(ts, h) == {i \in 1..Len(ts) : h \in DOMAIN ts[i].hkeys}

\* The newest table holding h: where every scan from the last table stops.
Newest(ts, h) == Max(Holders(ts, h))

\* Get: scan from the last table; the first table that has h answers.
Get(h) ==
    IF Holders(tables, h) = {} THEN None ELSE tables[Newest(tables, h)].hkeys[h]

\* GetTTL: the same scan, projecting the TTL.
GetTTL(h) == IF Get(h) = None THEN None ELSE Get(h).ttl

\* GetRaw: the same scan, returning the encoded entry.
GetRaw(h) == Get(h)

\* GetKey: the same scan, returning the entry's key; a key is abstracted to
\* the hkey it hashes to.
GetKey(h) == IF Get(h) = None THEN None ELSE h

\* NumTables: the length of the chain.
NumTables(ts) == Len(ts)

\* Check: is h in the index of any table.
Check(h) == Holders(tables, h) # {}

\* Inuse: the in-use bytes summed over the tables.
InuseOf(ts) == MapThenSumSet(LAMBDA i : ts[i].inuse, 1..Len(ts))

\* Len: the index sizes summed over the tables.
KeyCount == MapThenSumSet(LAMBDA i : Cardinality(DOMAIN tables[i].hkeys), 1..Len(tables))

\* Stats: allocated, inuse and garbage summed over the tables.
Stats ==
    [allocated |-> MapThenSumSet(LAMBDA i : tables[i].allocated, 1..Len(tables)),
     inuse     |-> InuseOf(tables),
     garbage   |-> MapThenSumSet(LAMBDA i : tables[i].garbage, 1..Len(tables))]

\* Range(f) with a callback that returns false from its stop-th call on:
\* the number of calls Range makes.  Tables are scanned from the last; in
\* each, f is called on the index entries until it returns false, and the
\* break leaves only that table's loop.
RECURSIVE RangeFrom(_, _, _, _)
RangeFrom(ts, i, stop, made) ==
    IF i = 0 THEN made
    ELSE LET size  == Cardinality(DOMAIN ts[i].hkeys)
             calls == IF size = 0 THEN 0
                      ELSE IF made >= stop THEN 1
                      ELSE Min({size, stop - made})
         IN RangeFrom(ts, i - 1, stop, made + calls)

RangeCalls(stop) == RangeFrom(tables, Len(tables), stop, 0)

\* Index entries of table i whose key matches the expression.
MatchesIn(ts, i) == Cardinality(DOMAIN ts[i].hkeys \cap Matching)

\* MatchOnKey(expr, f) with a callback that returns false from its stop-th
\* call on: the number of calls.  Tables are scanned from the last; keys
\* that do not match are skipped; f returning false returns from
\* MatchOnKey.
RECURSIVE MatchFrom(_, _, _, _)
MatchFrom(ts, i, stop, made) ==
    IF i = 0 \/ made >= stop THEN made
    ELSE MatchFrom(ts, i - 1, stop, made + Min({MatchesIn(ts, i), stop - made}))

MatchCalls(stop) == MatchFrom(tables, Len(tables), stop, 0)

-----------------------------------------------------------------------------
(* Writes                                                                  *)

\* Mutant of Put: the put goes to the first table of the chain.
PutFirstTable(h, e) ==
    LET nt == NewTable(InuseOf(tables) * 2) IN
    /\ ~looping
    /\ \/ /\ TFits(tables[1], e)
          /\ tables' = [tables EXCEPT ![1] = TPut(@, h, e)]
          /\ UNCHANGED looping
       \/ /\ ~TFits(tables[1], e)
          /\ Len(tables) < MaxTables
          /\ tables' = Append(tables, IF TFits(nt, e) THEN TPut(nt, h, e) ELSE nt)
          /\ looping' = ~TFits(nt, e)

\* Put: try the last table; on errNotEnoughSpace append
\* newTable(kv.Inuse() * 2) and try again, returning ErrFragmented.  The
\* appended table is empty, so Inuse() and the next table's size do not
\* change: if that size is too small the loop never ends.
Put(h, e) ==
    LET n  == NumTables(tables)
        nt == NewTable(InuseOf(tables) * 2)
    IN
    /\ ~looping
    /\ \/ /\ TFits(tables[n], e)
          /\ tables' = [tables EXCEPT ![n] = TPut(@, h, e)]
          /\ UNCHANGED looping
       \/ /\ ~TFits(tables[n], e)
          /\ n < MaxTables
          /\ TFits(nt, e)
          /\ tables' = Append(tables, TPut(nt, h, e))
          /\ UNCHANGED looping
       \/ /\ ~TFits(tables[n], e)
          /\ n < MaxTables
          /\ ~TFits(nt, e)
          /\ tables' = Append(tables, nt)
          /\ looping' = TRUE

\* PutRaw: the same loop as Put, with an encoded entry (table.putRaw).
PutRaw(h, e) == Put(h, e)

\* maxGarbageRatio: float64(t.allocated)*0.40 <= float64(t.garbage).
GarbageExceeded(t) == 2 * t.allocated <= 5 * t.garbage

\* Mutant of Delete: the garbage check runs whatever the chain's length.
DeleteAnyChain(h) ==
    LET ts == IF Holders(tables, h) = {} THEN tables
              ELSE [tables EXCEPT ![Newest(tables, h)] = TDelete(@, h)]
    IN
    /\ ~looping
    /\ \/ /\ GarbageExceeded(ts[1])
          /\ tables' = Append(ts, NewTable(InuseOf(ts) * 2))
       \/ /\ ~GarbageExceeded(ts[1])
          /\ tables' = ts
    /\ UNCHANGED looping

\* Delete: scan from the last table and delete h from the first table that
\* has it, then stop.  On a one-table chain whose garbage reached the ratio,
\* append newTable(kv.Inuse() * 2) and return ErrFragmented.
Delete(h) ==
    LET ts == IF Holders(tables, h) = {} THEN tables
              ELSE [tables EXCEPT ![Newest(tables, h)] = TDelete(@, h)]
    IN
    /\ ~looping
    /\ \/ /\ Len(ts) = 1
          /\ GarbageExceeded(ts[1])
          /\ tables' = Append(ts, NewTable(InuseOf(ts) * 2))
       \/ /\ ~(Len(ts) = 1 /\ GarbageExceeded(ts[1]))
          /\ tables' = ts
    /\ UNCHANGED looping

\* UpdateTTL: the first table in the scan that has h rewrites its TTL;
\* ErrKeyNotFound if none has it.
UpdateTTL(h, ttl) ==
    /\ ~looping
    /\ Check(h)
    /\ tables' = [tables EXCEPT ![Newest(tables, h)] = TUpdateTTL(@, h, ttl)]
    /\ UNCHANGED looping

\* Mutant of Export: the transport leaves out the garbage counter.
ExportNoGarbage(t) ==
    [HKeys |-> t.hkeys, Offset |-> t.offset, Allocated |-> t.allocated,
     Inuse |-> t.inuse, Garbage |-> 0]

\* Export: only a one-table engine; the transport carries its index and
\* counters (the memory prefix is the entries of the index).
Export(t) ==
    [HKeys |-> t.hkeys, Offset |-> t.offset, Allocated |-> t.allocated,
     Inuse |-> t.inuse, Garbage |-> t.garbage]

\* Mutant of Import: the fresh table keeps its zero garbage counter.
ImportNoGarbage(tr) ==
    [NewTable(tr.Allocated) EXCEPT !.hkeys = tr.HKeys, !.offset = tr.Offset,
                                   !.inuse = tr.Inuse]

\* Import: New with TableSize = Allocated, then install the index and the
\* counters of the transport in the fresh table.
Import(tr) ==
    [NewTable(tr.Allocated) EXCEPT !.hkeys = tr.HKeys, !.offset = tr.Offset,
                                   !.inuse = tr.Inuse, !.garbage = tr.Garbage]

\* The engine's data is exported and the imported engine replaces it; Export
\* returns ErrFragmented (and nothing changes) unless the chain is one table.
ExportImport ==
    /\ ~looping
    /\ Len(tables) = 1
    /\ tables' = <<Import(Export(tables[1]))>>
    /\ UNCHANGED looping

Next ==
    \/ \E h \in HKeys, e \in Entries : Put(h, e) \/ PutRaw(h, e)
    \/ \E h \in HKeys : Delete(h)
    \/ \E h \in HKeys, ttl \in TTLs : UpdateTTL(h, ttl)
    \/ ExportImport

Spec == Init /\ [][Next]_vars

-----------------------------------------------------------------------------
(* Properties                                                              *)

\* The counters of every table describe its index: inuse is the length of
\* the entries the index reaches, garbage the bytes of overwritten and
\* deleted ones, and together they fill the slab up to offset, never past
\* its size; Import must reinstall all three.
TableAccounting ==
    \A i \in 1..Len(tables) :
        LET t == tables[i] IN
        /\ t.inuse = MapThenSumSet(LAMBDA h : t.hkeys[h].len, DOMAIN t.hkeys)
        /\ t.inuse + t.garbage = t.offset
        /\ t.offset <= t.allocated

\* Tables older than the newest are frozen: a step other than an
\* export/import never appends to them or adds to their index, and their
\* garbage never shrinks.
FrozenTablesStayFrozen ==
    [][~ExportImport =>
        \A i \in 1..Len(tables) - 1 :
            /\ tables'[i].offset = tables[i].offset
            /\ DOMAIN tables'[i].hkeys \subseteq DOMAIN tables[i].hkeys
            /\ tables'[i].garbage >= tables[i].garbage]_vars

\* Moving the engine through Export and Import keeps every get result, the
\* key count and the stats.
ExportRoundTrip ==
    [][ExportImport =>
        /\ \A h \in HKeys : Get(h)' = Get(h)
        /\ KeyCount' = KeyCount
        /\ Stats' = Stats]_vars

\* Range stops at the first call of f that returns false (spec.md 4.B): a
\* callback that stops on its stop-th call is called min(stop, Len()) times.
RangeStops ==
    \A stop \in 1..KeyCount : RangeCalls(stop) = Min({stop, KeyCount})

\* Put never spins: errNotEnoughSpace is always recovered by allocating
\* (spec.md 4.B).
PutReturns == ~looping

\* A get after a delete finds nothing, even when an older table of the chain
\* still holds the key (spec.md 8, delete totality).
DeleteTotality ==
    [][\A h \in HKeys : Delete(h) => Get(h)' = None]_vars
=============================================================================
