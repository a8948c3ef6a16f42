----------------------------- MODULE PutCommand -----------------------------
(***************************************************************************)
(* The PUT and PUT.ENTRY command handlers of a DMap service               *)
(* (src/unnamed/part_001).  putCommandHandler turns the parsed arguments  *)
(* into put options with a Go switch, builds an env and calls dm.put;      *)
(* putEntryCommandHandler stores a replica's encoded entry with           *)
(* putOnReplicaFragment.  dm.put, the put options and the replica store   *)
(* are not under src/ and are modelled from spec.md 4.D: NX is the        *)
(* IfNotFound condition, XX IfFound, and an expiry option gives the entry *)
(* a TTL.  A TTL's length is abstracted to whether the entry has one.     *)
(***************************************************************************)
EXTENDS Naturals, Sequences, SequencesExt

CONSTANTS Keys,     \* keys of one DMap
          Values,   \* values (model values)
          None      \* no entry

\* The PUT arguments, in the order the handler's switch tests them; a
\* command carries the set of those it was given (EX, PX, EXAT, PXAT: != 0).
Switch   == <<"NX", "XX", "EX", "PX", "EXAT", "PXAT">>
Expiries == {"EX", "PX", "EXAT", "PXAT"}
Commands == [key : Keys, value : Values, args : SUBSET Range(Switch)]

VARIABLES store     \* store[k]: None, or the entry of k at its owner

vars == <<store>>

Entry == [val : Values, ttl : BOOLEAN, expired : BOOLEAN]

TypeOK == store \in [Keys -> Entry \cup {None}]

Init == store = [k \in Keys |-> None]

\* A reader treats an expired entry as absent (spec.md 4.D).
Live(k) == store[k] # None /\ ~store[k].expired

\* The switch: the first case that holds appends its option, the others
\* are not tested.
PutOptions(cmd) ==
    LET i == SelectInSeq(Switch, LAMBDA a : a \in cmd.args)
    IN IF i = 0 THEN {} ELSE {Switch[i]}

\* for _, opt := range options { opt(&pc) }
PutConfig(opts) ==
    [ifNotFound |-> "NX" \in opts,
     ifFound    |-> "XX" \in opts,
     ttl        |-> opts \cap Expiries # {}]

\* dm.put(e) at the owner: KeyFound / KeyNotFound when the condition fails,
\* otherwise the entry is stored, with a TTL when the config has one.
DMapPut(k, v, pc) ==
    CASE pc.ifNotFound /\ Live(k)  -> [res |-> "KeyFound", store |-> store]
      [] pc.ifFound /\ ~Live(k)    -> [res |-> "KeyNotFound", store |-> store]
      [] OTHER -> [res |-> "OK",
                   store |-> [store EXCEPT ![k] = [val |-> v, ttl |-> pc.ttl,
                                                   expired |-> FALSE]]]

\* putCommandHandler: ParsePutCommand or getOrCreateDMap may fail, and the
\* error is written back with nothing stored; otherwise dm.put runs with the
\* options the switch chose and its error or OK is written back.
PutCommandHandler(cmd) ==
    \/ UNCHANGED store
    \/ store' = DMapPut(cmd.key, cmd.value, PutConfig(PutOptions(cmd))).store

\* The reply putCommandHandler writes for cmd when dm.put runs.
Reply(cmd) == DMapPut(cmd.key, cmd.value, PutConfig(PutOptions(cmd))).res

\* putEntryCommandHandler: the replica's encoded entry, TTL included, is
\* stored as it is by putOnReplicaFragment (or a parse error is written).
PutEntryCommandHandler(k, v, ttl) ==
    \/ UNCHANGED store
    \/ store' = [store EXCEPT ![k] = [val |-> v, ttl |-> ttl, expired |-> FALSE]]

\* The TTL of an entry elapses.
Expire(k) ==
    /\ store[k] # None
    /\ store[k].ttl
    /\ ~store[k].expired
    /\ store' = [store EXCEPT ![k].expired = TRUE]

Next ==
    \/ \E cmd \in Commands : PutCommandHandler(cmd)
    \/ \E k \in Keys, v \in Values, ttl \in BOOLEAN : PutEntryCommandHandler(k, v, ttl)
    \/ \E k \in Keys : Expire(k)

Spec == Init /\ [][Next]_vars

-----------------------------------------------------------------------------
(* Properties                                                              *)

\* A PUT that was given an expiry argument and answered OK stores an entry
\* with a TTL (spec.md 4.D: a put with an explicit TTL stores that TTL).
ExpiryHonoured ==
    [][\A cmd \in Commands :
        /\ PutCommandHandler(cmd) /\ store' # store
        /\ cmd.args \cap Expiries # {} /\ Reply(cmd) = "OK"
            => store'[cmd.key].ttl]_vars
=============================================================================
