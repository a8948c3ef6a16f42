------------------------------ MODULE LockSpec ------------------------------
(***************************************************************************)
(* What the advisory lock of a DMap promises (spec.md section 4.F), for   *)
(* the lock key stored at the partition owner:                            *)
(*                                                                         *)
(*   Absent --(IfNotFound put)--------------> Held(token, ttl)             *)
(*   Held   --(TTL expiry, or matching unlock)--> Absent                   *)
(*   Held   --(non-matching unlock)-----------> Held                       *)
(*   any    --(plain put by another client)---> Absent                     *)
(*   any    --(partition moved, data lost)----> Absent                     *)
(*                                                                         *)
(* An unlock is a request carrying a token.  It either releases the key   *)
(* it names when the key is held with that very token, or it ends without *)
(* touching the key (NoSuchLock, or an error).  Nothing else frees a key. *)
(***************************************************************************)
CONSTANTS Keys,       \* lock keys of one DMap
          Tokens,     \* lock tokens
          Requests,   \* identities of unlock calls
          None        \* no lock / no request

VARIABLES lock,       \* lock[k]: None, or the holder's token and whether it has a TTL
          pending     \* pending[r]: None, or the key and token of unlock call r

vars == <<lock, pending>>

Held == [token : Tokens, ttl : BOOLEAN]
Req  == [key : Keys, token : Tokens]

TypeOK ==
    /\ lock \in [Keys -> Held \cup {None}]
    /\ pending \in [Requests -> Req \cup {None}]

Init ==
    /\ lock = [k \in Keys |-> None]
    /\ pending = [r \in Requests |-> None]

\* A conditional put takes a free key.
Acquire(k, t, ttl) ==
    /\ lock[k] = None
    /\ lock' = [lock EXCEPT ![k] = [token |-> t, ttl |-> ttl]]
    /\ UNCHANGED pending

\* A key put with a TTL may lapse at any time.
Expire(k) ==
    /\ lock[k] # None
    /\ lock[k].ttl
    /\ lock' = [lock EXCEPT ![k] = None]
    /\ UNCHANGED pending

\* Another client overwrites the key with a plain put, or the partition is
\* moved without its data: no token holds the key.
Overwrite(k) ==
    /\ lock' = [lock EXCEPT ![k] = None]
    /\ UNCHANGED pending

\* An unlock call is issued.
Request(r, k, t) ==
    /\ pending[r] = None
    /\ pending' = [pending EXCEPT ![r] = [key |-> k, token |-> t]]
    /\ UNCHANGED lock

\* An unlock call frees the key it names, which it holds.
Release(r) ==
    /\ pending[r] # None
    /\ LET k == pending[r].key IN
         /\ lock[k] # None
         /\ lock[k].token = pending[r].token
         /\ lock' = [lock EXCEPT ![k] = None]
    /\ pending' = [pending EXCEPT ![r] = None]

\* An unlock call ends without touching any key.
Abandon(r) ==
    /\ pending[r] # None
    /\ pending' = [pending EXCEPT ![r] = None]
    /\ UNCHANGED lock

Next ==
    \/ \E k \in Keys, t \in Tokens, ttl \in BOOLEAN : Acquire(k, t, ttl)
    \/ \E k \in Keys : Expire(k) \/ Overwrite(k)
    \/ \E r \in Requests, k \in Keys, t \in Tokens : Request(r, k, t)
    \/ \E r \in Requests : Release(r) \/ Abandon(r)

Spec == Init /\ [][Next]_vars
=============================================================================
