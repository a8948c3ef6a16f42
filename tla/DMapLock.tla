------------------------------ MODULE DMapLock ------------------------------
(***************************************************************************)
(* The advisory lock protocol of a DMap (internal/dmap/lock.go).          *)
(*                                                                         *)
(* Callers run Lock / LockWithTimeout (lockKey, tryLock) and              *)
(* LockContext.Unlock (unlock, unlockKey) concurrently.  The lock key     *)
(* lives in the DMap storage of the partition owner; the conditional put, *)
(* get and deleteKey of the DMap and the fine-grained key locker are not  *)
(* under src/ and are modelled from spec.md (4.D, 4.E).  A call from a    *)
(* member that does not own the key goes over RPC, and the request or    *)
(* its reply may be lost.  Time is abstract: TTL expiry, the 10 ms poll   *)
(* timer, the caller's deadline and the server shutting down are events   *)
(* that may happen at any moment.  Rebalancing may move a key's partition *)
(* to another member; get and deleteKey follow the current owner, but     *)
(* each member has its own fine-grained locker.                            *)
(***************************************************************************)
EXTENDS Naturals, FiniteSets

CONSTANTS Clients,     \* goroutines calling Lock and Unlock
          Keys,        \* lock keys of one DMap
          Nodes,       \* cluster members
          HomeOf,      \* HomeOf[c]: the member whose DMap client c calls
          Owner,       \* Owner[k]: initial partition owner of key k
          MaxLocks,    \* bound: lockKey calls per client
          MaxUnlocks,  \* bound: Unlock calls per client
          UseTTL,      \* whether clients call LockWithTimeout as well as Lock
          ForeignValues, \* values another client may Put over a lock key
          BytesValues, \* those of them that unmarshalValue decodes to []byte
          MaxMoves,    \* bound: partition moves (rebalancing) in a behaviour
          Lossy,       \* whether a move may lose the partition's data
          None

ASSUME HomeOf \in [Clients -> Nodes] /\ Owner \in [Keys -> Nodes]
ASSUME MaxLocks \in Nat \ {0} /\ MaxUnlocks \in Nat \ {0} /\ UseTTL \in BOOLEAN
ASSUME BytesValues \subseteq ForeignValues /\ MaxMoves \in Nat /\ Lossy \in BOOLEAN

\* lockKey draws 16 random bytes; the n-th call of client c gets <<c, n>>.
Tokens == Clients \X (1..MaxLocks)
Ops    == Clients \X (1..MaxUnlocks)

VARIABLES
    store,    \* store[k]: None, or the entry of k at its owner
    lkr,      \* lkr[n][k]: member n's fine-grained locker on name+k is taken
    owner,    \* owner[k]: the current partition owner of k
    moves,    \* partition moves so far
    gone,     \* members whose service context is done
    calls,    \* calls[c]: lockKey calls made by c
    acq,      \* acq[c]: None, or the env c is polling with in tryLock's loop
    handle,   \* handle[c]: None, or the LockContext c got last
    unl,      \* unl[o]: state of Unlock call o
    holding,  \* history: c got a LockContext and has not called Unlock on it
    lapsed,   \* history: tokens whose entry expired or was overwritten
    freed     \* history: tokens whose entry an unlockKey deleted

vars == <<store, lkr, owner, moves, gone, calls, acq, handle, unl, holding, lapsed, freed>>

Entry   == [val : Tokens \cup ForeignValues, ttl : BOOLEAN, expired : BOOLEAN]
Env     == [key : Keys, token : Tokens, ttl : BOOLEAN]
Context == [key : Keys, token : Tokens]
UnlPC   == {"idle", "wait", "get", "delete", "done"}
Results == {"none", "ok", "NoSuchLock", "err", "panic"}
UnlRec  == [pc : UnlPC, key : Keys \cup {None}, token : Tokens \cup {None}, at : Nodes \cup {None},
            remote : BOOLEAN, res : Results]

IdleOp == [pc |-> "idle", key |-> None, token |-> None, at |-> None, remote |-> FALSE,
           res |-> "none"]

TypeOK ==
    /\ store \in [Keys -> Entry \cup {None}]
    /\ lkr \in [Nodes -> [Keys -> BOOLEAN]]
    /\ owner \in [Keys -> Nodes]
    /\ moves \in 0..MaxMoves
    /\ gone \subseteq Nodes
    /\ calls \in [Clients -> 0..MaxLocks]
    /\ acq \in [Clients -> Env \cup {None}]
    /\ handle \in [Clients -> Context \cup {None}]
    /\ unl \in [Ops -> UnlRec]
    /\ holding \in [Clients -> BOOLEAN]
    /\ lapsed \subseteq Tokens
    /\ freed \subseteq Tokens

Init ==
    /\ store = [k \in Keys |-> None]
    /\ lkr = [n \in Nodes |-> [k \in Keys |-> FALSE]]
    /\ owner = Owner
    /\ moves = 0
    /\ gone = {}
    /\ calls = [c \in Clients |-> 0]
    /\ acq = [c \in Clients |-> None]
    /\ handle = [c \in Clients |-> None]
    /\ unl = [o \in Ops |-> IdleOp]
    /\ holding = [c \in Clients |-> FALSE]
    /\ lapsed = {}
    /\ freed = {}

-----------------------------------------------------------------------------
(* The DMap operations the lock is built on (spec.md 4.D): a reader treats *)
(* an expired entry as absent.                                             *)

Live(k) == store[k] # None /\ ~store[k].expired

Remote(c, k) == HomeOf[c] # owner[k]

\* dm.put(e) with IfNotFound at the owner: KeyFound on a live entry,
\* otherwise the token is stored.
PutIfNotFound(e) ==
    IF Live(e.key)
    THEN [res |-> "KeyFound", store |-> store]
    ELSE [res |-> "ok",
          store |-> [store EXCEPT ![e.key] = [val |-> e.token, ttl |-> e.ttl,
                                             expired |-> FALSE]]]

\* The outcomes dm.put(e) can have for client c: the owner's answer, or,
\* over RPC, an error after the request was lost (nothing stored) or after
\* the reply was lost (the owner's put took effect).
PutOutcomes(c, e) ==
    {PutIfNotFound(e)} \cup
    IF Remote(c, e.key)
    THEN {[res |-> "err", store |-> store],
          [res |-> "err", store |-> PutIfNotFound(e).store]}
    ELSE {}

\* tryLock returned the put result r to lockKey: nil makes a LockContext.
Acquired(c, e, r) ==
    /\ handle' = IF r = "ok" THEN [handle EXCEPT ![c] = [key |-> e.key, token |-> e.token]]
                             ELSE handle
    /\ holding' = IF r = "ok" THEN [holding EXCEPT ![c] = TRUE] ELSE holding

-----------------------------------------------------------------------------
(* Acquire: lockKey and tryLock.                                           *)

\* tryLock, before its loop: put once; nil or any error but ErrKeyFound is
\* returned, ErrKeyFound enters the polling loop with env e.
TryLock(c, e) ==
    \E o \in PutOutcomes(c, e) :
        /\ store' = o.store
        /\ acq' = IF o.res = "KeyFound" THEN [acq EXCEPT ![c] = e] ELSE acq
        /\ Acquired(c, e, o.res)

\* lockKey: draw a token, build the IfNotFound env and call tryLock.  A
\* failing rand.Read or prepareAndSerialize returns at once.
LockKey(c, k, ttl) ==
    /\ acq[c] = None
    /\ ~holding[c]
    /\ calls[c] < MaxLocks
    /\ calls' = [calls EXCEPT ![c] = @ + 1]
    /\ LET e == [key |-> k, token |-> <<c, calls[c] + 1>>, ttl |-> ttl] IN
         \/ UNCHANGED <<store, acq, handle, holding>>
         \/ TryLock(c, e)
    /\ UNCHANGED <<owner, moves, lkr, gone, unl, lapsed, freed>>

\* Lock: lockKey with nilTimeout (OpPutIf).
Lock(c, k) == LockKey(c, k, FALSE)

\* LockWithTimeout: lockKey with a TTL (OpPutIfEx).
LockWithTimeout(c, k) == LockKey(c, k, TRUE)

\* tryLock's loop, timer case: put again; ErrKeyFound continues the loop,
\* success breaks it, any other error is returned.
TimerFires(c) ==
    /\ acq[c] # None
    /\ \E o \in PutOutcomes(c, acq[c]) :
         /\ store' = o.store
         /\ acq' = IF o.res = "KeyFound" THEN acq ELSE [acq EXCEPT ![c] = None]
         /\ Acquired(c, acq[c], o.res)
    /\ UNCHANGED <<owner, moves, lkr, gone, calls, unl, lapsed, freed>>

\* tryLock's loop, ctx.Done case: ErrLockNotAcquired.
DeadlineExpires(c) ==
    /\ acq[c] # None
    /\ acq' = [acq EXCEPT ![c] = None]
    /\ UNCHANGED <<owner, moves, store, lkr, gone, calls, handle, unl, holding, lapsed, freed>>

\* tryLock's loop, service ctx.Done case: "server is gone".
ServerGone(c) ==
    /\ acq[c] # None
    /\ HomeOf[c] \in gone
    /\ acq' = [acq EXCEPT ![c] = None]
    /\ UNCHANGED <<owner, moves, store, lkr, gone, calls, handle, unl, holding, lapsed, freed>>

\* The member's service context is cancelled (shutdown).
Shutdown(n) ==
    /\ n \notin gone
    /\ gone' = gone \cup {n}
    /\ UNCHANGED <<owner, moves, store, lkr, calls, acq, handle, unl, holding, lapsed, freed>>

\* The TTL of a LockWithTimeout entry elapses.
Expire(k) ==
    /\ store[k] # None
    /\ store[k].ttl
    /\ ~store[k].expired
    /\ store' = [store EXCEPT ![k].expired = TRUE]
    /\ lapsed' = lapsed \cup {store[k].val}
    /\ UNCHANGED <<owner, moves, lkr, gone, calls, acq, handle, unl, holding, freed>>

\* Another client's plain dm.Put of value v over the lock key (spec.md 8,
\* scenario 6): it replaces whatever the key holds, with no TTL.  Nothing in the
\* lock protocol deletes a foreign value; as a bound, a live foreign value
\* is not overwritten again.
ForeignPut(k, v) ==
    /\ ~(Live(k) /\ store[k].val \in ForeignValues)
    /\ store' = [store EXCEPT ![k] = [val |-> v, ttl |-> FALSE, expired |-> FALSE]]
    /\ lapsed' = IF Live(k) THEN lapsed \cup {store[k].val} ELSE lapsed
    /\ UNCHANGED <<owner, moves, lkr, gone, calls, acq, handle, unl, holding, freed>>

\* Rebalancing gives the partition of k to member n (spec.md 4.C, 5): the
\* entry migrates with it, or, when data may be lost, it does not.  The
\* members' lockers are not moved: each is a process-wide mutex.
Move(k, n) ==
    /\ moves < MaxMoves
    /\ n # owner[k]
    /\ owner' = [owner EXCEPT ![k] = n]
    /\ moves' = moves + 1
    /\ \/ UNCHANGED <<store, lapsed, freed>>
       \/ /\ Lossy
          /\ store[k] # None
          /\ store' = [store EXCEPT ![k] = None]
          /\ lapsed' = IF Live(k) /\ store[k].val \in Tokens
                       THEN lapsed \cup {store[k].val} ELSE lapsed
    /\ UNCHANGED <<lkr, gone, calls, acq, handle, unl, holding, freed>>

-----------------------------------------------------------------------------
(* Release: LockContext.Unlock, unlock and unlockKey.                      *)

\* Unlock call o ends with result r; over RPC the reply may be lost.
\* unlockKey's deferred locker.Unlock runs on every return.
Finish(o, r) ==
    /\ lkr' = [lkr EXCEPT ![unl[o].at][unl[o].key] = FALSE]
    /\ \E res \in IF unl[o].remote THEN {r, "err"} ELSE {r} :
         unl' = [unl EXCEPT ![o] = [@ EXCEPT !.pc = "done", !.res = res]]

\* LockContext.Unlock and unlock: resolve the owner of the key; call
\* unlockKey locally, or send OpUnlock to the owner, whose request may be lost.
Unlock(o) ==
    LET c == o[1] IN
    /\ handle[c] # None
    /\ unl[o].pc = "idle"
    /\ \A v \in 1..(o[2] - 1) : unl[<<c, v>>].pc # "idle"
    /\ holding' = [holding EXCEPT ![c] = FALSE]
    /\ LET call == [pc |-> "wait", key |-> handle[c].key, token |-> handle[c].token,
                    at |-> owner[handle[c].key], remote |-> Remote(c, handle[c].key),
                    res |-> "none"] IN
         \/ unl' = [unl EXCEPT ![o] = call]
         \/ /\ call.remote
            /\ unl' = [unl EXCEPT ![o] = [call EXCEPT !.pc = "done", !.res = "err"]]
    /\ UNCHANGED <<owner, moves, store, lkr, gone, calls, acq, handle, lapsed, freed>>

\* Mutant of LockerLock: the locker lets a second caller in.
LockerLockShared(o) ==
    /\ unl[o].pc = "wait"
    /\ lkr' = [lkr EXCEPT ![unl[o].at][unl[o].key] = TRUE]
    /\ unl' = [unl EXCEPT ![o].pc = "get"]
    /\ UNCHANGED <<owner, moves, store, gone, calls, acq, handle, holding, lapsed, freed>>

\* unlockKey: dm.s.locker.Lock(name + key) blocks while another holds it.
LockerLock(o) ==
    /\ unl[o].pc = "wait"
    /\ ~lkr[unl[o].at][unl[o].key]
    /\ lkr' = [lkr EXCEPT ![unl[o].at][unl[o].key] = TRUE]
    /\ unl' = [unl EXCEPT ![o].pc = "get"]
    /\ UNCHANGED <<owner, moves, store, gone, calls, acq, handle, holding, lapsed, freed>>

\* unmarshalValue of a stored token, or of a foreign []byte value, is a
\* []byte; any other foreign value makes the val.([]byte) assertion panic.
DecodesToBytes(v) == v \in Tokens \cup BytesValues

\* Mutant of GetAndCompare: the stored value is not compared with the token.
GetAndCompareNoToken(o) ==
    LET k == unl[o].key IN
    /\ unl[o].pc = "get"
    /\ \/ /\ ~Live(k)
          /\ Finish(o, "NoSuchLock")
       \/ /\ Live(k)
          /\ unl' = [unl EXCEPT ![o].pc = "delete"]
          /\ UNCHANGED lkr
       \/ Finish(o, "err")
    /\ UNCHANGED <<owner, moves, store, gone, calls, acq, handle, holding, lapsed, freed>>

\* Mutant of GetAndCompare: dm.get's ErrKeyNotFound is returned as it is.
GetAndCompareKeyNotFound(o) ==
    LET k == unl[o].key IN
    /\ unl[o].pc = "get"
    /\ \/ /\ ~Live(k)
          /\ Finish(o, "KeyNotFound")
       \/ /\ Live(k)
          /\ store[k].val # unl[o].token
          /\ DecodesToBytes(store[k].val)
          /\ Finish(o, "NoSuchLock")
       \/ /\ Live(k)
          /\ ~DecodesToBytes(store[k].val)
          /\ Finish(o, "panic")
       \/ /\ Live(k)
          /\ store[k].val = unl[o].token
          /\ unl' = [unl EXCEPT ![o].pc = "delete"]
          /\ UNCHANGED lkr
       \/ Finish(o, "err")
    /\ UNCHANGED <<owner, moves, store, gone, calls, acq, handle, holding, lapsed, freed>>

\* Mutant of GetAndCompare: the result of bytes.Equal is negated.
GetAndCompareInverted(o) ==
    LET k == unl[o].key IN
    /\ unl[o].pc = "get"
    /\ \/ /\ ~Live(k)
          /\ Finish(o, "NoSuchLock")
       \/ /\ Live(k)
          /\ store[k].val = unl[o].token
          /\ Finish(o, "NoSuchLock")
       \/ /\ Live(k)
          /\ ~DecodesToBytes(store[k].val)
          /\ Finish(o, "panic")
       \/ /\ Live(k)
          /\ store[k].val # unl[o].token
          /\ DecodesToBytes(store[k].val)
          /\ unl' = [unl EXCEPT ![o].pc = "delete"]
          /\ UNCHANGED lkr
       \/ Finish(o, "err")
    /\ UNCHANGED <<owner, moves, store, gone, calls, acq, handle, holding, lapsed, freed>>

\* unlockKey: get the key and compare its value with the token.
GetAndCompare(o) ==
    LET k == unl[o].key IN
    /\ unl[o].pc = "get"
    /\ \/ /\ ~Live(k)
          /\ Finish(o, "NoSuchLock")
       \/ /\ Live(k)
          /\ store[k].val # unl[o].token
          /\ DecodesToBytes(store[k].val)
          /\ Finish(o, "NoSuchLock")
       \/ /\ Live(k)
          /\ ~DecodesToBytes(store[k].val)
          /\ Finish(o, "panic")
       \/ /\ Live(k)
          /\ store[k].val = unl[o].token
          /\ unl' = [unl EXCEPT ![o].pc = "delete"]
          /\ UNCHANGED lkr
       \/ Finish(o, "err")
    /\ UNCHANGED <<owner, moves, store, gone, calls, acq, handle, holding, lapsed, freed>>

\* unlockKey: deleteKey, then return (releasing the locker).
DeleteKey(o) ==
    LET k == unl[o].key IN
    /\ unl[o].pc = "delete"
    /\ \/ /\ store' = [store EXCEPT ![k] = None]
          /\ freed' = IF store[k] # None /\ store[k].val \in Tokens
                      THEN freed \cup {store[k].val} ELSE freed
          /\ Finish(o, "ok")
       \/ /\ UNCHANGED <<store, freed>>
          /\ Finish(o, "err")
    /\ UNCHANGED <<owner, moves, gone, calls, acq, handle, holding, lapsed>>

\* Every client has made all its calls and every call has returned.
Finished ==
    /\ \A c \in Clients : acq[c] = None /\ calls[c] = MaxLocks
    /\ \A o \in Ops : unl[o].pc \in {"idle", "done"}
    /\ UNCHANGED vars

Next ==
    \/ \E c \in Clients, k \in Keys : Lock(c, k) \/ (UseTTL /\ LockWithTimeout(c, k))
    \/ \E c \in Clients : TimerFires(c) \/ DeadlineExpires(c) \/ ServerGone(c)
    \/ \E n \in Nodes : Shutdown(n)
    \/ \E k \in Keys, n \in Nodes : Move(k, n)
    \/ \E k \in Keys : Expire(k)
    \/ \E k \in Keys, v \in ForeignValues : ForeignPut(k, v)
    \/ \E o \in Ops : Unlock(o) \/ LockerLock(o) \/ GetAndCompare(o) \/ DeleteKey(o)
    \/ Finished

\* The Go runtime fires a ready timer, cancels a context at its deadline and
\* hands a free sync.Mutex to a waiter (starvation mode); a TTL elapses.
\* Callers are under no obligation to call Lock, Unlock or shut down.
Fairness ==
    /\ \A c \in Clients : WF_vars(TimerFires(c)) /\ WF_vars(DeadlineExpires(c))
                          /\ WF_vars(ServerGone(c))
    /\ \A o \in Ops : SF_vars(LockerLock(o)) /\ WF_vars(GetAndCompare(o))
                      /\ WF_vars(DeleteKey(o))
    /\ \A k \in Keys : WF_vars(Expire(k))

Spec == Init /\ [][Next]_vars /\ Fairness

-----------------------------------------------------------------------------
(* Properties                                                              *)

\* A caller that got a LockContext and has not called Unlock still finds its
\* own token stored at the owner, unless the entry's TTL lapsed: no other
\* caller's unlockKey, conditional put or retry can take the lock from it.
LockHeldUntilReleased ==
    \A c \in Clients :
        holding[c] => \/ store[handle[c].key] # None
                         /\ store[handle[c].key].val = handle[c].token
                      \/ handle[c].token \in lapsed

\* Mutual exclusion (spec.md 8): two callers never both hold a LockContext
\* for the same key that they have not unlocked, unless one of the two
\* tokens has lapsed or been overwritten.
MutualExclusion ==
    \A c, d \in Clients :
        /\ c # d /\ holding[c] /\ holding[d]
        /\ handle[c].key = handle[d].key
        => handle[c].token \in lapsed \/ handle[d].token \in lapsed

\* The lock key at the owner follows LockSpec: only a free key is taken, and
\* only an unlock presenting the stored token frees a live key.
Abs == INSTANCE LockSpec WITH
    Requests <- Ops,
    lock <- [k \in Keys |-> IF Live(k) /\ store[k].val \in Tokens
                            THEN [token |-> store[k].val, ttl |-> store[k].ttl]
                            ELSE None],
    pending <- [o \in Ops |-> IF unl[o].pc \in {"wait", "get", "delete"}
                              THEN [key |-> unl[o].key, token |-> unl[o].token]
                              ELSE None]

ImplementsLockSpec == Abs!Spec

\* unlockKey never panics: an unlock of a key another client overwrote
\* returns NoSuchLock (spec.md 8, scenario 6), whatever the value's type.
NoUnlockPanic == \A o \in Ops : unl[o].res # "panic"

\* Acquire leaves no partial state (spec.md 7): a lock entry without a TTL
\* is only ever stored with the token of a LockContext some caller got, so
\* someone can release it.
NoOrphanLock ==
    \A k \in Keys :
        Live(k) /\ store[k].val \in Tokens /\ ~store[k].ttl =>
            \E c \in Clients : handle[c] # None /\ handle[c].token = store[k].val

\* Unlock either releases or reports NoSuchLock, and a NoSuchLock after a
\* successful acquire means the lock was gone first (spec.md 7): an unlock
\* answered NoSuchLock presented a token whose entry had expired, been
\* replaced by another client's put or lost with its partition, or been
\* deleted by an unlockKey.
NoSuchLockExplained ==
    \A o \in Ops : unl[o].res = "NoSuchLock" => unl[o].token \in lapsed \cup freed

\* deleteKey in unlockKey removes only an entry holding the caller's own
\* token: an unlock either releases its lock or reports NoSuchLock
\* (spec.md 7), and never deletes a value another client put.
UnlockDeletesOwnToken ==
    [][\A o \in Ops :
        DeleteKey(o) /\ store' # store => store[unl[o].key].val = unl[o].token]_vars
=============================================================================
