# TLA+ models of olric's storage engine and DMap advisory lock

This directory holds TLA+ models of two parts of olric and the TLC configurations that check them:

- **kvstore**, the storage engine that every DMap partition fragment uses (`src/internal/kvstore/kvstore.go`);
- **the advisory lock** of a DMap (`src/internal/dmap/lock.go`, and its later revision `src/unnamed/part_000`), which is built from DMap's conditional put, get and delete.

## The system's parts and how they interact

| Part | Source | Model |
|---|---|---|
| Table: a slab of encoded entries plus an hkey index | not under src/ (spec.md 4.A) | `KVTable` (spec-modelled) |
| Storage engine: a chain of tables, oldest first | `kvstore.go` | `KVStore` |
| Partition router: hkey -> partition -> owner member | not under src/ (4.C) | the `owner` variable and the `Move` action of `DMapLock` (partly) |
| DMap put / get / deleteKey at the owner | not under src/ (4.D) | `PutIfNotFound`, `Live` and the delete in `DMapLock` (spec-modelled) |
| Fine-grained per-key locker, one per member | not under src/ (4.E) | `lkr` in `DMapLock` (spec-modelled) |
| Advisory lock: lockKey, tryLock, unlock, unlockKey | `lock.go`, `env.go`, `part_000` | `DMapLock`; abstract promise `LockSpec` |
| Put command handler: PUT and PUT.ENTRY | `part_001` | `PutCommand` (dm.put's options spec-modelled); `PutDuration` (the PX/PXAT Duration) |
| Config loader, ping tests | `part_002` | not modelled (parsing and test code) |

The lock interacts with the storage through DMap calls.

- `lockKey` builds an `env` with `IfNotFound` and a fresh token. `tryLock` then puts it at the key's owner, retrying every 10 ms until one of three things happens:
  - the put succeeds;
  - the deadline passes;
  - the member's service context ends.
- `Unlock` either calls `unlockKey` locally or sends an RPC to the owner. `unlockKey` works under the fine-grained locker: it gets the key, compares the token and deletes the key. `unlock` resolves the owner when it is called; get and deleteKey follow the owner, but the locker belongs to the member `unlockKey` runs on, so rebalancing can put two unlocks of one key under different lockers.

The engine is not synchronised. Its caller (the partition fragment) serialises the calls, so each engine call is one atomic step.

## Modules

- **KVTable**: table operations as operators on a record. The record holds the `allocated`, `offset`, `inuse` and `garbage` counters and `hkeys`, a function from hkey to entry. An entry is abstracted to its value, TTL and encoded length. The bytes of the slab are not modelled; the counters describe them.
- **KVStore**
  - State: `tables` (the chain) and `looping` (a `Put` is spinning in its retry loop).
  - Actions, each the whole method:
    - `Put`: try the last table; otherwise append `newTable(Inuse()*2)`. If the entry does not fit even there, the loop never ends.
    - `PutRaw`: the same loop on an encoded entry (`PutRaw == Put`).
    - `Delete`: delete from the newest holder, then stop. On a one-table chain whose garbage reaches 40%, append a table.
    - `UpdateTTL`.
    - `ExportImport`: a one-table engine goes through `Export` and `Import`. The compaction itself is driven from outside the engine.
  - Read operators: `Get`, `GetRaw`, `GetTTL`, `GetKey`, `Check`, `KeyCount` (Len), `Stats`, `InuseOf` (Inuse), `NumTables`, and the recursive `RangeCalls` and `MatchCalls` (MatchOnKey). The constant `Matching` is the set of hkeys whose key the regular expression matches; a key is abstracted to its hkey.
- **LockSpec**: the abstract lock of spec.md 4.F.
  - `lock[k]` is either free or held by a token, with or without a TTL. `pending[r]` holds the unlock calls in flight.
  - `Acquire` takes a free key. `Expire` frees a key held with a TTL. `Release` frees a key whose token matches. `Abandon` ends a call without touching the key. `Overwrite` is another client's plain put over the key, or a partition move that loses the data, after which no token holds it.
- **DMapLock**: the protocol.
  - State:
    - `store[k]`: the owner's entry, with its value (a token, or a foreign value another client put), whether it has a TTL, and whether it has expired;
    - `lkr[n][k]`: member `n`'s fine-grained locker on the key;
    - `owner[k]`: the key's current partition owner (initially the constant `Owner`), and `moves`, the moves so far;
    - `gone`: members whose service context has ended;
    - `calls[c]`: lock calls made;
    - `acq[c]`: the `env` of a `tryLock` in progress;
    - `handle[c]`: the `LockContext` the caller holds;
    - `unl[o]`: the program counter, key, token, the member `at` which `unlockKey` runs, and the result of unlock call `o` (a client paired with a call number);
    - history variables `holding`, `lapsed` (tokens whose entry expired, was overwritten or was lost with its partition) and `freed` (tokens whose entry an `unlockKey` deleted).
  - Actions:
    - `Lock` and `LockWithTimeout`, both `LockKey`, and `TryLock` (the first put);
    - `TimerFires`, `DeadlineExpires`, `ServerGone` (the select of the poll loop);
    - `Unlock`: the request is sent, or a remote request is lost;
    - `LockerLock`, `GetAndCompare`, `DeleteKey`, `Finish` (the deferred release, where a remote reply may be lost);
    - `GetAndCompare` decodes the value (`DecodesToBytes`): a foreign value of another type than `[]byte` makes the `val.([]byte)` assertion panic; the deferred locker release still runs and the call ends with result `panic`;
    - `Shutdown`, `Expire`, `ForeignPut` and `Move` (environment steps). `Move` gives a key's partition to another member, at most `MaxMoves` times; the entry migrates, or, when `Lossy`, it is lost. `ForeignValues` and `BytesValues` say which values other clients put and which of them decode to `[]byte`.
  - A remote put may fail with an error whether or not it was applied (`PutOutcomes`).
  - `Abs == INSTANCE LockSpec` maps the model onto the abstract lock:
    - the live entries holding a token become `lock`;
    - the unlock calls at `wait`, `get` or `delete` become `pending`.
- **PutCommand**: `putCommandHandler` and `putEntryCommandHandler`.
  - State: `store[k]`, the owner's entry of each key (value, whether it has a TTL, whether it expired).
  - `PutOptions` is the handler's `switch`: the first of NX, XX, EX, PX, EXAT, PXAT that the command carries, found with `SelectInSeq` over the switch's order (a TLA+ `CASE` would pick any true arm, not the first). `PutConfig` applies the options; `DMapPut` is dm.put with IfNotFound/IfFound and a TTL (spec.md 4.D).
  - Actions: `PutCommandHandler` (a parse or getOrCreateDMap error writes an error and stores nothing, or dm.put runs), `PutEntryCommandHandler` (a replica's entry stored as sent), `Expire`.
- **PutDuration**: `time.Duration(putCmd.PX*int64(time.Millisecond))`, the TTL of a PUT with PX or PXAT.
  - An int64 is its 8 bytes, little-endian two's complement, because TLC's integers stop at 2^31. `Mul` is Go's int64 product modulo 2^64, computed column by column (`Conv`) with the recursive `Carry`.
  - State: `px` (any value the parser can return) and `ttl`. `Convert` is the switch's PX case.
- **MC_KVStore**, **MC_DMapLock**, **MC_PutCommand**, **MC_PutDuration**: model values, the `HomeOf` and `Owner` functions, and the PX inputs.

## Runs

| Run | Cfg | Expect | What it shows |
|---|---|---|---|
| `lock_nottl` | `MC_DMapLock.cfg` | pass | With `Lock` (no TTL): `LockHeldUntilReleased` and `ImplementsLockSpec` hold. There are two callers on different members, one key, and two locks and two unlocks each, with lost requests and replies and a `[]byte` value put over the key by another client. |
| `lock_ttl_nosuchlock` | `MC_DMapLock_ttl_live.cfg` | pass | With `LockWithTimeout` as well, both kinds of foreign value, retried unlocks and a partition move that migrates or loses the entry, `NoSuchLockExplained` holds (spec.md 7). Every NoSuchLock an Unlock reports presented a token whose entry had expired, been overwritten, been lost with its partition, or been deleted by an unlock. |
| `lock_foreign_panic` | `MC_DMapLock_foreign.cfg` | violation | c1 locks, another client puts a string over the key, c1 unlocks: `unlockKey` panics on `val.([]byte)` where spec.md 8 scenario 6 expects `NoSuchLock`. |
| `lock_orphan` | `MC_DMapLock_orphan.cfg` | violation | c2 locks over RPC; the owner stores the token, the reply is lost, and `Lock` returns an error: a key without TTL that no `LockContext` can release, against spec.md 7 (no partial state). |
| `lock_ttl_mutex` | `MC_DMapLock_ttl_mutex.cfg` | violation | c1 calls `LockWithTimeout`, then Unlock, which passes its token check. The TTL lapses, and c1 locks again with `Lock` (no TTL). The old unlock deletes c1's new lock, and c2 then locks the key: c1 and c2 both hold it, no TTL having elapsed on either (spec.md 8, mutual exclusion). |
| `lock_foreign_delete` | `MC_DMapLock_foreign_delete.cfg` | violation | c1 locks and unlocks; after the token check, another client puts a `[]byte` value over the key. deleteKey removes that value and the unlock returns ok, against spec.md 7 (an unlock releases its lock or reports NoSuchLock). |
| `kv_engine` | `MC_KVStore.cfg` | pass | `TableAccounting`, `FrozenTablesStayFrozen` and `ExportRoundTrip` hold over every sequence of puts, spills, overwrites, deletes, TTL updates and export/import, up to three tables. |
| `kv_delete_totality` | `MC_KVStore_delete.cfg` | violation | Put, overwrite with a spill, delete: `Get` returns the stale copy from the older table. |
| `kv_put_loop` | `MC_KVStore_loop.cfg` | violation | Delete the only key of a fragmented table: Delete appends a 0-byte table, and the next Put spins forever. |
| `kv_range_stop` | `MC_KVStore_range.cfg` | violation | With two tables holding keys, `Range` calls `f` after it returned false. |
| `put_expiry` | `MC_PutCommand_expiry.cfg` | violation | PUT with NX and EX on an absent key answers OK and stores the entry without a TTL: the switch applies only its first case (a spec gap: spec.md leaves command parsing out of scope). |
| `put_px_wrap` | `MC_PutDuration_wrap.cfg` | violation | PX = 9223372036855 ms gives the Duration `-9223372036854551616` ns, and PX = 2^58 ms gives 0 (no expiry). |

The nine violations are recorded as findings in `PROJECT.json`, where the code disagrees with spec.md:
- delete totality;
- the minimum table size;
- Range's early stop;
- the panic on a foreign value;
- the lock orphaned by a lost put reply;
- a stale unlock after a TTL lapse, which deletes the next holder's lock and lets two callers hold the key;
- another client's value deleted by an unlock whose token check it followed;
- the PUT expiry dropped beside NX or XX;
- the PX Duration that wraps to zero or a negative value.

### Other configurations

Four configurations are kept beside the runs, though they are not among them:
- `MC_DMapLock_ttl.cfg` checks `LockHeldUntilReleased` and finds the TTL race of `lock_ttl_mutex` three steps earlier.
- `MC_DMapLock_move.cfg` checks `LockHeldUntilReleased` with one partition move. One caller issues two Unlocks of one handle around the move, so they run under different members' lockers, and the second deletes a newer lock. It is not a finding: spec.md 1 and the doc comments of `Lock` and `LockWithTimeout` (lock.go:180, 189) call the locks approximate under membership changes.
- `MC_PutCommand.cfg` checks `TypeOK` of `PutCommand` over all 64 argument combinations.
- `MC_PutDuration.cfg` checks `DurationIsMilliseconds`. This is the reference check of `Mul` against integer multiplication for every PX from 0 to 2147 ms, the range where the product stays below 2^31. It passes with 4302 states; the microsecond mutant breaks it.

### Bounds

- **kv_engine**
  - Two hkeys and entry lengths 1 and 2 are enough for overwrites of different sizes. With `MinimumSize = 4`, a table fills after two to four puts, so spills, garbage above 40% and 0-byte tables all occur.
  - `MaxTables = 3` allows a spill from a spilled table, where frozen tables and Range's missing stop are visible.
  - One value is enough because no property distinguishes values.
- **lock_nottl**
  - c1 lives on the owner and c2 does not, so both the local path and the RPC path run.
  - With two locks and two unlocks per client, the following all occur: a double unlock, an unlock after re-locking, an unlock racing another client's lock, and a lost request or reply.
  - A live foreign value is not overwritten again: nothing in the protocol removes it, so a second overwrite adds no case.

- **Partition moves**
  - `lock_ttl_nosuchlock` allows one move, which may lose the entry, with one lock and two unlocks per client. The second unlock covers spec.md 8 scenario 4 (Unlock twice on one handle) and the retry after a lost reply. That is about 920,000 states in under 20 seconds. Two locks and two unlocks each do not finish in 30 minutes.
  - The other lock runs set `MaxMoves = 0`.
- **lock_foreign_delete**
  - One lock and one unlock per client, and one `[]byte` foreign value: the smallest setting where a put can land between the token check and deleteKey.
- **put_px_wrap**
  - Three PX values at the int64 edge, enumerated as bytes:
    - 2^58 ms, whose product is exactly 2^64;
    - 9223372036855 ms, the least PX whose product passes 2^63;
    - the largest int64.

### Fairness

`Spec` of `DMapLock` states the fairness the Go runtime gives:
- the poll loop's timer, deadline and shutdown cases are weakly fair;
- `LockerLock` is strongly fair (a starved waiter is handed the mutex);
- the owner's get and delete are weakly fair;
- TTL expiry is weakly fair.

No run checks a liveness property. Under this fairness, "every Lock and Unlock call returns" holds by the deadline case alone, whatever the loop does, so checking it would say nothing about the code. Rebalancing has no fairness: a partition may never move.

### Mutants

Each property of a passing run is broken by a plausible bug in the code it maps. The lock mutants:
- a compare that returns the DMap's KeyNotFound instead of NoSuchLock;
- a locker that admits two unlocks;
- a compare that ignores the token;
- a compare whose bytes.Equal is negated.

The Duration mutant, used by `MC_PutDuration.cfg`, computes microseconds instead of milliseconds.

The kvstore mutants:
- a garbage check on any chain length;
- an Import that drops the garbage counter;
- a Put into the first table;
- an Export without garbage.

## Not modelled

1. **The partition router itself**: partition tables, hashing, replication and the rebalancer's protocol. Only the owner of each key and its changes are modelled. Delayed (not just lost) RPC messages are not modelled either.
2. **An abstract key/value map** for the engine, with a refinement that uses an operation history, so that Delete's resurrection shows as a refinement failure. MatchOnKey's `regexp.Compile` error return is not modelled (no state changes). `MatchCalls` computes how often MatchOnKey calls its callback, but no run checks it: the only property stated of it restated the return at kvstore.go:419.
3. **The config loader and the ping tests.** These are out of scope: parsing and tests.
4. **Inside the put command**: ParsePutCommand, and the float64 conversion of EX/EXAT to a Duration, whose out-of-range result is implementation-defined. PX/PXAT are modelled in `PutDuration`. In `PutCommand` a TTL is only present or absent.
