# saysion: TLA+ models, checks and proofs

saysion keeps web sessions: a `Session` value that request handlers share, and
stores that persist it (in memory, SQL, Redis, MongoDB, or in the cookie
itself). Most of the difficulty is in what happens when clones of a session,
independent requests and cancelled futures meet at one record. This directory
models it in TLA+, checks it with TLC on small instances, and proves the
properties of change tracking, of the session lifecycle, of every store, of expiries
and of signed cookies for all instances.

## 1. Inventory

| Component | State | Operations | What makes it correct |
|---|---|---|---|
| Change tracking: `SessionData`, `SaveRevision` (`session.rs`) | values, `revision`, `persisted_revision`, `active_saves`, `overlapping_saves`, `uncertain_save`, one lock | `insert_raw`, `remove`, capture, acknowledge, drop, `reset_data_changed` | a session that reports no change is really stored; counts never strand |
| Identity: `Session` (`session.rs`) | shared by clones: `persisted_id`, `creation_claimed`, `destroy`; per handle: `id`, `rotation_from`, `fresh` | `new`, clone, `regenerate`, `destroy`, `persistence_attempt`, `mark_persisted`, `begin_delete`, `validate_loaded` | a session is stored under at most one ID; a removed one never returns |
| Lifecycle lock (`session_lifecycle.rs`) | asynchronous mutex, `uncertain` | `write`, `delete`, `finish`, `require_cleanup`, `confirm_removed`, drop of a guard | a successful deletion is final; every waiter gets the lock |
| Stores: `MemoryStore`, three SQL stores, `RedisStore`, `MongoDbStore` | records; `MemoryStore`: RwLock and expiry index | `load_session`, `store_session`, `destroy_session`, `clear_store`, cleanup | insert without overwriting, update only what exists, rotate indivisibly |
| `SessionSave` (`session_save.rs`) | snapshot, receipt, `write_started` | `begin_write`, `complete_with_guard`, `confirm_removed`, `complete` | a custom store that follows it gets the same guarantees |
| Metadata: `expiry`, `cookie_value`, `metadata_changed` (`session.rs`) | one flag per handle; a coarser expiry in each backend | `set_expiry`, `is_expired`, clone, `validate_loaded` | no change goes unreported; a load shares nothing; no store gives a session up before its expiry |
| `CookieStore`, `SignedCookieStore` | signing key, fallback keys | encode, decode, `with_fallback_key` | accepts what it signed and nothing else, within the size limit |
| SQL migration (`index_target` in `sqlx_store.rs`) | - | splits a quoted table name | the index is in the schema of the table |

Interaction. A request calls `load_session`, which starts a *family*: all clones
of the returned `Session` share data, identity and lifecycle lock. Two requests
that load the same record have separate families and meet only in the backend.
`store_session` and `destroy_session` take a `Session` by value. `store_session`
captures origin and data, waits for the lifecycle lock, checks again, talks to
the backend, and publishes the new identity and the acknowledgement before it
lets the lock go. `destroy_session` first sets `destroy`, which running saves
look at when the backend has answered, then waits for the lock.

Hard behaviours: interleaving of clones and of independent requests; futures
dropped at any await, with a request that still takes effect later; destruction
during a write; rotation in two statements (SQL, MongoDB); cleanup that selects
and removes under different locks; `clear_store` while sessions are written; locks,
pooled connections and row locks held together; expiries rounded to seconds and
milliseconds; keys rotated while cookies are out.
`PROJECT.json` lists each under "hazards" with the line where it bites.

## 2. Modules

| Module | Models | Extends |
|---|---|---|
| `SaveTracking` | change tracking of one family | - |
| `SaveTrackingProofs` | its theorems | `SaveTracking` |
| `Session` | families, handles, lifecycle lock; everything in a store call that is the same for all stores | - |
| `ServerStore` | the store contract: backend steps are indivisible | `Session` |
| `ServerStoreProofs` | its theorems | `ServerStore` |
| `UnsavedRegeneration` | which handle was itself regenerated, for one property of deletions | `ServerStore` |
| `RedisStore` | commands and script, `clear_store` by SCAN and UNLINK | `ServerStore` |
| `SqlStore` | the rotation transaction and row locks | `ServerStore` |
| `SqlClear` | PostgreSQL's `DELETE FROM` beside rotations | `SqlStore` |
| `SqlStoreProofs` | theorems about `SqlStore`, `SqlClear` and `SqlPool` | `SqlClear`, INSTANCEs of `ServerStoreProofs` and `SqlPool` |
| `SqlPool` | the connection pool, with lifecycle lock and row locks | `SqlStore` |
| `SqliteNames` | `index_target` | - |
| `MemoryStore` | the store lock, and the critical section in two steps | `ServerStore` |
| `MongoStore` | rotation as two separate writes | `ServerStore` |
| `CustomStore` | `SessionSave`, used by a store that confuses tokens and guards | `ServerStore` |
| `LockedStore` | `complete` and `prepare_delete`, used by a store with a lock of its own | `ServerStore` |
| `Stores` | a site with one of `MemoryStore`, `CustomStore`, `LockedStore`, `SqlStore`, `MongoStore` | `ServerStore`, INSTANCE of the five |
| `StoresProofs` | theorems about `Stores` and `RedisStore` | `Stores`, `RedisStore`, INSTANCEs of `ServerStoreProofs` (one per store) and `SqlStoreProofs` |
| `ExpiryIndex` | `MemoryState` and `cleanup_batch` | - |
| `ExpiryIndexProofs` | its theorems | `ExpiryIndex` |
| `StoredExpiry` | how exactly each store keeps an expiry | - |
| `StoredExpiryProofs` | its theorems | `StoredExpiry` |
| `SharedData` | clones, metadata, `validate_loaded` | - |
| `SharedDataProofs` | its theorems | `SharedData` |
| `SignedCookie` | both cookie stores, on the servers of a site | - |
| `SignedCookieProofs` | its theorems | `SignedCookie` |
| `MC*` | symmetry sets and constants for TLC | the module they are named after |

### SaveTracking

One family's `SessionData`, field by field. All operations hold the data lock
for their whole effect, so each is one action. A save is a slot that goes from
`idle` to `captured` (`Capture`: `persistence_snapshot`, `immutable_snapshot` or
`serialize_bounded`), to `written` (`BackendWrite`), and back to `idle` by
`Acknowledge` or, from either stage, by `DropSave`. A slot is reused, so there
is no bound on the number of saves, only on how many are active at once.
`lag` and `synced` are history variables: how many edits separate a snapshot
from the present, and whether the acknowledged state comes from a load or a
save and not from `reset_data_changed`, by which the application declares data
clean that need not be stored.

Abstractions: a record is the map it holds (expiry and ID are left to the other
modules); a write takes effect before its save ends. A backend that applies an
update after its future was dropped can overwrite newer data;
`docs/custom-stores.md` says that the protocol does not fence this, and it is
listed as a hazard without property.

### Session and ServerStore

A *handle* is a `Session` value together with the call it was moved into. Its
stage follows the await points of the code:

| Stage | Code |
|---|---|
| `live` | in the application's hands |
| `lock` | `store_session` waits in `Lifecycle::write` |
| `write` | the guard is held, the backend has not executed the write |
| `insert` | only SQL and MongoDB: between the two statements of a rotation |
| `wrote` | the backend has executed the write; the future may not know yet |
| `dlock` | `destroy_session` waits in `Lifecycle::delete` |
| `delete` | the delete guard is held, the target chosen |

Handles are slots and are reused. A *family* is one `Session::new` or one
successful load. `BeginSave` is `persistence_attempt` with the capture;
`BeginBackendWrite` and `RefuseBackendWrite` are `begin_guarded_write` once the
lock is free; `CompleteSave` is `finish`, `mark_persisted` and the drop of the
guard; `Compensate` is the path on which `finish` reports destruction. When a
future is dropped or fails (`AbandonWrite`, `AbandonDelete`), a request it may
have sent goes into `flying` and can land at any later time, once, or never.

History variables: `maker` (which family drew an ID), `lineage` (the ID of the
`Session::new` it descends from, through regenerations and loads), `gone` (IDs
whose record was removed), `ended` (lineages that were removed without
successor), `deleted` and `revoked` (families with a successful
`destroy_session`; `revoked` only when the handle was not superseded, because
the docs promise nothing about descendants of a completed rotation).

Abstractions, and why they are sound for the properties:

- IDs are 512-bit random values hashed with blake3; no ID is drawn twice.
- A record is the presence of its ID. Late *updates* therefore change nothing
  and do not fly.
- `persistence_attempt` reads `destroy`, then `persisted_id`, then claims
  creation with a compare-and-exchange. The three reads are one action: `destroy`
  and the claim only ever go up, a lost claim is a refusal in both orders, and
  a refused session is discarded.
- `finish` and `mark_persisted` are one action: no backend call or await lies
  between them, the lifecycle lock is held, and a reader of `persisted_id` in
  between is the same as one before the action.
- `Expire` removes a record at any time: cleanup, Redis TTL or the MongoDB TTL
  index. An expired record that is still there cannot be loaded, but the code
  does update it; leaving it in place allows both.

### UnsavedRegeneration

`ServerStore` with one history variable more: `regenerated_from`, the ID that a handle
had before its own first `regenerate`. It tells a handle that was regenerated from a
clone that another handle's rotation superseded. The second one targets only its own
old ID when it is destroyed, as the comment of `prepare_delete` says; what the
documentation promises for an unsaved regeneration is about the first.

### SqlStore

The three SQL stores have the same code up to placeholders. A rotation is
`DeleteSource` (BEGIN and DELETE) followed by `Commit` (INSERT and COMMIT) or by
a rollback (`Abandon`). Between the two, the row is locked: other statements on
it wait (`Unlocked`), and readers see the old state. `clear_store` waits until no
transaction is open, as the strictest isolation has it; `SqlClear` has
PostgreSQL's default. `ImplementsContract` maps `insert` to
`write`: until COMMIT the save is still waiting for its answer.

### SqlClear and SqlPool

`clear_store` on PostgreSQL is one `DELETE FROM` at READ COMMITTED. `StartClear`
takes its snapshot, `DeleteRow` visits one row, waiting for a transaction that
holds it and skipping it if that transaction removed it, and `EndClear` commits.
Statements on rows it has deleted wait for it. When its future is dropped, the
statement may roll back, or go on at the server without a caller (`"lost"`) and
commit later (`EndLostClear`) or fail. `ClearIsThorough` says what this
guarantees, the run `clear_during_rotation` what it does not.

`SqlPool` adds the pool's connections. A call takes the lifecycle lock, then a
connection, then row locks; a save that destruction overtook takes a second
connection while it holds the lifecycle lock. sqlx's acquire timeout and the
databases' lock timeouts are left out on purpose: calls must return without them.
Its liveness property is about these SQL calls. `MemoryStore`'s own lock is no part
of it: its critical section does not await, and takes no other lock.

### SqliteNames

The scan of `index_target`, as a fold over the characters of the name, for every table
name that SQLite accepts within the bounds, quoted identifiers included. `Misplaced`
compares the result with the identifiers the name was written from. The look at
a doubled quote is not even needed for the split: without it the scan would leave
the quotes and enter them again at once. `MCStoredExpiry` extends the module, since
the index is what the cleanup of `StoredExpiry` works with.

### RedisStore

`SET NX`, `SET XX` and the rotation script are one step each. `clear_store` is a
loop: `Scan` returns keys, `Unlink` removes a batch of them, and the loop ends when
the cursor is zero and all keys are unlinked. SCAN is modelled by its promise: a
key that is there throughout is returned before the cursor is zero; any other
may be or not (`unseen` is what it still owes). An abandoned clear may leave one
UNLINK on its way. `CommandsImplementContract` is the contract's specification, with
`clear` hidden: each UNLINK is a clear of some IDs.

### MemoryStore

`Stores` takes it with `CanOutliveFuture` FALSE: nothing survives a dropped future. The critical
section has no await but is two steps, since another thread can set `destroy`
between the insertion and `finish`. The contract sees the same state without the
store lock.

### MongoStore

`DeleteSource` and `InsertReplacement` are separate, visible writes, so the
contract's rotation is not refined: `RotationKeepsSession` does not hold of it,
as `docs/session-lifecycle.md` says. `MongoRevokes` and `MongoLossIsFenced` state what holds instead.

### CustomStore

A store outside the crate with an indivisible backend, which uses the guarded
protocol of `SessionSave` but makes mistakes with it: it passes the guard of one
save to the token of another (`ForeignGuard`), completes although destruction
came after it looked (`CompleteTooLate`), calls `complete` on a save that has
begun the guarded protocol (`CompleteStarted`), or drops a save that
`validate_current` refuses. A receipt identifies its save, so two receipts are
equal when the handles are. `spent` holds the saves whose token was consumed
while their guard lived on; all that is left to do with those is to drop the
guard. `ImplementsContract` says that each mistake is a step the contract allows
anyway: an abandoned save behind the uncertainty fence, or nothing. The model
does not let a store complete a write that its backend did not confirm, or
confirm a removal that did not happen: those the code cannot detect.

### LockedStore

A store outside the crate that uses the older helpers, `complete` and
`prepare_delete`, which know nothing of the lifecycle lock. It holds one lock of
its own from `validate_current` to `complete`, and from the selection of a deletion's
target to the removal; when `complete` returns None it removes what it wrote.
`ContractFamily` maps the owner of that lock to the holder of the lifecycle
lock of the family it works on. Its futures do not yield under the lock, so
they cannot be dropped there.

### Stores

One site, one store: `kind` is chosen in the initial state and the steps are those
of that store's module. The properties are stated once for all of them.
`ImplementsContract` maps each state to the contract with the store's own mapping
and says that each step is one of the contract or a stutter; MongoDB is exempt,
and only creates no record of a deleted family there; `MongoRevokes` names the
invariants of the contract that it keeps.
`RecordsAreKnown` says what an idle family may rely on, and is stronger for stores
whose requests end with their futures. `RedisStore` and `SqlClear` have runs of
their own, as their clears add state.

### ExpiryIndex

`records` gives each ID its expiry, `Never` or `Absent`; `expiries` is the
`BTreeSet` as a set of pairs with its order `Before`. `Start` reads the clock,
`Select` takes candidates under the read lock, `RemoveChunk` removes one chunk
under a write lock. `Insert` with any expiry stands for first saves, updates,
rotations and renewals, which MemoryStore performs with the same function.

### StoredExpiry

One record from birth to removal, with an exact expiry, a deadline in the
backend's unit (`Sent`: SQL seconds, BSON milliseconds, a Redis time to live that
counts from the arrival of the request) and the time its request was under
way. Saves, a load and a SQL cleanup read the clock in one step and use what they
read in a later one. A tick of the clock is the resolution of `OffsetDateTime`.
"Not early" is meant as strictly as `is_expired` has it, with one exception that
`Outlived` names: MongoDB's TTL index also removes a document at the very instant
of its expiry.

### SharedData

Which `Session` values refer to which `SessionData`. A cell is an allocation behind
an `Arc`; it is free again when nobody refers to it. `CheckShared` reads the
reference count in `validate_loaded`, `CopyShared` and `ResetOwned` act on it later,
while other threads clone, edit, save and drop other values. `moved` is history:
expiry or identity are not those of the load, the creation or the last reset.
`SaveTracking` and `Session` take for granted what is shown here: that a load starts
a family of its own.

### SignedCookie

The servers of one site, the cookies that browsers hold, and the two changes a
deployment goes through: from `CookieStore` to `SignedCookieStore`, and from one
signing key to the next. `config` is the store that the site's configuration makes.
`RotateKey` is the recipe of `docs/en/stores.md`, `new(new_key)` with the key so far,
and the fallback keys there were, as fallback keys; `RemoveFallbackKey` waits for
what the comment of the store asks for, the maximum lifetime of cookies after the
last use of the key. A store is immutable, so a server takes the configuration over
by a restart (`Deploy`). Servers restart one by one, in any order, serve requests in
between, and may skip configurations. A cookie is its format, the key of its tag, its
expiry and its length. That a tag verifies under the key that made it and no other is
assumed: HMAC-SHA256 is a library's. The lengths are computed as in the code.

`LiveCookiesLoad` says what the recipe gives. `rank` numbers the keys in the order in
which the site took them up, and a live cookie loads on every server that signs with
the cookie's key or a later one. It does *not* load on a server that has not restarted
yet: while a rotation is being rolled out, a cookie of a restarted server is rejected
by one that still has the old key alone, which is what the test
`fallback_keys_verify_but_never_sign` of `signed_cookie_store.rs` asserts of such a
pair. No line of the source promises more. A site that wants none of its cookies
rejected meanwhile has to hand out the new key as a fallback before it signs with
it; that discipline is a site's own and is not assumed here.

## 3. Runs

| Run | Instance | Shows |
|---|---|---|
| `save_tracking` | 1 key, 2 values, 3 saves, modulus 4 | clean data is stored; counts are exact; only a save that ran alone cleans |
| `server_store` | 3 handles, 2 families, 2 IDs | no fork, no resurrection, rotation does not lose the session; the uncertainty fence is complete; a successful deletion is final |
| `unsaved_regeneration` | 2 handles, 1 family, 2 IDs | violated: see section 6 |
| `stores` | 2 handles, 2 families, 3 IDs, each of five stores | the stores refine the contract; MongoDB revokes like it, and its loss is fenced |
| `redis_store` | 2 handles, 2 families, 2 IDs, batches of 1 | commands, compensating deletes and the scanning clear refine the contract; the clear is thorough |
| `sql_clear` | 2 handles, 2 families, 2 IDs, clears that outlive their caller | PostgreSQL's clear refines the contract; the IDs of its snapshot are gone for good |
| `clear_during_rotation` | 1 handle, 2 families, 2 IDs | violated: see section 6 |
| `sql_pool` | 3 handles, 2 families, 3 IDs, 1 connection, fair | no call hangs on locks, connections or rows |
| `stored_expiry` | 1 saver, times 0 to 8, 2 ticks in a ms, 2 ms in a second; table names of 2 quote characters, 1 letter and quoted contents up to 2 characters | no store gives a session up early or keeps it long; the index is on its table |
| `shared_data` | 3 handles, 3 allocations, 2 values | loads are isolated; counts and metadata flags are exact |
| `signed_cookie` | 2 servers, 3 keys, 1 cookie at a time, times 0 to 5 | servers that have a cookie's key or a later one load it while it lives; nothing unsigned gets signed |
| `expiry_index` | 3 IDs, times 0 and 1, 2 cleaners, limits 1 and 3, chunks of 2, fair | the index is exact; no live session is removed; every expired one is reached |

Why the bounds are enough. Overlap needs two saves and the end of a cohort a
third; a modulus of 4 wraps within a run. In one family the race needs a saving,
a rotating and a deleting handle; `server_store` has all three, with a second request
beside them. A third ID, for a rotation after a rotation, is in `stores`, and the
proofs of section 4 cover every number.
Two families are two requests on the same record. The
bounds on families and IDs limit how many are ever created, those on handles
how many exist at once. Expired records behind and before live ones, a limit below
and above the number of records, and a chunk smaller than the candidates all
occur in `expiry_index`; two cleaners with more times are covered by the proofs. A clear needs a record, one that replaces it and a batch
smaller than the keys scanned; in `redis_store` two handles save, rotate, destroy each other's
saves and leave late requests behind, so that compensating deletes and superseded
clones meet the clear in every order. One connection is the
smallest pool; with two handles in one request and one in another, saves
compete for a lifecycle lock, for rows and for the connection, and a compensating
delete needs it a second time. In `SqlPool` every handle makes one call. Times in
`stored_expiry` reach past two whole seconds, so an expiry, a deadline and a renewal
fall on all sides of a boundary. `shared_data` needs a value that loads, one that
shares with it and one that takes its place. The properties of `signed_cookie`
speak of one cookie at a time, so one at a time is enough; three keys make
two rotations overlap; the lengths are the real ones, with the largest session
that fits and the next one. Handles, families and IDs are interchangeable and
symmetric in the safety runs; the liveness runs use no symmetry.

Deadlock is checked in every run. In the store models `clear_store` is always
possible, so it says little there; `EveryCallReturns` is the real statement.

Fairness. `SqlPool`: weak fairness of each call's steps: the database answers, the
application polls the futures it holds, and a waiter that finds the lifecycle lock or a
connection free takes it. Nobody relies on a fair queue, because every handle makes
one call, and nothing forces a handle to be saved, dropped or cancelled.
`ExpiryIndex`: the application calls cleanup repeatedly, and does not drop
every call before it gets its locks (strong fairness of `Select` and
`RemoveChunk`). `CleanupReachesAll` excludes sessions that are stored already
expired for ever: they sort in front of older candidates and really can hold
them up.

Each property has a mutant of the code's definition that breaks it: the
operators whose comment starts with "The bug of" in the modules.

## 4. Proofs

TLAPS proves, for all values of the constants under the ASSUMEs of each module:

- `SaveTrackingProofs`: `TypeCorrect`, `CleanDataIsStored`,
  `ActiveSavesCounted`, `OnlyConfirmedDataTurnsClean`. `CleanIsStored` is not
  inductive: it needs to know that equal revisions mean equal values. `IInv` adds
  that revisions count edits modulo `RevisionModulus` (`RevisionsCountEdits`),
  that a save outside an overlapping cohort is alone and its write the last one
  (`AloneUnlessOverlapping`, `StandaloneWriteIsLast`), and that no active save is
  older than confirmed data (`ActiveSavesAreNewer`).
- `ExpiryIndexProofs`: `ExpiryIndexTypes`, `IndexStaysExact`, `CleanupIsSafe`. The invariant adds
  that a running cleanup's time is not in the future.
- `ServerStoreProofs`: `ServerStoreTypes`, `RemovedStaysRemoved`,
  `SessionsNeverFork`, `EndedSessionsStayEnded`, with and without requests that
  outlive their futures. The three safety properties are proved together by one
  invariant, because each rests on the others. A record is created in two ways
  only. An *insertion* needs a ticket: a save, or a request it left behind, whose
  origin is "nothing stored". `TicketsAreUnique` says that a lineage has at most
  one, and that no ID of a lineage with a ticket was ever stored; `creation_claimed`
  gives tickets out (`ClaimedOnceStored`, `FreshLineage`). A *rotation* replaces
  its source: `OneSource` says that every rotation to an ID, by a handle or by
  a request under way, has the same source, and `RotationsAreSound` that the source
  shares the ID's lineage and is gone once the ID was stored, so a second
  rotation finds no source. `PersistedIsStored` and `OriginsAreOwn` tie what a
  save works with to what its family knows.

  `RotationsLoseNothing`, `RecordsAreKnownOrFenced`, `RevocationIsFinal` and
  `DeletionIsFinal` need to know who may do what to a family, and extend the
  invariant to `FullInv`. `Locking`: whoever writes or deletes holds the lifecycle
  lock (`HoldsLock`), works with the `persisted_id` that its family still has and knows
  whether dropping it must raise the fence (`WritesCurrent`), under a lock without
  uncertainty (`MarksDeletion`). `Fence`: each creation that can still land has
  raised the fence of the family that drew its ID (`LateWritesAreFenced`), and a
  record is the `persisted_id` of that family, was just written by a save that will
  say so, or the fence is up (`NoStrayRecord`). `Finality`: after a successful
  deletion `destroy` is set, the fence is down and no save of the family writes
  (`DeletedIsFenced`). That no record is left then follows: the deletion held the lock,
  so no save was at work, and with the fence down the only record the family
  could have is the one that was its target. TLC found the
  invariants to hold on small instances before they were proved.
- `SqlStoreProofs`: `SqlClearIsThorough`, `SqlClearImplementsContract`,
  `SqlClearKeepsFamilies`, `SqlClearNeverStandsStill`, `SqlPoolNeverExhausted`; and
  the lemmas that `StoresProofs` needs about rotations in transactions. See below.
- `StoresProofs`: `StoresInvariant`, and from it `StoresImplementContract`,
  `StoresKnowTheirRecords`, `MongoRevocationHolds` and `MongoLossesAreFenced`, see below;
  and of `RedisStore` `RedisImplementsContract`, `RedisKeepsFamilies`,
  `RedisClearIsThorough`. Each step of `RedisStore` is a step of `ServerStore` or a
  stutter, so the invariant of `ServerStoreProofs` holds here as well. `ClearIsOwed` says
  that each ID of the start of a clear is still owed by SCAN, waits for its UNLINK or is
  removed for good; the last needs that removed IDs do not return.
- `StoredExpiryProofs`: all six properties of `StoredExpiry`, for any number of ticks in a
  millisecond and any number, at least two, of milliseconds in a second. `RecordKeeps`
  and `SavesFit` relate a deadline to the exact expiry it was made from,
  `ClocksLookBack` a time that was read to the clock now.
- `SharedDataProofs`: `SharedDataTypes`, `SavesStayCounted`, `MetadataStaysTracked`,
  `LoadsStayIsolated`. `DataIsAlive` says that what a value refers to is not freed;
  `ResetIsAlone`, that a value which saw itself alone still is: nobody can clone
  it meanwhile, as `validate_loaded` owns it.
- `SignedCookieProofs`: `SignedCookieTypes`, `LiveSignedCookiesLoad`, `LegacyIsNeverSigned`,
  `OnlyOversizedAreRefused`. A key matters while a server signs with it or a live cookie bears
  it (`InUse`). Such keys are ordered by `rank`, and the configuration has the last one
  (`KeysOrdered`); the configuration verifies them all (`ConfigVerifies`), and a
  server those up to its own (`ServersVerify`), however far behind it is. A fallback key
  is removed only when it no longer matters, since a cookie expires within the
  lifetime counted from the last use of its key (`LifetimeBounded`). And no
  request at a signing server carries unsigned contents (`NoLegacyRequest`).

The stores. `StoresProofs` instantiates `ServerStoreProofs` once per store, with
the state that the store's refinement mapping shows to the contract, so that
every lemma about the contract is one about the store. `StoresInv` says, per
kind of store, that the contract's invariant `FullInv` holds of what the store
shows, and what ties the rest of its state to that:

| Store | What it shows | What its own part of the invariant says |
|---|---|---|
| `MemoryStore` | its state | nothing: `Locking` already says that what is read again under the store lock is what the save took before |
| `CustomStore` | its state | nothing more than the type of `spent` |
| `LockedStore` | its lock's owner as the holder of the lifecycle lock | `OwnLock`: who writes or deletes owns the lock, and the lifecycle lock and the fence are unused; `TargetsAreCurrent`: what `prepare_delete` chose still is the target when it is removed |
| `SqlStore` | a rotation between its statements as one that still waits | `RowsHeld`: an open transaction holds the row of its source, which is stored, and no two hold the same |
| `MongoStore` | a rotation between its writes as one that has been executed | see below |

From the invariant, each step of a store is a step of the contract or a stutter;
that is `StoresImplementContract`, action by action.

The clear of PostgreSQL. While a `DELETE FROM` runs, `SqlClear` still shows the
contract a state in which nothing is removed; at its end, it shows the
contract's `clear_store` of the rows it has deleted. For that no transaction may hold one of them, and for
`SqlClearIsThorough` each ID of the snapshot must be owed, deleted or gone. `ClearHolds`
says both: what is deleted is stored and not held by a transaction, because every
statement on it waits (`DeletedRowsStay`); what was visited and not deleted was
removed by others, and so is gone for good (`RemovedIsGone` of `ServerStoreProofs`).
`SqlClearKeepsFamilies` reads the contract's invariants back, as no mapped value
appears in them.

Waiting. `NoOrphanedLock` of `ServerStoreProofs`: the holder of a lifecycle lock is
always a call of that family in the middle of its backend request (`LocksAreInUse`), so
whoever waits for the lock waits for a call whose end releases it, be it an
answer, an error or the drop of its future. `SqlClearNeverStandsStill` has three kinds
of locks: lifecycle locks, rows that rotations hold, rows that `clear_store` holds. While
a call or a clear runs, one of them can go on without anyone giving up
(`NoStandstill`): a rotation between its statements waits for nobody; without one
no row holds up `clear_store`; and without that, none holds up a call that has its lock.

`SqlPoolNeverExhausted` says the same of connections, lifecycle locks and rows, for
a pool of any size (`NoExhaustion`). `PoolInv` adds `ConnectionsAreInUse`: each connection
serves one statement of a running call, which waits for no second one, and a
rotation keeps its own. So if no row is held, whoever has a connection can use it, and
if nobody has one, there is one for each that needs it. `SqlPool` starts with a
stored session, so `PoolInitially` shows that this state, too, satisfies `FullInv`. The
hypotheses of the theorem are the ASSUMEs of `SqlPool`.

The guards `CanGoOn`, `ClearCanGoOn` and `PoolCanGoOn` are those of the actions, written
out, since ENABLED is out of the prover's reach. Both theorems are the safety part
of "every call returns"; that nobody is overtaken for ever is a matter of
fairness, and TLC checks it (`EveryCallReturns`).

MongoDB does not implement the contract: after the source is deleted, the session
is nowhere stored, and may stay so. The proof shows to the contract a session
whose replacement is still to come as if it were stored: `Pending` holds the IDs that
a rotation in the middle, or a late insertion that was left by one, may still insert.
Then the deletion of the source is the contract's rotation, the insertion is a
stutter, and the only step that the contract has not is a *loss*: the future of the
rotation is dropped, or its insertion fails, and the pending ID goes without having
been stored. `ServerStoreProofs` has this step as `LoseRotation` and shows
(`LoseStep`) that it keeps the contract's invariant, as long as nobody but the save
itself knows the ID (`KnownToSaveOnly`). `PendingIsPrivate` proves that. A loaded
session, `persisted_id`, `rotation_from` and the target of a deletion are *real*:
stored now or once (`Real`), or, for a deletion, never to be stored because the
family is destroyed (`Dead`, `Harmless`). `PendingIsFenced` says that a pending
late insertion has raised the uncertainty fence of its family, and `LossIsFenced`
follows for what was lost. `MongoRevocationHolds` then reads the contract's
invariants back: what MongoDB stores is a subset of what it shows.

Assumptions: finite `Saves` and handles of `SharedData`, a modulus of at least 2 with `NoLap` (fewer edits
than the modulus between two revisions that are compared), expiries that are
integers, a prefix and a tag that fit the cookie's limit, and "none" values
outside the sets they extend. `NoLap` leaves out that revisions meet again after
2^64 edits during one save: nothing is claimed of that case, in which a session
could report itself clean. No assumption bounds the number of handles,
families, IDs, saves, records, cleanups, servers, keys or cookies.

Only model-checked: the liveness properties `EveryCallReturns` and
`CleanupReachesAll`, as fairness is out of the prover's reach; and
`IndexFollowsTable` of `SqliteNames`, a fold over the characters of a name, which
needs induction over data. Every other property of the passing runs is proved.

## 5. Not modelled

- Late updates. A cancelled update that reaches the backend after a newer save can
  overwrite it; `docs/custom-stores.md` says that the protocol does not fence this.
  Similarly, a clone saves the expiry it has, even if a sibling has saved a later one.
- Bytes: postcard and Base64 as such, HMAC, blake3, cookie values. They are library
  code, modelled by what the properties need of them.
- Prefixes and the glob pattern of `RedisStore`, table creation and the rest of
  the migrations, `count`, getters, logging, `Debug`: text and pure reads.
- Cursor wrap-around and rehashing inside Redis; the databases' deadlock detection and
  timeouts. The first is behind SCAN's promise, the second only adds failures,
  which `Abandon` has already.
- The crate root: re-exports and feature flags.

## 6. Two divergences

`unsaved_regeneration`: `docs/session-lifecycle.md` says that deleting a session
after an unsaved regeneration targets its persisted source. A handle that was
regenerated *before* a clone's first save has no `rotation_from`, as nothing was persisted
yet. Once the clone is saved under the old ID, `persistence_origin` reports a conflict for
the regenerated handle, and `begin_delete` falls back to that handle's own ID, which was
never stored: `destroy_session` returns Ok and the stored record, from which it was
regenerated, survives. The trace is new, clone, regenerate one of the two, save the
other, destroy the regenerated one. This is not the documented case of a superseded
clone: the destroyed handle drew its ID itself, and nobody rotated the session away
from it.

`clear_during_rotation`: `session_store.rs` says that `clear_store` destroys all
sessions. PostgreSQL's `DELETE FROM` removes the rows of its snapshot. It waits for a
rotation that holds the old row, finds it gone after the commit, and does not see the
row that replaced it: `clear_store` returns Ok and the session lives on under its
new ID, although it had a record all the time. `RedisStore` documents such an
exception; the SQL stores do not.

## 7. Plan

Done: the core (`SaveTracking`, `Session`, `ServerStore`, `ExpiryIndex` and the stores),
then clears, pools, names, expiries, shared data, cookies and the older save
protocol, then the theorems of section 4: every safety property of the runs is proved, except
`IndexFollowsTable`, and neither locks, rows nor connections can block each other
for ever. Left: late updates, of section 5, if the protocol is extended to fence
them; and a run of `clear_store` at the stricter isolation levels, if a site uses one.
