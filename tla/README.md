# Local storage service: TLA+ specification and proofs

The repository is an object store: a Rust service (`local-storage`, axum, Postgres,
Redis or an in-process cache, a directory of files) with an HTTP API and an
S3-compatible one, and a React UI. This project models the core of the service,
model-checks it with TLC on small instances, and proves the results that hold for
every instance with TLAPS. Paths below are relative to `src/local-storage/src`.

## Inventory

| Part | State | Operations | What is hard about it | What makes it correct |
|---|---|---|---|---|
| Storage manager (`storage.rs`) | none of its own: rows in Postgres, bytes under `base_path`, cache entries | `store_file`, `get_file`, range reads, `get_file_info`, `delete_file`, `delete_bucket`, `create_bucket`, `sweep_expired_files` | three stores and no common transaction; every handler holds only the *read* half of the `RwLock`, so handlers interleave at each await; deduplicated rows share bytes | a row never points at missing or foreign bytes; an answered upload is what the next read sees; nothing unexpired is deleted |
| Database (`database.rs`, `migrations/`) | tables `files`, `buckets`, `encryption_keys`, `cache_config` | `save_file` (upsert), `get_file`, `get_file_by_hash` (any match), `list_expired_files`, lists, statistics | READ COMMITTED, no row locks; the cascade from `buckets` to `files` | counts and listings are used while they are still true |
| Cache (`cache.rs`) | `file:` and `content:` entries | read-through, warm after upload, invalidate, preload popular files, evict | a fill can carry bytes read before an overwrite; failures are only logged; Redis outlives the process | no stale or foreign entry is served |
| Atomic write (`performance_optimizations.rs`) | a temporary file per stem | create, fill, rename | the name comes from `with_extension("tmp")`, which uploads can share | readers see the bytes of one upload, whole |
| TTL sweep (`main.rs`) | the listing it works through | list, delete one by one, every 60 s | the listing goes stale | only expired objects go, and all of them go |
| HTTP handlers (`handlers/`) | none | parse, authorise, call the storage manager | a Range answer takes several lookups; range arithmetic | the answer describes one version of the object |
| S3 handlers (`s3/`) | none | Put, Copy, Get, Head, Delete, batch deletion, listing, bucket operations, each a series of storage calls | other requests run between two calls of one handler; single keys of a batch fail | body, ETag, copy, "deleted" and "truncated" are true of some moment of the request |
| Router (`app.rs`, `handlers/health_handler.rs`) | 100 permits, the pool of connections | admit, time out, drop, answer `/health` | permits and connections must come back on every way a request ends; uploads and S3 have no limit and no timeout | no leak, no permit kept for ever |
| Access statistics and preloader (`cache.rs`, `database.rs`) | `access_count`, `cache_status` | count a read, list popular files, cache and mark them | counts and marks are written by the id of a row read earlier; ids in the cache differ from those in the table | counts and marks belong to the right row; popular files get their turn |
| Compression, encryption, keys (`compression.rs`, `crypto.rs`, `encryption_keys.rs`) | `encryption_keys` | encode on upload, decode on read | per-upload settings, key deactivation, aliases with other settings | decode inverts encode for every row |
| Startup (`main.rs`, `migrations/`) | the schema, migration attempts | up to 30 retries beside a server that already answers | requests before the tables exist; kills between two migrations | the task ends; once it succeeded, no error comes from the schema |
| Web UI (`local-storage-ui`) | none | calls the HTTP API | | |

The parts meet in the storage manager: the handlers, the sweep and the preloader call
it or share its cache and files; nobody sends messages, all interaction is through
the shared stores. `PROJECT.json` lists the components with what is modelled of
each, and the hazards with their lines.

## Modules

* `StorageManager` - the core (below).
* `ObjectMap` - what the core promises to its callers: one map, atomic operations.
* `StorageRefinement` - the mapping under which `StorageManager` implements `ObjectMap`.
* `S3Objects` - the S3 handlers, composed with an instance of `ObjectMap`.
* `DataPath` - what happens to an object's bytes.
* `Service` - the process around it: router, limits, pool, migrations.
* `Popularity` - access statistics and the preloader.
* `MCStorage`, `MCRefinement`, `MCDataPath`, `MCS3Objects`, `MCService`, `MCPopularity` -
  their instances for TLC: symmetries, temporary names, environments, options and headers;
  the constants' values are in the `.cfg` files.
* `StorageManagerProofs` - type correctness, as an inductive invariant.
* `OwnBytesProofs` - no object is served another object's bytes.
* `WindowProofs` - what can happen between a count or a listing and its use.
* `SerialProofs` - one request at a time: rows keep their bytes, table, files and cache
  agree, and the whole refinement of `ObjectMap`.
* `DataPathProofs` - Range arithmetic, that every row stays decodable, types, and that
  requests nobody disturbs are answered exactly.
* `S3ObjectsProofs` - what the S3 handlers answer was true during the request.
* `PopularityProofs` - ids are unique, counts and marks belong to the right row.
* `ServiceProofs` - permits and connections are conserved, errors for want of
  the schema end.

### StorageManager: state

| Variable | Code |
|---|---|
| `files`, `buckets` | the tables; a row is its `file_path`, digest and `expires_at` (0: NULL) |
| `disk` | what each file under `base_path` holds: the *set of uploads* whose bytes are in it. `{c}` is exactly `c`, `{}` a file created and not yet filled, two members a mixture |
| `handle` | the temporary file a handler has open, under the name it has now (renames move it, unlinks detach it) |
| `meta`, `body` | the cache entries `file:b:k` and `content:b:k` |
| `pc`, `req`, `row`, `bytes`, `path`, `refs`, `todo`, `expired`, `out` | where each task is, its request, the locals it carries across awaits, the last answer |
| `now`, `issued` | the clock and the number of requests, both bounded (`MaxTime`, `MaxRequests`) |
| `sent`, `since`, `renewed` | history only: contents uploaded to each object, objects saved since a task's reference count, objects saved since the sweep's listing |

### StorageManager: actions

A task is one of `Clients` (a request handler), the `Sweeper` or the `Preloader`.
An action is the code between two awaits that touch a store, named after what it
does there:

* `store_file`: `EnsureBucket`, `Dedup` (any row with the digest, as `LIMIT 1` without
  `ORDER BY` allows), `AliasSave`; or `CreateTemp`, `FillTemp`, `RenameTemp`, `SaveRow`,
  `WarmMeta`, `WarmBody`; the errors `AliasSaveRejected` and `SaveFails` (the foreign key
  of a bucket deleted meanwhile, or the database), `RenameFails`, `WriteFails`.
* `get_file`: `GetMeta`, `GetRow`, `FillMeta`, `GetBody`, `ReadDisk`, `FillBody`,
  `ReadFails`; `get_file_info`: `GetInfo`. Both continue in `delete_file` when the row
  they hold has expired or the file is missing.
* `delete_file`: `DelFind`, `DelCount`, `DelRow` (with the commit), `Unlink`,
  `Invalidate`, for its three callers (`AfterDelete`).
* `delete_bucket`: `ListBucket`, `DropBucket`, then per file `BucketNext`,
  `BucketUnlink`, `BucketInvalidate`, and `RmDir`.
* `sweep_expired_files`: `SweepList`, `SweepNext`, `SweepDone`; the preloader:
  `PreloadList`, `PreloadRead`, `PreloadFill`, `PreloadDone`.
* Environment: `DbError`, `WriteFails`, failing cache and file-system calls (only where
  `Faults` allows them), `Drop` (a disconnect or the timeout layer drops the handler's
  future at any await), `Restart`, `Evict`, `Tick`.

### Abstractions

* A digest is the content itself (BLAKE3 is taken to be collision free). All uploads
  use the same compression and encryption settings and each content has one stored
  form, so encoding and decoding do not appear; whether a stored form is above the
  1MB limit of the cache is the constant `Cacheable`.
* Content types and metadata are left out. So are ids, access counts and `cache_status`,
  which are the subject of `Popularity`; here, which objects the preloader finds popular is
  a free choice.
* `create_bucket` makes its directory and its row in one step, and `delete_file` its
  DELETE and its COMMIT. A commit whose outcome the client never learns is not modelled.
* Filling the temporary file is one step; what another handler put into the same file
  since it was created is covered by the new bytes or remains, as the lengths decide.
  A blocking file operation that completes after its future was dropped is the same
  step taken just before the drop.
* A missing parent directory shows up only as a file-system error (`"io"`).
* Paths and cache keys are pairs: bucket names without `:` and keys that the file
  system keeps apart. Key normalisation is not modelled.
* `TempName` maps a key to the name of its temporary file. `PrivateTempNames` says that
  no two keys share one and no key is another's. It is false for keys such as `a.jpg`
  and `a.png`, or `a.mp4` and `a.tmp`; the passing runs use keys for which it holds.
* With `Overlap = FALSE` a task starts only when no other runs: the sequential
  behaviour, against which the stronger properties are stated.

### DataPath

`StorageManager` gives every content one stored form. `DataPath` opens that up: it keeps
the rows, the files, the cache and the handlers, leaves deletion, TTLs, buckets and
failing stores to `StorageManager`, and follows the bytes through compression and
encryption.

| Variable | Code |
|---|---|
| `config`, `cipher`, `restarts` | the settings of the running process, the one cipher `init_cipher` made (algorithm and key: `CRYPTO_KEY`, or a random one per process), how many processes there were |
| `keys` | table `encryption_keys`: absent, active or inactive |
| `rows`, `disk` | per object its row (path, digest, sizes, what was done to the bytes), per path the file: a content, compressed or not, sealed or not |
| `meta`, `content` | the cache entries `file:b:k` and `content:b:k`: a row, and bytes as stored |
| `pc`, `req`, `row`, `body`, `span`, `out` | per handler its step, request and locals; the answer the last step sent |
| `owner`, `spoilt`, `clean` | history only: who wrote each path last, which rows describe bytes that another upload replaced or removed, which tasks nothing has interfered with and have met nothing out of date in the cache |

* `store_file`: `StartUpload`, then `Reuse`, `Alias` (with the settings of the existing
  row, as the code does, and without touching the cache) or `DedupMisses`; `KeyRefused` or
  `PutWrite` (encode, rename); `PutSave`, or `PutSaveFails` when the foreign key on the key id
  refuses the row; `Warm`, which caches the row, and the bytes unless they exceed
  `CacheLimit` - then the bytes of the version before stay cached.
* `handle_file_request`: `StartRead`, `RangeInfo` (the decoded length, the 416 answers),
  the seek path `PlainRow`, `PlainRead`, the streaming path `ZipRow`, `ZipRead`, and the
  full path `FullRow`, `CachedRead` or `FullRead`, `SelfHeal`, `Decode`. Every path looks up
  its own row, in the cache and then in the table (`Found`), as in the code, and falls through
  to the next. A cached row or body is taken whatever the table or the disk holds by now.
* `create_key`, `deactivate_key`, and `Restart` at any point with any of `Configs`.

Its abstractions: a cipher opens exactly what the same key and algorithm sealed; a codec
inverts itself; `decompress` on bytes that `compress` did not make is refused or hands
them back, whatever the first byte says. Encoding and the atomic write are one step, and
so are the lookup of a duplicate with the insert of its alias, a lookup with the cache fill
that follows it, and `delete_file`: `StorageManager` takes them apart. That an entry has
expired or was evicted, that Redis does not answer, and the empty in-process cache of a new
process are all the same miss, which any lookup may have; the entry itself stays. A Range
header is one of the forms
`parse_range_header` tells apart with its numbers; a number beyond `u64` is the form
`"bad"`. An algorithm of encryption that does not exist is left out, because the process
does not start with it when encryption is on.

### ObjectMap and its refinement

`ObjectMap` is the store as a caller imagines it: `objects` (content and expiry per bucket
and key), `buckets`, a clock, the operation each client waits for and the last answer.
`Put`, `Delete` and `DeleteBucket` take effect in one step between the call (`Invoke`) and
the answer (`Reply`); an object whose time is over may go at any moment (`Expire`); an
answer with bytes carries the version the map holds then, and never one that had expired
when it was asked for. Uploads create their bucket, as `store_file` does.

`StorageRefinement` maps `StorageManager` to it: the rows are the map, the disk and both
caches are invisible, and an operation has taken effect from the query that changes the
rows on (`Effected`). One history variable, `asked`, remembers when a request arrived.
`ImplementsObjectMap` therefore says that caches, files, the sweep, the readers'
self-healing and the preloader cannot be told apart from the map. It holds while requests do
not overlap, without deduplication and without faults; the section on disagreements says
what breaks it otherwise.

### S3Objects

The handlers of `s3/handlers.rs` as series of calls to the operations of `ObjectMap`, with other
requests between any two calls and (`MayFail`) calls that end in an error. The map is here the
*table*: uploads, deletions, listings and `get_file_info` work on it. The storage manager keeps
the promise of `ObjectMap` only under the hypotheses of `ImplementsObjectMap`, so the module does
not rely on it:

* `Stray`: `get_file` may answer with any other bytes than those of the row. The cache holds a
  replaced version after an upload that became an alias (`storage.rs:168`) or exceeded 1MB
  (`cache.rs:169`); a shared file was overwritten; a file is torn. And `get_file` or
  `get_file_info` may answer "not found" and leave the row, when its self-healing delete fails
  (`storage.rs:323`).
* `Lose`: any row may go at any moment: it expired, or the sweep or a reader deleted by key
  what it had looked up before.

`stray` is the history of which requests in flight got such an answer. The properties say what
the handlers make of the answers: they add no mismatch of their own, and hand on the ones they
get.

`work` is what a handler was asked and has collected, `resp` the last response, `seen` the
history of what its objects held since the request arrived. `GetObject` (bytes, then the
ETag by a second lookup), `CopyObject` (read, then store without a TTL), `DeleteObjects` (one
key after the other, errors collected), the one-call handlers, `ListObjects` (one query, with
one row more than asked for to see whether something is left), and `Refuse` (a bad signature
or a malformed header, before any call). `Listen` is the idle server.

### Service

A request is `running` or holds a connection (`query`); `permits` is the semaphore, `pool` the
idle connections. `Arrive` admits or answers 429, `Acquire` and `PoolTimeout` are the two ends
of waiting for a connection, `QueryOk` and `QueryFails` those of a query, `AnswerNow` is an
answer without a further one; `Timeout` and `Disconnect` drop the handler anywhere. `/health`
touches nothing, `/health/deep` queries; uploads and S3 requests take no permit and know no
timeout. An answer carries its cause as history (`Causes`): an outage, an exhausted pool, the
schema, a statement that a live and migrated database refuses (a foreign key, a CHECK, a value
that does not decode), or a failure that has nothing to do with the database (`Io`,
`Encryption`, `Compression`, `Redis`, a key that is gone) - all of them 500 to the client
(`errors.rs:145`). `run_background_db_init` is `Load` (reading the files; a failure ends the
task), `MigrateBegin`, `Migrate` (one file, one transaction), `MigrateOk`, `MigrateFails` (for any
reason, at any point of an attempt), `SanityCheck`. `Outage` turns the database off or on, `Restart`
kills the process between any two steps. The schema is the number of migrations applied, and
every query but `SELECT 1` is taken to need all of them (an insert does: migration 003 adds
`expires_at`).

### Popularity

A row is its id, length, `access_count` and mark. `Upload` makes up an id that only a new row
keeps (`SaveFile`) and that the cached row carries in any case; `Read` looks the row up and
leaves the count to `CountRead`, which finds its row by id or does not, and answers. The
preloader lists (`Query`),
reads a file (`CacheFile`), marks it by id (`Mark`), and stops at the budget or the end
(`BatchDone`). A file can be missing, a statement can fail, entries are evicted, the process
restarts. Uploads and deletions are one step each: `StorageManager` takes them apart.
Deduplication is left out.

## Runs

`tlc -workers 2 -config <run>.cfg <module>`, with the module that `PROJECT.json` names:
`MCRefinement` for `serial_nodedup`, `MCDataPath` for `data_path` and `compress_disabled`,
`MCService`, `MCS3Objects` and `MCPopularity` for the runs of their names, `MCStorage` for the
others.

| Run | Instance | Checks |
|---|---|---|
| `serial_nodedup` | 2 buckets, 1 key, 2 contents, 4 requests, one at a time, every operation, TTL 1, clock to 2, no deduplication | `IntegrityAtRest`, `NoOrphansAtRest`, `CacheCoherentAtRest`, `ReadersReapOnlyDead`, `ImplementsObjectMap` |
| `serial_dedup` | 1 bucket, 2 keys, 2 contents, 3 requests, one at a time, with deduplication; file-system errors, drops and restarts at any step | `NoDangling` |
| `concurrent_nodedup` | 2 clients and the preloader, 2 keys, 2 contents, 3 requests, every kind of fault, Redis | `TypeOK`, `NoForeignBytes` |
| `concurrent_dedup` | 2 clients and the sweep, 2 buckets, 1 content (every second upload is an alias), deletions and bucket deletions, drops, restarts | `UnlinkWindow`, `SweepWindow` |
| `sweep_liveness` | 1 client beside the sweep, 2 keys, fairness | `SweepReaps` |
| `data_path` | 2 objects, a content that compresses and one that does not, 2 uploaders, 1 reader, 1 registered key, 2 environments (with and without `CRYPTO_KEY`, other algorithm, deduplication on and off), 3 combinations of options, stored forms above and below `CacheLimit`, no header or one of 4 (an end beyond the content, a start beyond the shorter content, an end before the start, several ranges; the theorem `RangesAreExact` covers every header), 2 uploads, 1 read, 1 restart | `TypeOK`, `Decodable`, `UploadReadable`, `RangeExact` |
| `service` | 2 requests on any route, 1 permit, 1 connection, 2 migrations, 2 retries, 2 changes of the database's availability, 1 restart, fairness | `TypeOK`, `NothingLeaks`, `SchemaErrorsEnd`, `PermitsReturn`, `MigrationsSettle` |
| `s3_objects` | 2 handlers, 1 bucket, 2 keys, 2 contents, 3 requests, failing calls, stray answers, rows that go, pages of 1 and 2 keys, any objects to begin with | `TypeOK`, `GetCoherent`, `CopyCurrent`, `AbsenceIsReal`, `ListingHonest` |
| `popularity` | 2 objects, 1 reader, a length that is cached and one that is marked and not cached, 3 uploads, 2 reads, batches of 2, 1 fault, 1 restart, fairness | `TypeOK`, `CountsAreReads`, `BatchWithinBudget`, `MarksArePopular`, `PopularGetsMarked` |

The bounds are the smallest at which each interesting case happens: an alias and the
key it shares bytes with (2 objects), an overwrite (2 contents), upload / overwrite /
delete / read of one key (3 or 4 requests), a row that is not yet expired, one that is
expired for readers (`<=`) and one that is expired for the sweep (`<`) (clock to 2 with
TTL 1), and two handlers inside each other's windows (2 clients). One permit and one
connection for two requests saturate the limiter and starve the migrator; two migrations
let a kill or a failure fall between them. No lifetimes are asked for in `s3_objects`: `Lose`
takes rows away at any moment, which is more than expiry does. Two keys on pages of one or two
show a page that is
exactly full and one that is truncated; three requests on two handlers put an overwrite and
a deletion between the two calls of a third. Three uploads allow an object to be deleted and
created anew beside another one, and a budget below the length of two files ends a batch
early. Clients, names and contents are only compared, so permuting them is a symmetry; the
runs with liveness use none.

**What the passing runs show.** Used one request at a time and without
deduplication, the service is coherent: bytes match the digest of the row, nothing is
orphaned, the cache agrees with the database, and every operation does what it would do on
one map: reads return the last upload, uploads and deletions take effect once, a 404 means
that nothing is there, and nothing but expired objects goes by itself. With deduplication,
reference counting
keeps the bytes of every alias through deletions and sweeps, and a request that is
dropped or killed half-way never leaves a row without bytes, because `rename` replaces
the old file in one step and `delete_file` removes the row before the file. As long as
compression stays on and encryption as it was, a row whose bytes are its own decodes to
what was uploaded, or fails if its key is gone, and a read or Range request that nothing
interferes with *and that meets no outdated cache entry* is answered exactly, whichever of
the three paths serves it, from the cache or from the disk. The second condition is not
idle: after an upload that became an alias or exceeded 1MB, an undisturbed read can return
the content before it.

Under concurrency and failures weaker statements remain. Without deduplication no object
serves another's bytes. `delete_file`, and the per-file step of `delete_bucket`, unlink bytes
from under a row only if an upload fell between the count and the unlink, and the sweep
deletes an unexpired row only if it was uploaded after the listing. These two are about those
steps: `remove_dir_all` (`storage.rs:682`), the clean-up of a failed insert (`storage.rs:264`)
and a count of `delete_bucket` that fails take bytes from under rows too, as listed below.

The S3 handlers add no mismatch of their own although other requests run between their calls
and rows come and go: ETags, the keys reported as deleted, and listings speak of what the
table held at a moment of the request, and so do bodies, copies and 404s as far as `get_file`
answers by the table. Where it does not, `GetObject` sends stale bytes with the new ETag, and
`CopyObject` makes stale bytes the target's own content. Body and ETag may be of *different*
versions, too, when an overwrite falls between the two lookups (`s3/handlers.rs:243`). A
listing without the mark "truncated" is complete.

Around the handlers, no way for a request to end loses a permit or a connection, a limited
request gives its permit back by the timeout at the latest, the migration task ends if its
statements do, and in a process whose task has succeeded no error comes from a missing or
half-migrated schema. It does not follow that errors end: a 500 for a key that is gone, a file
that cannot be read or a refused insert comes with the database up and migrated, each time
anew. Access counts never exceed the reads of the row they stand in, marks go to rows that
were popular, a batch exceeds its budget by less than one file, and a popular readable file is
*marked* in the end, whatever files beside it cannot be read. Whether it is cached is another
matter: above 1MB it is not, and the mark outlives the entry.

**Disagreements** between the code and what its comments say; each has a run in which
TLC finds the counterexample:

| Run | Property | What happens |
|---|---|---|
| `alias_overwrite` | `NoForeignBytes` | `k2` is an alias of `k1`; overwriting `k1` rewrites the shared file and `k2` serves the new content (`storage.rs:223`) |
| `compress_disabled` | `Decodable` | `?compress=true` while `ENABLE_COMPRESSION` is false, the default: the upload is compressed by a manager of its own and `decode_content` hands it back compressed (`storage.rs:507`, `compression.rs:45`) |
| `torn_read` | `WholeReads` | two uploads of one key share the temporary file; a truncated or mixed file is renamed into place (`performance_optimizations.rs:47`) |

More follow from the same models with other constants:

* Deduplication breaks the promise of `ObjectMap` in two ways: an overwrite that takes the
  alias path does not touch the cache, so readers keep the old object (`storage.rs:168`), and
  uploading the same content again without a TTL keeps the old expiry (`storage.rs:112`).
  (The mapping itself is for uploads that store their bytes: a deduplicated one takes effect
  and is answered in one step.)
* With `Cacheable` a proper subset of `Contents` it fails too: an overwrite by a body above
  1MB leaves the old cached body (`cache.rs:169`). So it does with failing cache calls:
  an invalidation that fails is only logged (`storage.rs:558`).
* With deduplication and bucket deletions `NoDangling` fails: `delete_bucket` spares the bytes
  that rows of other buckets share and then removes their directory (`storage.rs:682`).
* With database faults `NoDangling` fails: an overwrite whose insert fails has already
  replaced the file, and the clean-up then removes it from under the old row
  (`storage.rs:264`). Three ways lead there besides an outage: an unregistered
  `encryption_key_id` without encryption (the foreign key refuses the row), a bucket deleted
  meanwhile, and an upload that is served before migration 003 is applied (`main.rs:48`:
  requests are served at once).

And some are plain from the code, and the models follow it:

* An alias of an object whose key was deactivated is answered with success and cannot be
  read, so `UploadReadable` speaks only of uploads that stored their own bytes.
* A malformed range such as `bytes=x` or `bytes=2-1` is answered 416
  (`handlers/file_handlers.rs:429`), where the comments at lines 297 and 424 have the whole
  file served. `RangeExact` takes no side: it asks for one of the two and excludes a part.
* A 404 need not mean that the row is gone: when the self-healing delete fails, its error is
  dropped and the row stays (`storage.rs:323`, `storage.rs:344`). `AbsenceIsReal` excepts it.
* The repository's `README.md:36` promises "100 concurrent requests max, 5-minute timeout for
  large uploads" and `app.rs:106` speaks of an "extended timeout"; the upload route, like the
  S3 routes, has neither limit nor timeout.
* `README.md:90` says of `/health` "database and cache both reachable"; `health_check` asks
  neither. It does take a permit, so a saturated service answers its health probe with 429.
* `DB_MAX_CONNECTIONS` is parsed and never handed to the pool.
* The mark `cached` outlives what it speaks of: a restart empties the in-process cache, and
  entries are evicted, but the rows keep their marks and are never preloaded again, although
  `cache.rs:267` says that preloading "warms the in-process cache just as well as Redis". Files
  between 1MB and 10MB are marked and not cached at all. The budget is one of each batch,
  where line 266 says "respecting the configured max cache size".
* After an overwrite the cached row carries an id the table does not have: reads through it
  are not counted until the entry is gone (`storage.rs:232`).

The windows of `UnlinkWindow` and `SweepWindow` are not empty. An upload that aliases
the bytes between `DelCount` and `Unlink` loses them, although `storage.rs:529` wants the
file unlinked "once nothing else still points at it"; an object uploaded between
`SweepList` and `DelRow` is deleted unexpired, although `main.rs:167` says the sweep "only
ever removes rows whose expires_at is both set AND already in the past".

### Fairness

* `StorageManager`: weak fairness of the sweep's steps and nothing else. `run_ttl_sweep` loops
  for as long as the process lives, its `interval` ticks for ever, and the runtime polls every
  ready task. No client has to finish and nobody has to read the object. The run has no
  faults: with a database that never answers nothing is reaped.
* `Service`: weak fairness of each request's `Timeout` (the timer of `TimeoutLayer` fires; it
  is enabled only where the layer is) and of `BackgroundInit` (the spawned task is polled, and
  its statements succeed or fail; an attempt that waits for ever on a lock of the database
  has no timeout in the code and is assumed away). Queries, bodies and clients may hang for
  ever.
* `Popularity`: weak fairness of the preloader's steps: `start_preload_service` loops for as
  long as the process lives. Faults are bounded, as a database that always fails preloads
  nothing.

## Proofs

The proofs about `StorageManager` assume only its named assumptions: `None` differs from
every value, tasks differ, the configuration constants have their types, and
`TempName` is a function of the keys. They hold for any number of clients, buckets,
keys and contents, any faults and no bound on the requests or the clock (the bounds are
arbitrary naturals).

* **`TypeCorrect`**: `Spec => []TypeOK`. `TypeOK` is inductive as it stands because it
  contains `TaskHolds`: which locals each label needs (a handler at `read_disk` holds a
  row, one at `unlink` a path, ...). One lemma per group of variables, one step per action.
* **`GetServesOwnBytes`**: `Spec => []NoForeignBytes`, assuming `~EnableDeduplication` and
  `PrivateTempNames`. `NoForeignBytes` speaks of the answer alone. The inductive
  invariant `OwnBytes` says it of every place bytes can be: the two files of an object,
  its cached body and the locals of tasks (`OwnContents`, `OwnTask`). For that, every copy
  of a row - in the table, in the cache, in locals and listings - must name its own
  path (`OwnRows`), and an open file must be under a name of the object being uploaded
  (`OwnHandles`), also after another handler's rename; `NamesPrivate` is where the
  assumption on names is used. Both assumptions are needed: `alias_overwrite` refutes
  the statement with deduplication, and a shared temporary name hands the bytes of one
  upload to another key.
* **`UnlinkOnlyInWindow`**: `Spec => []UnlinkWindow`. The invariant `Counted` extends the
  statement to the whole window: from the count on, rows at the counted path are the
  row being deleted, or were saved since. The key lemma (`RowsNoted`) is that the only
  steps that change a row of the table are saves, which the history notes, and
  removals.
* **`SweepOnlyInWindow`**: `Spec => []SweepWindow`. The invariant `Listed`: every listed
  object, visited or not, is gone, still due, or was saved since the listing; the clock
  only moves forward, so what is due stays due.

Two groups of theorems are about a service used one request at a time (`SerialProofs`).
What goes wrong without their hypotheses is listed under the disagreements.

* **`RowsKeepTheirBytes`**: `Spec => []NoDangling`, assuming `~Overlap`, `PrivateTempNames`,
  no database fault and no bucket deletion; deduplication, failing files and caches,
  dropped requests and restarts are all allowed. (With a database fault, or deduplication
  beside bucket deletions, it is false: see the disagreements.) The invariant is `Backed`:
  `NoDangling` alone does not survive the next step, because an upload relies on the file
  it found or wrote until its row is saved, and a deletion on nobody else pointing at the
  path it counted (`BackedTask`); that a second task cannot break either is `Alone`.
* **`BytesMatchRows`**, **`NoFileWithoutRow`**, **`CacheMatchesRows`**, **`ReapsOnlyDead`**:
  `IntegrityAtRest`, `NoOrphansAtRest`, `CacheCoherentAtRest` and `ReadersReapOnlyDead`,
  assuming `Sequential` (no overlap, no deduplication, no faults, everything cacheable,
  private temporary names; evictions, the sweep and the preloader run). Three of the four
  speak only of moments at rest, so none is inductive. `Coherent` says what holds in
  between: at most one task is in flight, each object's file, temporary file, cached row
  and cached body agree with its table row except for those the task is about to set right
  (`Agree`: `Writing`, `Filling`, `MetaLags`, `BodyLags`), and the task's locals are what
  its next step needs (`Relies`). One lemma per group of actions; when the task ends,
  nothing is left to set right.
* **`ImplementsMap`**: `HSpec => ImplementsObjectMap` under `Sequential`: the whole
  refinement, for every instance. From `Coherent`, `OwnBytes` and `Hist` (what a client's
  request looks like at each label, and that a reader past its expiry check holds a row
  that was alive when it asked) every step maps to a step of `ObjectMap` or to a stutter.
  The lemmas `MapPut`, `MapDelete`, `MapReply`, ... say what a step has to do to the mapped
  variables, and one lemma per group of actions that it does. `VersionAssumption` (`None` is
  no version of an object) is all it adds to the assumptions.

* **`RangeArithmetic`**: for every header and every length, `parse_range_header` finds a
  range exactly if the header selects a byte, and then the one whose bytes are those
  selected, inside the content. `RangeExact` uses the same `Selected`.
* **`AlwaysDecodable`**: `Spec => []Decodable` for `DataPath`, assuming `SettledConfigs`
  (every configuration has compression on, and all agree on encryption) and the named
  assumptions of the module (sizes, types of the requests, `None` differs from
  everything). `Decodable` speaks of what `decode_content` computes with the present
  configuration, cipher and keys. The inductive invariant `Inv` speaks of the data: a row
  and its bytes `Matches`, and so do the row an upload is about to save and the file it
  wrote, as long as it still owns the path (`Uploading`). `EncodeMatches` shows that
  encoding makes a matching pair and `MatchesDecodes` that such a pair decodes.
  `compress_disabled` shows that the first assumption is needed. Without the second, a row
  sealed with the global key is handed out as ciphertext once encryption is off.
* **`TypeCorrect`** of `DataPathProofs`: `Spec => []TypeOK`, for any configurations. `TypeOK`
  contains what each label dereferences and that the length a range read takes is a
  natural number. That one is not inductive: `TypeInv` adds (`Fit`) that at the seek the
  range still lies inside the row read last, not only the row the range was computed from.
* **`UploadsAreReadable`**, **`RangesAreExact`**: `UploadReadable` and `RangeExact`, again
  under `SettledConfigs`. The invariant `Exact` follows an undisturbed task through its
  lookups: an upload still owns its path and its key is still usable, also after the row is
  saved and while it warms the cache (`Saves`); the row and bytes of a reader that met
  nothing out of date in the cache are the present ones and its range is the one its header
  selects of the
  *decoded* length (`Reads`), although each read path computes with another length. With
  `Inv` the bytes then decode, `RangeArithmetic` gives the answer, and `MalformedSelects` that
  a malformed header selects nothing. The caches themselves need no invariant but their type:
  what they hold is arbitrary, and a lookup that returns anything but the present row or
  bytes ends the claim.

* **`Conserved`**, **`TypeCorrect`** of `ServiceProofs`: `Spec => []NothingLeaks` and
  `Spec => []TypeOK` for `Service`, for any finite number of requests, any limit and any pool
  (`ServiceAssumption`). The two are inductive together (`Inv`): the sum of `NothingLeaks` keeps
  `permits` and `pool` within the ranges of `TypeOK`, and the ranges make the sums those of
  naturals. Each action adds to or removes from the sets of holders at most one request
  (`CountAdd`, `CountRemove`); `FinishStep` is the one lemma behind every way a request ends.
* **`TransientSchemaErrors`**: `Spec => SchemaErrorsEnd`, an action property, from the invariant
  `Migrated`: while the task checks or is done, every migration is applied - also when the
  process before was killed between two.

* **`OneCallEach`**, **`GetsAreCoherent`**, **`CopiesAreCurrent`**, **`AbsencesAreReal`**,
  **`ListingsAreHonest`**: every property of `S3Objects`, for any number of handlers, keys
  and contents; a bucket is finite (`FiniteAssumption`, needed to count a page), and `None`
  is no name, content or version (`NoneAssumption`). The action properties compare an answer
  with `seen`, and except requests in `stray`, which only a lookup answered against the table
  joins (`Replied`). Their invariant says of every handler which call it waits for (`Waits`), what
  it holds between two (`Holds`), that a batch has each key deleted, failed, in flight or still
  to do (`Accounts`), and that what it kept, and what its call has already done to the store,
  was seen (`Saw`): other handlers only ever *add* to what is seen.
* **`IdsAreUnique`**, **`CountsAreHonest`**, **`BudgetHolds`**, **`OnlyPopularIsMarked`**: every
  safety property of `Popularity`, for any finite number of objects and readers. The core of
  the invariant is `IdsApart`: an id speaks of one object for ever, also from a pending
  read, a cached row or an old list. `Counted` adds the reads that are still to count
  themselves, without which `CountsAreReads` is not inductive; `Listed` says the same of the
  preloader's list, and `Paid` that the budget was not used up when the file was read.

Every safety property of a passing run is stated by a theorem, and each inductive invariant
was itself checked by TLC before it was proved. Model-checked only is liveness (`SweepReaps`,
`PermitsReturn`, `MigrationsSettle`, `PopularGetsMarked`), which is beyond the prover, and
the counterexamples of the disagreements.

## Not modelled

The signature check (`s3/auth.rs`: a stateless predicate on strings; here a request is refused
before any call or is not), XML and multipart parsing, search and the statistics queries (they
change nothing; the `storage_stats` table a trigger maintains is never read), `clear_cache`,
`get_cache_stats`, `get` and `set` of the cache (no caller), reading the environment, CORS, the
UI (a client); Postgres, Redis, moka, the file system, the codecs and the ciphers, which
appear only through the effects the service relies on.

## Plan

1. Done: `StorageManager`, `DataPath`, `ObjectMap` with the refinement, `S3Objects`, `Service`,
   `Popularity`, with their runs; the theorems above, among them every safety property the
   runs check and the refinement.
2. Next, weaker hypotheses: which of the sequential theorems survive dropped requests and
   restarts (an upload killed between its rename and its insert leaves a file whose digest
   the row does not record, so `IntegrityAtRest` does not; `ReadersReapOnlyDead` may), and
   bucket deletions without deduplication in `RowsKeepTheirBytes`.
3. Statements for the hazards that no property covers yet (`PROJECT.json`, those with a note).
