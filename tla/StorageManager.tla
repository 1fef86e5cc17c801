--------------------------- MODULE StorageManager ---------------------------
(***************************************************************************)
(* The storage manager of the local-storage service: PUT, GET, HEAD and    *)
(* DELETE of objects, creation and deletion of buckets, the TTL sweep and  *)
(* the cache preloader (local-storage/src/storage.rs, with the queries of  *)
(* database.rs and the read-through cache of cache.rs).                    *)
(*                                                                         *)
(* Three stores that share no transaction hold an object: its row in       *)
(* Postgres, its bytes on disk, and a cached copy of each.  Every handler  *)
(* runs under the read half of one RwLock, so handlers exclude nobody and  *)
(* interleave at each await: an action is what a handler does between two  *)
(* awaits that touch a store.                                              *)
(***************************************************************************)
EXTENDS Naturals, FiniteSets

CONSTANTS
    Buckets, Keys,        \* names
    TempName,             \* with_extension("tmp"): the name a key's temporary file has
    Contents,             \* the bodies clients upload
    Cacheable,            \* those whose stored form is at most 1MB
    Clients,              \* request handlers that can be in flight at once
    Sweeper, Preloader,   \* the two background tasks
    None,                 \* SQL NULL, a missing file, a cache miss
    Ops,                  \* what the tasks of this instance do
    TTLs,                 \* lifetimes an upload may ask for
    EnableDeduplication,  \* config.storage.enable_deduplication
    SharedCache,          \* TRUE: Redis, which outlives the process
    Overlap,              \* FALSE: a task starts only when no other runs
    Faults,               \* what may fail, a subset of FaultKinds
    MaxRequests, MaxTime  \* bounds on the requests and on the clock

AllOps == {"store", "get", "info", "delete", "create_bucket",
           "delete_bucket", "sweep", "preload"}
FaultKinds == {"db", "io", "cache", "drop", "restart"}

Objects == [bucket: Buckets, key: Keys]
Paths == Buckets \X Keys
DiskNames == Buckets \X (Keys \union {TempName[k] : k \in Keys})

\* What a file or a cached body holds: the uploads whose bytes are in it.  {c}
\* is exactly c, {} a file that was created and not yet filled, and a larger
\* set a mixture of several uploads.
Bodies == SUBSET Contents

\* A row of the table files: where the bytes are, the digest of the uploaded
\* content (collision free, so the content itself), and expires_at (0: NULL).
Rows == [path: Paths, hash: Contents, expires: Nat]

\* A (key, file_path) pair as delete_bucket and the preloader list them.
Refs == [obj: Objects, path: Paths]

Tasks == Clients \union {Sweeper, Preloader}
Requests == [op: AllOps \union {"none"}, bucket: Buckets \union {None},
             obj: Objects \union {None}, content: Contents \union {None},
             expires: Nat]
NoRequest == [op |-> "none", bucket |-> None, obj |-> None,
              content |-> None, expires |-> 0]
Answers == [op: AllOps \union {"none"}, obj: Objects \union {None},
            status: {"bytes", "ok", "not_found", "error", "none"}, data: Bodies]

ASSUME NoneAssumption ==
    /\ None \notin Buckets /\ None \notin Objects /\ None \notin DiskNames
    /\ None \notin Contents /\ None \notin Rows /\ \A b \in Bodies : b # None
ASSUME TempNameAssumption == DOMAIN TempName = Keys
ASSUME ContentsAssumption == Cacheable \subseteq Contents
ASSUME TasksAssumption ==
    Sweeper \notin Clients /\ Preloader \notin Clients /\ Sweeper # Preloader
ASSUME ConfigAssumption ==
    /\ Ops \subseteq AllOps /\ Faults \subseteq FaultKinds
    /\ EnableDeduplication \in BOOLEAN /\ SharedCache \in BOOLEAN
    /\ Overlap \in BOOLEAN
    /\ TTLs \subseteq Nat \ {0} /\ MaxRequests \in Nat /\ MaxTime \in Nat

VARIABLES
    files,    \* the table files: a row or None for every (bucket, key)
    buckets,  \* the table buckets
    disk,     \* the bytes at each path under base_path
    meta,     \* cache entries file:<bucket>:<key>
    body,     \* cache entries content:<bucket>:<key>
    now,      \* the clock, in units of TTLs
    issued,   \* requests accepted so far
    pc,       \* the step each task is about to take
    req,      \* the request each task serves
    handle,   \* local: where the temporary file it has open is now
    row,      \* local: the row a handler works with
    bytes,    \* local: the bytes it read
    path,     \* local: file_path of the row being deleted
    refs,     \* local: other_references > 0
    todo,     \* local: the rows still to visit (delete_bucket, preloader)
    expired,  \* local to the sweep: the objects still to delete
    out,      \* the last response
    sent,     \* history: the contents ever uploaded to each object
    since,    \* history: objects saved since the task counted references
    renewed   \* history: objects saved since the sweep listed

store   == <<files, buckets, disk>>
caches  == <<meta, body>>
clock   == <<now, issued>>
control == <<pc, req, out>>
locals  == <<row, bytes, path, refs, todo>>
ghosts  == <<sent, since, renewed>>
vars    == <<store, caches, clock, control, handle, locals, expired, ghosts>>

Init ==
    /\ files = [o \in Objects |-> None]
    /\ buckets = {}
    /\ disk = [p \in DiskNames |-> None]
    /\ meta = [o \in Objects |-> None]
    /\ body = [o \in Objects |-> None]
    /\ now = 0 /\ issued = 0
    /\ pc = [t \in Tasks |-> "idle"]
    /\ req = [t \in Tasks |-> NoRequest]
    /\ handle = [t \in Tasks |-> None]
    /\ row = [t \in Tasks |-> None]
    /\ bytes = [t \in Tasks |-> None]
    /\ path = [t \in Tasks |-> None]
    /\ refs = [t \in Tasks |-> FALSE]
    /\ todo = [t \in Tasks |-> {}]
    /\ expired = {}
    /\ out = [op |-> "none", obj |-> None, status |-> "none", data |-> {}]
    /\ sent = [o \in Objects |-> {}]
    /\ since = [t \in Tasks |-> {}]
    /\ renewed = {}

-----------------------------------------------------------------------------
(* Helpers.                                                                *)

Obj(t) == req[t].obj
\* MUTANT of get_file_path: one file per bucket, the key left out.
PathWithoutKey(o) == <<o.bucket, CHOOSE k \in Keys : TRUE>>
get_file_path(o) == <<o.bucket, o.key>>
temp_path(o) == <<o.bucket, TempName[o.key]>>
AllIdle == \A t \in Tasks : pc[t] = "idle"
Stored(o) == files[o] # None

\* The lazy check of get_file and get_file_info (<=), and the narrower WHERE
\* clause of list_expired_files (<).
Expired(r) == r.expires # 0 /\ r.expires <= now
Due(r) == r.expires # 0 /\ r.expires < now

\* The results a cache or file-system call can have: its effect, and nothing
\* at all where such calls may fail (the code only logs these failures).
Unless(fault, effect, before) ==
    {effect} \union (IF fault \in Faults THEN {before} ELSE {})
backend_get(c, o) == Unless("cache", c[o], None)
backend_set(c, o, v) == Unless("cache", [c EXCEPT ![o] = v], c)
set_file_content(o, v) ==
    IF v \subseteq Cacheable THEN backend_set(body, o, v) ELSE {body}

\* The open files whose name is among the given ones are moved to another name
\* or, unlinked, to none.
Move(from, to) ==
    [t \in Tasks |-> IF handle[t] \in from THEN to ELSE handle[t]]
unlink(names) ==
    \/ /\ disk' = [p \in DiskNames |-> IF p \in names THEN None ELSE disk[p]]
       /\ handle' = Move(names, None)
    \/ "io" \in Faults /\ UNCHANGED <<disk, handle>>

Goto(t, label) == pc' = [pc EXCEPT ![t] = label] /\ UNCHANGED <<req, out>>
Forget(t) ==
    /\ row' = [row EXCEPT ![t] = None]
    /\ bytes' = [bytes EXCEPT ![t] = None]
    /\ path' = [path EXCEPT ![t] = None]
    /\ refs' = [refs EXCEPT ![t] = FALSE]
    /\ todo' = [todo EXCEPT ![t] = {}]
Finish(t) ==
    /\ pc' = [pc EXCEPT ![t] = "idle"]
    /\ req' = [req EXCEPT ![t] = NoRequest]
    /\ Forget(t)
Respond(t, status, data) ==
    /\ Finish(t)
    /\ out' = [op |-> req[t].op, obj |-> req[t].obj, status |-> status,
               data |-> data]
Return(t, status) == Respond(t, status, {})

\* Between COUNT(*) and remove_file a task relies on its reference count.
CountWindow == {"del_row", "unlink", "bucket_unlink"}
NoteSaved(o) ==
    /\ since' = [t \in Tasks |->
                   IF pc[t] \in CountWindow THEN since[t] \union {o} ELSE since[t]]
    /\ renewed' = IF pc[Sweeper] = "idle" THEN renewed ELSE renewed \union {o}
    /\ UNCHANGED sent

-----------------------------------------------------------------------------
(* Requests arrive.                                                        *)

MayStart(t) == pc[t] = "idle" /\ (Overlap \/ AllIdle)

Accept(t, op, label, b, o, c, e) ==
    /\ op \in Ops /\ MayStart(t) /\ issued < MaxRequests
    /\ issued' = issued + 1
    /\ req' = [req EXCEPT ![t] = [op |-> op, bucket |-> b, obj |-> o,
                                  content |-> c, expires |-> e]]
    /\ pc' = [pc EXCEPT ![t] = label]
    /\ UNCHANGED <<store, caches, now, handle, locals, expired, out, since, renewed>>

StartStore(t) ==
    \E o \in Objects, c \in Contents, ttl \in TTLs \union {0} :
        /\ Accept(t, "store", "ensure", o.bucket, o, c,
                  IF ttl = 0 THEN 0 ELSE now + ttl)
        /\ sent' = [sent EXCEPT ![o] = @ \union {c}]

StartOnObject(t) ==
    \E o \in Objects :
        /\ \/ Accept(t, "get", "get_meta", o.bucket, o, None, 0)
           \/ Accept(t, "info", "info", o.bucket, o, None, 0)
           \/ Accept(t, "delete", "del_find", o.bucket, o, None, 0)
        /\ UNCHANGED sent

StartOnBucket(t) ==
    \E b \in Buckets :
        /\ \/ Accept(t, "create_bucket", "ensure", b, None, None, 0)
           \/ Accept(t, "delete_bucket", "list_bucket", b, None, None, 0)
        /\ UNCHANGED sent

-----------------------------------------------------------------------------
(* store_file and create_bucket.                                           *)

\* ensure_bucket_exists, or create_bucket on its own: INSERT ... ON CONFLICT
\* DO NOTHING, after create_dir_all.
EnsureBucket(t) ==
    /\ pc[t] = "ensure"
    /\ buckets' = buckets \union {req[t].bucket}
    /\ \/ req[t].op = "store" /\ Goto(t, "dedup") /\ UNCHANGED locals
       \/ req[t].op = "create_bucket" /\ Return(t, "ok")
    /\ UNCHANGED <<files, disk, caches, clock, handle, expired, ghosts>>

\* get_file_by_hash is LIMIT 1 with no ORDER BY: any row with the digest.  A
\* row of the same (bucket, key) ends the upload there.
Dedup(t) ==
    /\ pc[t] = "dedup"
    /\ LET same == {o \in Objects : Stored(o) /\ files[o].hash = req[t].content}
       IN  \/ /\ ~EnableDeduplication \/ same = {}
              /\ Goto(t, "create") /\ UNCHANGED locals
           \/ /\ EnableDeduplication /\ Obj(t) \in same
              /\ Return(t, "ok")
           \/ /\ EnableDeduplication
              /\ \E o \in same \ {Obj(t)} : row' = [row EXCEPT ![t] = files[o]]
              /\ Goto(t, "alias_save") /\ UNCHANGED <<bytes, path, refs, todo>>
    /\ UNCHANGED <<store, caches, clock, handle, expired, ghosts>>

\* MUTANT of save_file: ON CONFLICT DO NOTHING.
SaveIfAbsent(o, r) ==
    /\ o.bucket \in buckets
    /\ files' = IF Stored(o) THEN files ELSE [files EXCEPT ![o] = r]
    /\ NoteSaved(o)

\* save_file: INSERT ... ON CONFLICT (bucket, key) DO UPDATE.  The foreign key
\* on buckets rejects the row of a bucket deleted in the meantime.
save_file(o, r) ==
    /\ o.bucket \in buckets
    /\ files' = [files EXCEPT ![o] = r]
    /\ NoteSaved(o)

\* The alias row points at the bytes of the row Dedup found.
AliasRow(t) == [path |-> row[t].path, hash |-> req[t].content,
                expires |-> req[t].expires]
AliasSave(t) ==
    /\ pc[t] = "alias_save"
    /\ save_file(Obj(t), AliasRow(t))
    /\ Return(t, "ok")
    /\ UNCHANGED <<buckets, disk, caches, clock, handle, expired>>

AliasSaveRejected(t) ==
    /\ pc[t] = "alias_save" /\ Obj(t).bucket \notin buckets
    /\ Return(t, "error")
    /\ UNCHANGED <<store, caches, clock, handle, expired, ghosts>>

\* write_file_atomic_optimized: create or truncate the temporary file, write it,
\* rename it.  The name of the temporary file depends on the key alone (and on
\* less than the key), so uploads can meet there.
CreateTemp(t) ==
    /\ pc[t] = "create"
    /\ disk' = [disk EXCEPT ![temp_path(Obj(t))] = {}]
    /\ handle' = [handle EXCEPT ![t] = temp_path(Obj(t))]
    /\ Goto(t, "fill")
    /\ UNCHANGED <<files, buckets, caches, clock, locals, expired, ghosts>>

\* The bytes go to the open file, whatever its name is by now.  What another
\* upload wrote there since is covered, or not, depending on the lengths.
FillTemp(t) ==
    /\ pc[t] = "fill"
    /\ \/ handle[t] = None /\ UNCHANGED disk
       \/ /\ handle[t] # None
          /\ \E rest \in {{}, disk[handle[t]]} :
               disk' = [disk EXCEPT ![handle[t]] = {req[t].content} \union rest]
    /\ handle' = [handle EXCEPT ![t] = None]
    /\ Goto(t, "rename")
    /\ UNCHANGED <<files, buckets, caches, clock, locals, expired, ghosts>>

\* MUTANT of RenameTemp: the old file is removed before the new one is renamed.
RemoveThenRename(t) ==
    /\ pc[t] = "rename"
    /\ LET p == get_file_path(Obj(t))
           temp == temp_path(Obj(t))
       IN  IF disk[p] # None
           THEN disk' = [disk EXCEPT ![p] = None] /\ UNCHANGED control
           ELSE disk[temp] # None
                /\ disk' = [disk EXCEPT ![temp] = None, ![p] = disk[temp]]
                /\ Goto(t, "save")
    /\ UNCHANGED <<files, buckets, caches, clock, handle, locals, expired, ghosts>>

\* The path is that of (bucket, key), not of the content: an overwrite lands on
\* the bytes of the row it replaces.
RenameTemp(t) ==
    /\ pc[t] = "rename"
    /\ LET p == get_file_path(Obj(t))
           temp == temp_path(Obj(t))
       IN  /\ disk[temp] # None
           /\ disk' = [disk EXCEPT ![temp] = None, ![p] = disk[temp]]
           /\ handle' = [u \in Tasks |-> IF handle[u] = temp THEN p
                                         ELSE IF handle[u] = p THEN None
                                         ELSE handle[u]]
    /\ Goto(t, "save")
    /\ UNCHANGED <<files, buckets, caches, clock, locals, expired, ghosts>>

\* Somebody else renamed or removed the temporary file: the upload fails.
RenameFails(t) ==
    /\ pc[t] = "rename" /\ disk[temp_path(Obj(t))] = None
    /\ Return(t, "error")
    /\ UNCHANGED <<store, caches, clock, handle, expired, ghosts>>

\* MUTANT of NewRow: opts.expires_at is not passed on.
NewRowPermanent(t) == [path |-> get_file_path(Obj(t)), hash |-> req[t].content,
                       expires |-> 0]

NewRow(t) == [path |-> get_file_path(Obj(t)), hash |-> req[t].content,
              expires |-> req[t].expires]
SaveRow(t) ==
    /\ pc[t] = "save"
    /\ save_file(Obj(t), NewRow(t))
    /\ Goto(t, "warm_meta")
    /\ UNCHANGED <<buckets, disk, caches, clock, handle, locals, expired>>

\* The insert failed: clean up the file just written, and report the error.
SaveFails(t) ==
    /\ pc[t] = "save" /\ (Obj(t).bucket \notin buckets \/ "db" \in Faults)
    /\ unlink({get_file_path(Obj(t))})
    /\ Return(t, "error")
    /\ UNCHANGED <<files, buckets, caches, clock, expired, ghosts>>

WarmMeta(t) ==
    /\ pc[t] = "warm_meta"
    /\ meta' \in backend_set(meta, Obj(t), NewRow(t))
    /\ Goto(t, "warm_body")
    /\ UNCHANGED <<store, body, clock, handle, locals, expired, ghosts>>

WarmBody(t) ==
    /\ pc[t] = "warm_body"
    /\ body' \in set_file_content(Obj(t), {req[t].content})
    /\ Return(t, "ok")
    /\ UNCHANGED <<store, meta, clock, handle, expired, ghosts>>

-----------------------------------------------------------------------------
(* get_file and get_file_info.                                             *)

\* MUTANT of AfterRow: the NULL test on expires_at is missing.
AfterRowNullExpired(t, r, next) ==
    Goto(t, IF r.expires <= now THEN "del_find" ELSE next)

\* Where a reader that holds the row r goes: an expired object is deleted on
\* the spot and reported as not found.
AfterRow(t, r, next) ==
    Goto(t, IF Expired(r) THEN "del_find" ELSE next)

GetMeta(t) ==
    /\ pc[t] = "get_meta"
    /\ \E cached \in backend_get(meta, Obj(t)) :
         IF cached = None
         THEN Goto(t, "get_row") /\ UNCHANGED row
         ELSE AfterRow(t, cached, "get_body") /\ row' = [row EXCEPT ![t] = cached]
    /\ UNCHANGED <<store, caches, clock, handle, bytes, path, refs, todo, expired, ghosts>>

\* MUTANT of GetRow: fetch_optional without the NotFound.
GetRowUnchecked(t) ==
    /\ pc[t] = "get_row"
    /\ row' = [row EXCEPT ![t] = files[Obj(t)]]
    /\ Goto(t, "fill_meta")
    /\ UNCHANGED <<store, caches, clock, handle, bytes, path, refs, todo, expired, ghosts>>

GetRow(t) ==
    /\ pc[t] = "get_row"
    /\ IF Stored(Obj(t))
       THEN /\ row' = [row EXCEPT ![t] = files[Obj(t)]]
            /\ Goto(t, "fill_meta")
            /\ UNCHANGED <<bytes, path, refs, todo>>
       ELSE Return(t, "not_found")
    /\ UNCHANGED <<store, caches, clock, handle, expired, ghosts>>

FillMeta(t) ==
    /\ pc[t] = "fill_meta"
    /\ meta' \in backend_set(meta, Obj(t), row[t])
    /\ AfterRow(t, row[t], "get_body")
    /\ UNCHANGED <<store, body, clock, handle, locals, expired, ghosts>>

GetBody(t) ==
    /\ pc[t] = "get_body"
    /\ \E cached \in backend_get(body, Obj(t)) :
         IF cached = None
         THEN Goto(t, "read_disk") /\ UNCHANGED locals
         ELSE Respond(t, "bytes", cached)
    /\ UNCHANGED <<store, caches, clock, handle, expired, ghosts>>

\* The path the row records.  A missing file makes the reader delete the row.
ReadDisk(t) ==
    /\ pc[t] = "read_disk"
    /\ IF disk[row[t].path] = None
       THEN Goto(t, "del_find") /\ UNCHANGED bytes
       ELSE /\ Goto(t, "fill_body")
            /\ bytes' = [bytes EXCEPT ![t] = disk[row[t].path]]
    /\ UNCHANGED <<store, caches, clock, handle, row, path, refs, todo, expired, ghosts>>

\* Any other read error is reported.
ReadFails(t) ==
    /\ pc[t] = "read_disk" /\ "io" \in Faults
    /\ Return(t, "error")
    /\ UNCHANGED <<store, caches, clock, handle, expired, ghosts>>

FillBody(t) ==
    /\ pc[t] = "fill_body"
    /\ body' \in set_file_content(Obj(t), bytes[t])
    /\ Respond(t, "bytes", bytes[t])
    /\ UNCHANGED <<store, meta, clock, handle, expired, ghosts>>

GetInfo(t) ==
    /\ pc[t] = "info"
    /\ IF Stored(Obj(t)) /\ Expired(files[Obj(t)])
       THEN Goto(t, "del_find") /\ UNCHANGED locals
       ELSE IF Stored(Obj(t)) THEN Respond(t, "ok", {files[Obj(t)].hash})
       ELSE Return(t, "not_found")
    /\ UNCHANGED <<store, caches, clock, handle, expired, ghosts>>

-----------------------------------------------------------------------------
(* delete_file, called by DELETE, by the readers' self-healing (which drops *)
(* its result) and by the sweep (which goes on to the next object).         *)

\* MUTANT of AfterDelete: the sweep retries an object until it is deleted.
AfterDeleteRetry(t, answer) ==
    \/ req[t].op = "delete" /\ Return(t, answer)
    \/ req[t].op \in {"get", "info"} /\ Return(t, "not_found")
    \/ /\ req[t].op = "sweep" /\ UNCHANGED locals
       /\ Goto(t, IF answer = "ok" THEN "sweep_next" ELSE "del_find")

AfterDelete(t, answer) ==
    \/ req[t].op = "delete" /\ Return(t, answer)
    \/ req[t].op \in {"get", "info"} /\ Return(t, "not_found")
    \/ req[t].op = "sweep" /\ Goto(t, "sweep_next") /\ UNCHANGED locals

DelFind(t) ==
    /\ pc[t] = "del_find"
    /\ IF Stored(Obj(t))
       THEN /\ path' = [path EXCEPT ![t] = files[Obj(t)].path]
            /\ Goto(t, "del_count")
            /\ UNCHANGED <<row, bytes, refs, todo>>
       ELSE AfterDelete(t, "not_found")
    /\ UNCHANGED <<store, caches, clock, handle, expired, ghosts>>

\* MUTANTS of DelCount: no reference count; a count that includes the row itself.
DelCountNothing(t) ==
    /\ pc[t] = "del_count"
    /\ refs' = [refs EXCEPT ![t] = FALSE]
    /\ since' = [since EXCEPT ![t] = {}]
    /\ Goto(t, "del_row")
    /\ UNCHANGED <<store, caches, clock, handle, row, bytes, path, todo, expired,
                   sent, renewed>>
DelCountItself(t) ==
    /\ pc[t] = "del_count"
    /\ refs' = [refs EXCEPT ![t] =
                  \E o \in Objects : Stored(o) /\ files[o].path = path[t]]
    /\ since' = [since EXCEPT ![t] = {}]
    /\ Goto(t, "del_row")
    /\ UNCHANGED <<store, caches, clock, handle, row, bytes, path, todo, expired,
                   sent, renewed>>

\* other_references: COUNT(*) under READ COMMITTED, with no lock on the rows
\* it counts.
DelCount(t) ==
    /\ pc[t] = "del_count"
    /\ refs' = [refs EXCEPT ![t] =
                  \E o \in Objects \ {Obj(t)} :
                      Stored(o) /\ files[o].path = path[t]]
    /\ since' = [since EXCEPT ![t] = {}]
    /\ Goto(t, "del_row")
    /\ UNCHANGED <<store, caches, clock, handle, row, bytes, path, todo, expired,
                   sent, renewed>>

\* DELETE ... WHERE bucket AND key, and COMMIT: whatever row is there now.
DelRow(t) ==
    /\ pc[t] = "del_row"
    /\ files' = [files EXCEPT ![Obj(t)] = None]
    /\ Goto(t, "unlink")
    /\ UNCHANGED <<buckets, disk, caches, clock, handle, locals, expired, ghosts>>

Unlink(t) ==
    /\ pc[t] = "unlink"
    /\ IF refs[t] THEN UNCHANGED <<disk, handle>> ELSE unlink({path[t]})
    /\ since' = [since EXCEPT ![t] = {}]
    /\ Goto(t, "invalidate")
    /\ UNCHANGED <<files, buckets, caches, clock, locals, expired, sent, renewed>>

\* MUTANT of invalidate_file: only the metadata entry is deleted.
InvalidateMetaOnly(o) ==
    /\ meta' = [meta EXCEPT ![o] = None]
    /\ UNCHANGED body

\* invalidate_file deletes both cache entries with one call.
invalidate_file(o) ==
    \/ meta' = [meta EXCEPT ![o] = None] /\ body' = [body EXCEPT ![o] = None]
    \/ "cache" \in Faults /\ UNCHANGED caches

Invalidate(t) ==
    /\ pc[t] = "invalidate"
    /\ invalidate_file(Obj(t))
    /\ AfterDelete(t, "ok")
    /\ UNCHANGED <<store, clock, handle, expired, ghosts>>

-----------------------------------------------------------------------------
(* sweep_expired_files, from the loop of run_ttl_sweep.  A sweep that finds *)
(* nothing, or whose query fails, changes nothing and is left out.          *)

\* MUTANT of list_expired_files: expires_at IS NOT NULL is missing.
ListExpiredNull == {o \in Objects : Stored(o) /\ files[o].expires < now}

list_expired_files == {o \in Objects : Stored(o) /\ Due(files[o])}

SweepList ==
    /\ "sweep" \in Ops /\ MayStart(Sweeper)
    /\ list_expired_files # {}
    /\ expired' = list_expired_files
    /\ renewed' = {}
    /\ Goto(Sweeper, "sweep_next")
    /\ UNCHANGED <<store, caches, clock, handle, locals, sent, since>>

SweepNext ==
    /\ pc[Sweeper] = "sweep_next"
    /\ \E o \in expired :
         /\ expired' = expired \ {o}
         /\ req' = [req EXCEPT ![Sweeper] =
                      [NoRequest EXCEPT !.op = "sweep", !.bucket = o.bucket,
                                        !.obj = o]]
    /\ pc' = [pc EXCEPT ![Sweeper] = "del_find"]
    /\ UNCHANGED <<store, caches, clock, handle, locals, out, ghosts>>

SweepDone ==
    /\ pc[Sweeper] = "sweep_next" /\ expired = {}
    /\ Finish(Sweeper)
    /\ renewed' = {}
    /\ UNCHANGED <<store, caches, clock, handle, expired, out, sent, since>>

-----------------------------------------------------------------------------
(* delete_bucket.                                                          *)

RefsOf(S) == {[obj |-> o, path |-> files[o].path] : o \in {x \in S : Stored(x)}}

ListBucket(t) ==
    /\ pc[t] = "list_bucket"
    /\ todo' = [todo EXCEPT ![t] =
                  RefsOf({o \in Objects : o.bucket = req[t].bucket})]
    /\ Goto(t, "drop_bucket")
    /\ UNCHANGED <<store, caches, clock, handle, row, bytes, path, refs, expired, ghosts>>

\* DELETE FROM buckets, which cascades to the rows of the bucket.
DropBucket(t) ==
    /\ pc[t] = "drop_bucket"
    /\ IF req[t].bucket \in buckets
       THEN /\ buckets' = buckets \ {req[t].bucket}
            /\ files' = [o \in Objects |->
                           IF o.bucket = req[t].bucket THEN None ELSE files[o]]
            /\ Goto(t, "bucket_next")
            /\ UNCHANGED locals
       ELSE Return(t, "not_found") /\ UNCHANGED <<files, buckets>>
    /\ UNCHANGED <<disk, caches, clock, handle, expired, ghosts>>

\* The next listed file and its reference count; a failed count reads as 0
\* (unwrap_or(0)).
BucketNext(t) ==
    /\ pc[t] = "bucket_next"
    /\ \E f \in todo[t] :
         /\ todo' = [todo EXCEPT ![t] = @ \ {f}]
         /\ req' = [req EXCEPT ![t] = [@ EXCEPT !.obj = f.obj]]
         /\ path' = [path EXCEPT ![t] = f.path]
         /\ \E n \in Unless("db", \E o \in Objects : Stored(o) /\ files[o].path = f.path,
                            FALSE) :
              refs' = [refs EXCEPT ![t] = n]
    /\ since' = [since EXCEPT ![t] = {}]
    /\ pc' = [pc EXCEPT ![t] = "bucket_unlink"]
    /\ UNCHANGED <<store, caches, clock, handle, row, bytes, expired, out, sent, renewed>>

BucketUnlink(t) ==
    /\ pc[t] = "bucket_unlink"
    /\ IF refs[t] THEN UNCHANGED <<disk, handle>> ELSE unlink({path[t]})
    /\ since' = [since EXCEPT ![t] = {}]
    /\ Goto(t, "bucket_invalidate")
    /\ UNCHANGED <<files, buckets, caches, clock, locals, expired, sent, renewed>>

BucketInvalidate(t) ==
    /\ pc[t] = "bucket_invalidate"
    /\ invalidate_file(Obj(t))
    /\ Goto(t, "bucket_next")
    /\ UNCHANGED <<store, clock, handle, locals, expired, ghosts>>

\* remove_dir_all of the bucket's directory, whoever's bytes are in it.
RmDir(t) ==
    /\ pc[t] = "bucket_next" /\ todo[t] = {}
    /\ unlink({p \in DiskNames : p[1] = req[t].bucket})
    /\ Return(t, "ok")
    /\ UNCHANGED <<files, buckets, caches, clock, expired, ghosts>>

-----------------------------------------------------------------------------
(* preload_popular_files.  Popularity is left open: any rows may be listed. *)

PreloadList ==
    /\ "preload" \in Ops /\ MayStart(Preloader)
    /\ \E S \in SUBSET {o \in Objects : Stored(o)} :
         S # {} /\ todo' = [todo EXCEPT ![Preloader] = RefsOf(S)]
    /\ Goto(Preloader, "preload_read")
    /\ UNCHANGED <<store, caches, clock, handle, row, bytes, path, refs, expired, ghosts>>

\* cache_file_from_disk: a file that cannot be read is skipped.
PreloadRead ==
    /\ pc[Preloader] = "preload_read"
    /\ \E f \in todo[Preloader] :
         \/ /\ disk[f.path] # None
            /\ bytes' = [bytes EXCEPT ![Preloader] = disk[f.path]]
            /\ req' = [req EXCEPT ![Preloader] =
                         [NoRequest EXCEPT !.op = "preload", !.obj = f.obj]]
            /\ pc' = [pc EXCEPT ![Preloader] = "preload_fill"]
            /\ UNCHANGED <<todo, out>>
         \/ /\ disk[f.path] = None \/ "io" \in Faults
            /\ todo' = [todo EXCEPT ![Preloader] = @ \ {f}]
            /\ UNCHANGED <<control, bytes>>
    /\ UNCHANGED <<store, caches, clock, handle, row, path, refs, expired, ghosts>>

PreloadFill ==
    /\ pc[Preloader] = "preload_fill"
    /\ body' \in set_file_content(Obj(Preloader), bytes[Preloader])
    /\ todo' = [todo EXCEPT ![Preloader] = {f \in @ : f.obj # Obj(Preloader)}]
    /\ Goto(Preloader, "preload_read")
    /\ UNCHANGED <<store, meta, clock, handle, row, bytes, path, refs, expired, ghosts>>

\* A failed update_cache_status abandons the rest of the batch.
PreloadDone ==
    /\ pc[Preloader] = "preload_read" /\ (todo[Preloader] = {} \/ "db" \in Faults)
    /\ Finish(Preloader)
    /\ UNCHANGED <<store, caches, clock, handle, expired, out, ghosts>>

-----------------------------------------------------------------------------
(* Failures, time, and the cache's own evictions.                          *)

\* A query fails.  The transaction of delete_file rolls back; the caller of
\* store_file, get_file, ... gets the error.  (SaveFails and BucketNext handle
\* their own.)
DbError(t) ==
    /\ "db" \in Faults
    /\ \/ /\ pc[t] \in {"ensure", "dedup", "alias_save", "get_row", "info",
                        "list_bucket", "drop_bucket"}
          /\ Return(t, "error")
       \/ /\ pc[t] \in {"del_find", "del_count", "del_row"}
          /\ AfterDelete(t, "error")
    /\ UNCHANGED <<store, caches, clock, handle, expired, ghosts>>

\* The temporary file cannot be written or renamed.
WriteFails(t) ==
    /\ pc[t] \in {"create", "fill", "rename"} /\ "io" \in Faults
    /\ handle' = [handle EXCEPT ![t] = None]
    /\ Return(t, "error")
    /\ UNCHANGED <<store, caches, clock, expired, ghosts>>

\* The client disconnects: the handler's future is dropped at an await.
Drop(t) ==
    /\ "drop" \in Faults /\ pc[t] # "idle"
    /\ Finish(t)
    /\ handle' = [handle EXCEPT ![t] = None]
    /\ since' = [since EXCEPT ![t] = {}]
    /\ UNCHANGED <<store, caches, clock, out, expired, sent, renewed>>

\* The process stops and starts again: rows and bytes remain, and so does
\* Redis; the in-process cache and every task are gone.
Restart ==
    /\ "restart" \in Faults /\ ~AllIdle
    /\ pc' = [t \in Tasks |-> "idle"]
    /\ req' = [t \in Tasks |-> NoRequest]
    /\ handle' = [t \in Tasks |-> None]
    /\ row' = [t \in Tasks |-> None]
    /\ bytes' = [t \in Tasks |-> None]
    /\ path' = [t \in Tasks |-> None]
    /\ refs' = [t \in Tasks |-> FALSE]
    /\ todo' = [t \in Tasks |-> {}]
    /\ since' = [t \in Tasks |-> {}]
    /\ expired' = {} /\ renewed' = {}
    /\ IF SharedCache THEN UNCHANGED caches
       ELSE /\ meta' = [o \in Objects |-> None]
            /\ body' = [o \in Objects |-> None]
    /\ UNCHANGED <<store, clock, out, sent>>

\* Time to live or capacity: entries leave the cache one by one.
Evict ==
    /\ \E o \in Objects :
         \/ meta[o] # None /\ meta' = [meta EXCEPT ![o] = None] /\ UNCHANGED body
         \/ body[o] # None /\ body' = [body EXCEPT ![o] = None] /\ UNCHANGED meta
    /\ UNCHANGED <<store, clock, handle, control, locals, expired, ghosts>>

Tick ==
    /\ now < MaxTime
    /\ now' = now + 1
    /\ UNCHANGED <<store, caches, issued, handle, control, locals, expired, ghosts>>

\* With nothing in flight the service waits for the next request.
Listen == AllIdle /\ UNCHANGED vars

-----------------------------------------------------------------------------
WriteStep(t) ==
    \/ CreateTemp(t) \/ FillTemp(t) \/ RenameTemp(t) \/ RenameFails(t)
    \/ WriteFails(t)
StoreStep(t) ==
    \/ EnsureBucket(t) \/ Dedup(t) \/ AliasSave(t) \/ AliasSaveRejected(t)
    \/ WriteStep(t) \/ SaveRow(t) \/ SaveFails(t) \/ WarmMeta(t) \/ WarmBody(t)
ReadStep(t) ==
    \/ GetMeta(t) \/ GetRow(t) \/ FillMeta(t) \/ GetBody(t)
    \/ ReadDisk(t) \/ ReadFails(t) \/ FillBody(t) \/ GetInfo(t)
DeleteStep(t) ==
    DelFind(t) \/ DelCount(t) \/ DelRow(t) \/ Unlink(t) \/ Invalidate(t)
BucketStep(t) ==
    \/ ListBucket(t) \/ DropBucket(t) \/ BucketNext(t)
    \/ BucketUnlink(t) \/ BucketInvalidate(t) \/ RmDir(t)

Client(t) ==
    \/ StartStore(t) \/ StartOnObject(t) \/ StartOnBucket(t)
    \/ StoreStep(t) \/ ReadStep(t) \/ BucketStep(t) \/ Drop(t)
Sweep == SweepList \/ SweepNext \/ SweepDone
Preload == PreloadList \/ PreloadRead \/ PreloadFill \/ PreloadDone

Next ==
    \/ \E t \in Clients : Client(t)
    \/ \E t \in Clients \union {Sweeper} : DeleteStep(t) \/ DbError(t)
    \/ Sweep \/ Preload
    \/ Restart \/ Evict \/ Tick \/ Listen

Spec == Init /\ [][Next]_vars

\* The sweeper's loop never stops, and the runtime polls every ready task.
FairSpec == Spec /\ WF_vars(Sweep \/ DeleteStep(Sweeper))

-----------------------------------------------------------------------------
(* Types.                                                                  *)

Labels == {"idle", "ensure", "dedup", "alias_save", "create", "fill", "rename",
           "save", "warm_meta", "warm_body", "get_meta", "get_row", "fill_meta",
           "get_body", "read_disk", "fill_body", "info", "del_find",
           "del_count", "del_row", "unlink", "invalidate", "sweep_next",
           "list_bucket", "drop_bucket", "bucket_next", "bucket_unlink",
           "bucket_invalidate", "preload_read", "preload_fill"}
BucketLabels == {"list_bucket", "drop_bucket", "bucket_next", "bucket_unlink",
                 "bucket_invalidate"}
UploadLabels == {"dedup", "alias_save", "create", "fill", "rename", "save",
                 "warm_meta", "warm_body"}
ReadLabels == {"get_meta", "get_row", "fill_meta", "get_body", "read_disk",
               "fill_body", "info"}
DeleteLabels == {"del_find", "del_count", "del_row", "unlink", "invalidate"}
ObjectLabels == UploadLabels \union ReadLabels \union DeleteLabels
                  \union {"bucket_unlink", "bucket_invalidate", "preload_fill"}

StoresOK ==
    /\ files \in [Objects -> Rows \union {None}]
    /\ buckets \subseteq Buckets
    /\ disk \in [DiskNames -> {None} \union Bodies]
    /\ handle \in [Tasks -> DiskNames \union {None}]
    /\ \A t \in Tasks : handle[t] # None => disk[handle[t]] # None
    /\ meta \in [Objects -> Rows \union {None}]
    /\ body \in [Objects -> {None} \union Bodies]
    /\ now \in Nat /\ issued \in Nat

TasksOK ==
    /\ pc \in [Tasks -> Labels]
    /\ req \in [Tasks -> Requests]
    /\ row \in [Tasks -> Rows \union {None}]
    /\ bytes \in [Tasks -> {None} \union Bodies]
    /\ path \in [Tasks -> Paths \union {None}]
    /\ refs \in [Tasks -> BOOLEAN]
    /\ todo \in [Tasks -> SUBSET Refs]
    /\ expired \subseteq Objects
    /\ out \in Answers

GhostsOK ==
    /\ sent \in [Objects -> SUBSET Contents]
    /\ since \in [Tasks -> SUBSET Objects]
    /\ renewed \subseteq Objects

\* What each task holds at each of its steps.
TaskHolds(t) ==
    /\ pc[t] \in ObjectLabels => Obj(t) \in Objects
    /\ pc[t] \in BucketLabels \union {"ensure"} => req[t].bucket \in Buckets
    /\ pc[t] \in UploadLabels => req[t].op = "store" /\ req[t].content \in Contents
    /\ pc[t] = "ensure" =>
         \/ req[t].op = "create_bucket"
         \/ req[t].op = "store" /\ Obj(t) \in Objects /\ req[t].content \in Contents
    /\ pc[t] \in ReadLabels \ {"info"} => req[t].op = "get"
    /\ pc[t] \in {"alias_save", "fill_meta", "get_body", "read_disk", "fill_body"}
         => row[t] \in Rows
    /\ pc[t] \in {"fill_body", "preload_fill"} => bytes[t] \in Bodies
    /\ pc[t] \in {"del_count", "del_row", "unlink", "bucket_unlink"}
         => path[t] \in Paths

\* Every store, cache entry, task and local holds what the code's types say, at
\* every step of every handler: in particular a handler that dereferences a row,
\* a path or bytes has one, whatever ran between the step that fetched it and
\* the step that uses it.
TypeOK ==
    /\ StoresOK /\ TasksOK /\ GhostsOK
    /\ \A t \in Tasks : TaskHolds(t)

-----------------------------------------------------------------------------
(* What holds under every interleaving.                                    *)

\* No two keys share a temporary name, and no key is the temporary name of
\* another one.
PrivateTempNames ==
    \A j, k \in Keys : TempName[j] = TempName[k] \/ TempName[j] = k => j = k

\* Without deduplication, and with private temporary names, a GET answers only
\* with bytes that uploads to that very (bucket, key) carried: no interleaving of
\* handlers, no failure, dropped request or restart ever serves one object's
\* bytes under another's name.  (get_file: the path the row records, and the two
\* cache keys.)
NoForeignBytes ==
    out.op = "get" /\ out.status = "bytes" => out.data \subseteq sent[out.obj]

\* When delete_file or delete_bucket is about to remove bytes because its COUNT
\* found no other reference, every row that now points at those bytes was saved
\* after that COUNT: an older reference is never destroyed, so the exposure is
\* exactly the window between the count and remove_file.  (A failed count in
\* delete_bucket reads as 0, which is why it needs a database that answers.)
UnlinkWindow ==
    \A t \in Tasks :
        /\ \/ pc[t] = "unlink"
           \/ pc[t] = "bucket_unlink" /\ "db" \notin Faults
        /\ ~refs[t]
        => \A o \in Objects :
             Stored(o) /\ files[o].path = path[t] => o \in since[t]

\* The row the sweep is about to delete is gone already, is past its expires_at,
\* or was saved after the sweep's listing: the sweep cannot touch a permanent
\* object that nobody uploads while it runs.
SweepWindow ==
    pc[Sweeper] = "del_row" /\ Stored(Obj(Sweeper)) =>
        Due(files[Obj(Sweeper)]) \/ Obj(Sweeper) \in renewed

-----------------------------------------------------------------------------
(* What holds when requests do not overlap.                                *)

\* Every row points at bytes that are on disk (the landmine described above
\* save_file in database.rs is a row that points at nothing).
NoDangling == \A o \in Objects : Stored(o) => disk[files[o].path] # None

\* At rest the bytes on disk are the ones whose digest the row records.
IntegrityAtRest ==
    AllIdle => \A o \in Objects : Stored(o) => disk[files[o].path] = {files[o].hash}

\* At rest every file under base_path belongs to some row: deletions, overwrites
\* and bucket removals leave nothing behind.
NoOrphansAtRest ==
    AllIdle => \A p \in DiskNames :
        disk[p] # None => \E o \in Objects : Stored(o) /\ files[o].path = p

\* At rest a cached row is the row of the database and a cached body its content:
\* what store_file warms and delete_file invalidates leaves no stale entry.
CacheCoherentAtRest ==
    AllIdle => \A o \in Objects :
        /\ meta[o] # None => meta[o] = files[o]
        /\ body[o] # None => Stored(o) /\ body[o] = {files[o].hash}

\* The self-healing of get_file and get_file_info deletes a row only when that
\* row has expired or has lost its bytes.
ReadersReapOnlyDead ==
    \A t \in Clients :
        pc[t] = "del_row" /\ req[t].op \in {"get", "info"} /\ Stored(Obj(t))
        => Expired(files[Obj(t)]) \/ disk[files[Obj(t)].path] = None

-----------------------------------------------------------------------------
(* What the code's comments promise and overlapping requests break.        *)

\* "so readers never see a partially-written file": a GET answers with the bytes
\* of exactly one upload.
WholeReads ==
    out.op = "get" /\ out.status = "bytes" => \E c \in Contents : out.data = {c}

-----------------------------------------------------------------------------
\* A row past its expires_at is eventually removed, or replaced by an upload, by
\* the sweep alone: nobody has to read the object.
SweepReaps ==
    \A o \in Objects :
        (Stored(o) /\ Due(files[o])) ~> ~(Stored(o) /\ Due(files[o]))

=============================================================================
