------------------------------ MODULE DataPath ------------------------------
(***************************************************************************)
(* What happens to the bytes of an object: store_file compresses and       *)
(* encrypts them, reads and Range requests undo it.  The code is           *)
(* compression.rs, crypto.rs, encryption_keys.rs, the encoding half of     *)
(* store_file, the three read paths of storage.rs, and                     *)
(* handle_file_request of handlers/file_handlers.rs.                       *)
(*                                                                         *)
(* A row says how its bytes were made; the bytes are under a path.  The    *)
(* two are written one after the other, and what a row needs for decoding  *)
(* (the configuration, the global key, the registered keys) changes while  *)
(* rows live on.  Reads prefer the cached row and the cached bytes, which  *)
(* an upload replaces only if it writes bytes of its own and they are      *)
(* small.  Deletion by clients, TTLs, buckets and failing stores, and the  *)
(* window between a lookup and the cache fill that follows it, are         *)
(* StorageManager's subject and do not appear here.                        *)
(***************************************************************************)
EXTENDS Naturals

CONSTANTS
    Objects,        \* (bucket, key) pairs; also the path each one writes to
    Contents,       \* the bodies clients upload
    Size, ZipSize,  \* length of a content, and of its compressed form with the header byte
    MinSize,        \* config.compression.min_size
    CacheLimit,     \* MAX_CACHE_SIZE: longer bodies are not cached
    Uploaders,      \* handlers that run store_file
    Readers,        \* handlers that run handle_file_request
    KeyIds,         \* ids generate_key_id returns
    GlobalKeys,     \* values of CRYPTO_KEY
    Configs,        \* what the environment of the process may say
    Options,        \* StoreOptions of an upload
    Headers,        \* Range headers of a request
    None,           \* Option::None, SQL NULL, a missing file, an error
    MaxUploads, MaxReads, MaxRestarts   \* bounds

ZipAlgorithms == {"gzip", "zstd"}
CryptoAlgorithms == {"aes-gcm", "chacha20poly1305"}
AlgorithmNames == ZipAlgorithms \union {"unsupported"}
SealOverhead == 28  \* nonce (12) and authentication tag (16)

ConfigRecords == [compression: BOOLEAN, zip_algorithm: AlgorithmNames, crypto: BOOLEAN,
                  algorithm: CryptoAlgorithms, key: GlobalKeys \union {None},
                  dedup: BOOLEAN]
OptionRecords == [compress: {"unset", "yes", "no"}, encrypt: {"unset", "yes", "no"},
                  zip_algorithm: AlgorithmNames \union {None}, key: KeyIds \union {None}]

\* A Range header: a "span" first-last, an open-ended "from" first-, a
\* "suffix" -n, several ranges ("multi"), "bytes=" and something that is not a
\* range of u64 numbers ("bad"), or no "bytes=" at all ("other").
RangeForms == {"span", "from", "suffix", "multi", "bad", "other"}
HeaderRecords == [form: RangeForms, first: Nat, last: Nat]

ASSUME SizeAssumption ==
    /\ Size \in [Contents -> Nat] /\ ZipSize \in [Contents -> Nat \ {0}]
    /\ MinSize \in Nat /\ CacheLimit \in Nat
ASSUME RequestAssumption ==
    /\ \A c \in Configs : c \in ConfigRecords
    /\ \A o \in Options : o \in OptionRecords
    /\ \A h \in Headers : h \in HeaderRecords
    /\ Configs # {} /\ MaxUploads \in Nat /\ MaxReads \in Nat
    /\ MaxRestarts \in Nat
\* Whose key a sealed body needs: a registered one, CRYPTO_KEY, or the one a
\* process without CRYPTO_KEY made up when it started.
SealKeys == ({"registered"} \X KeyIds) \union ({"configured"} \X GlobalKeys)
            \union ({"random"} \X Nat)
Seals == [algorithm: CryptoAlgorithms, key: SealKeys]

\* A stored body: a content, compressed or not, inside a seal or not.
Bodies == [of: Contents, zip: ZipAlgorithms \union {"none"}, seal: Seals \union {None}]

\* The columns of a row that decoding depends on.
Rows == [path: Objects, of: Contents, size: Nat, is_compressed: BOOLEAN,
         is_encrypted: BOOLEAN, algorithm: CryptoAlgorithms \union {None},
         key: KeyIds \union {None}]

Spans == [start: Nat, end: Nat]

ASSUME DistinctAssumption ==
    /\ Uploaders \intersect Readers = {}
    /\ None \notin Objects /\ None \notin Contents /\ None \notin Uploaders
    /\ None \notin KeyIds /\ None \notin GlobalKeys /\ None \notin Options
    /\ None \notin Headers /\ None \notin AlgorithmNames /\ None \notin CryptoAlgorithms
    /\ None \notin Seals /\ None \notin Bodies /\ None \notin Rows /\ None \notin Spans

Tasks == Uploaders \union Readers
Requests == [obj: Objects \union {None}, of: Contents \union {None},
             opts: Options \union {None}, range: Headers \union {None}]
NoRequest == [obj |-> None, of |-> None, opts |-> None, range |-> None]
Statuses == {"none", "created", "aliased", "reused", "200", "206", "404", "416", "error"}
Answers == [status: Statuses, body: Bodies \union {None},
            span: Spans \union {None}, got: Nat, total: Nat,
            to: Requests, clean: BOOLEAN]

VARIABLES
    config,    \* the configuration the process runs with
    cipher,    \* the one cipher init_cipher made, or None
    restarts,  \* processes started so far
    keys,      \* table encryption_keys: "absent", "active" or "inactive"
    rows,      \* table files
    disk,      \* the file at each path
    meta,      \* cache: the row under "file:bucket:key"
    content,   \* cache: the stored bytes under "content:bucket:key"
    uploads, reads,  \* requests so far
    pc, req,   \* per task: its next step, its request
    out,       \* the answer the last step sent, if it sent one
    row,       \* local: the row a handler works with
    body,      \* local: the bytes a handler works with
    span,      \* local: the range a reader serves
    owner,     \* history: the uploader that last wrote each path
    spoilt,    \* history: rows whose bytes another upload replaced or removed
    clean      \* history: nothing a task depends on changed since it started

process == <<config, cipher, restarts>>
cache   == <<meta, content>>
store   == <<keys, rows, disk, cache>>
issued  == <<uploads, reads>>
locals  == <<row, body, span>>
ghosts  == <<owner, spoilt, clean>>
vars    == <<process, store, issued, pc, req, out, locals, ghosts>>

-----------------------------------------------------------------------------
(* Range headers *)

Pred(n) == IF n = 0 THEN 0 ELSE n - 1     \* saturating_sub(1)
Least(m, n) == IF m <= n THEN m ELSE n

SuffixRange(n, total) ==
    IF n = 0 \/ total = 0 THEN None
    ELSE [start |-> IF total <= n THEN 0 ELSE total - n, end |-> total - 1]

BoundedRange(first, last, total) ==
    IF first > last \/ first >= total THEN None
    ELSE [start |-> first, end |-> Least(last, Pred(total))]

parse_range_header(h, total) ==
    CASE h.form = "suffix" -> SuffixRange(h.last, total)
      [] h.form = "from"   -> BoundedRange(h.first, Pred(total), total)
      [] h.form = "span"   -> BoundedRange(h.first, h.last, total)
      [] OTHER             -> None

\* The last byte a read path serves: the span is cut off at the total the
\* path's own row gives.
ClampedEnd(s, total) == Least(s.end, Pred(total))
Overlaps(s, total) == total # 0 /\ s.start <= ClampedEnd(s, total)
Wanted(s, total) == ClampedEnd(s, total) - s.start + 1

-----------------------------------------------------------------------------
(* Compression and encryption *)

Plain(c) == [of |-> c, zip |-> "none", seal |-> None]
Length(b) == (IF b.zip = "none" THEN Size[b.of] ELSE ZipSize[b.of])
             + (IF b.seal = None THEN 0 ELSE SealOverhead)

\* unwrap_or of an option
Chosen(opt, default) == opt = "yes" \/ (opt = "unset" /\ default)

\* store_file keeps the compressed form if it was asked for one, the content is
\* long enough, the algorithm exists and the result is shorter.
Compresses(c, o) ==
    LET algorithm == IF o.zip_algorithm = None THEN config.zip_algorithm
                     ELSE o.zip_algorithm IN
    /\ Chosen(o.compress, config.compression)
    /\ Size[c] >= MinSize /\ Size[c] # 0
    /\ algorithm \in ZipAlgorithms
    /\ ZipSize[c] < Size[c]

compress(c, o) ==
    IF Compresses(c, o)
    THEN [Plain(c) EXCEPT !.zip = IF o.zip_algorithm = None THEN config.zip_algorithm
                                  ELSE o.zip_algorithm]
    ELSE Plain(c)

Encrypts(o) == Chosen(o.encrypt, config.crypto)

\* get_key: the key must exist and be active.
get_key(k) == keys[k] = "active"

Seal(algorithm, key) == [algorithm |-> algorithm, key |-> key]

encrypt_with_key(b, algorithm, k) ==
    [b EXCEPT !.seal = Seal(algorithm, <<"registered", k>>)]

\* encrypt: without encryption in the configuration the bytes stay as they are.
encrypt(b) == IF ~config.crypto THEN b ELSE [b EXCEPT !.seal = cipher]

\* MUTANT of EncryptionReady: any key that exists will do.
EncryptionReadyInactive(o) == Encrypts(o) /\ o.key # None => keys[o.key] # "absent"

EncryptionReady(o) == Encrypts(o) /\ o.key # None => get_key(o.key)

Encode(c, o) ==
    LET b == compress(c, o) IN
    IF ~Encrypts(o) THEN b
    ELSE IF o.key # None THEN encrypt_with_key(b, config.algorithm, o.key)
    ELSE encrypt(b)

\* An authenticated cipher opens what the same key and algorithm sealed and
\* fails on everything else.
Open(b, seal) == IF b.seal = seal THEN [b EXCEPT !.seal = None] ELSE None

decrypt_with_key(b, algorithm, k) == Open(b, Seal(algorithm, <<"registered", k>>))

\* decrypt: only the configured algorithm has a cipher.
decrypt(b, algorithm) ==
    IF ~config.crypto THEN b
    ELSE IF cipher.algorithm # algorithm THEN None ELSE Open(b, cipher)

\* decompress goes by the header byte.  Bytes that compress did not make may
\* start with any byte, so they are refused or handed back as they are.
decompress(b) ==
    IF ~config.compression \/ Length(b) = 0 THEN {b}
    ELSE IF b.seal = None /\ b.zip # "none" THEN {Plain(b.of)}
    ELSE {b, None}

\* decode_content: the results it may have (None: an error).
decode_content(f, b) ==
    LET opened == IF ~f.is_encrypted THEN b
                  ELSE IF f.key = None THEN decrypt(b, f.algorithm)
                  ELSE IF get_key(f.key) THEN decrypt_with_key(b, f.algorithm, f.key)
                  ELSE None
    IN  IF opened # None /\ f.is_compressed THEN decompress(opened) ELSE {opened}

-----------------------------------------------------------------------------
(* The process *)

\* CryptoManager::new: one cipher, for the configured algorithm.
init_cipher(c, n) ==
    IF ~c.crypto THEN None
    ELSE Seal(c.algorithm, IF c.key = None THEN <<"random", n>> ELSE <<"configured", c.key>>)

NoAnswer == [status |-> "none", body |-> None, span |-> None, got |-> 0, total |-> 0,
             to |-> NoRequest, clean |-> FALSE]

Init ==
    /\ config \in Configs
    /\ cipher = init_cipher(config, 0)
    /\ restarts = 0
    /\ keys = [k \in KeyIds |-> "absent"]
    /\ rows = [o \in Objects |-> None]
    /\ disk = [o \in Objects |-> None]
    /\ meta = [o \in Objects |-> None] /\ content = [o \in Objects |-> None]
    /\ uploads = 0 /\ reads = 0
    /\ pc = [t \in Tasks |-> "idle"]
    /\ req = [t \in Tasks |-> NoRequest]
    /\ out = NoAnswer
    /\ row = [t \in Tasks |-> None]
    /\ body = [t \in Tasks |-> None]
    /\ span = [t \in Tasks |-> None]
    /\ owner = [o \in Objects |-> None]
    /\ spoilt = {}
    /\ clean = [t \in Tasks |-> FALSE]

\* What tasks have seen of the stores may be out of date now.
Disturb(others) == clean' = [t \in Tasks |-> clean[t] /\ t \notin others]

\* Task t answers and its locals go out of scope.
Reply(t, a) ==
    /\ out' = [a EXCEPT !.to = req[t], !.clean = clean[t]]
    /\ pc' = [pc EXCEPT ![t] = "idle"]
    /\ req' = [req EXCEPT ![t] = NoRequest]
    /\ row' = [row EXCEPT ![t] = None]
    /\ body' = [body EXCEPT ![t] = None]
    /\ span' = [span EXCEPT ![t] = None]
Status(status) == [NoAnswer EXCEPT !.status = status]

\* ... in a step that changed no store, or one that did.
Answer(t, a) == Reply(t, a) /\ Disturb({t})
Commit(t, status) == Reply(t, Status(status)) /\ Disturb(Tasks)

\* Task t goes on to its next await.
Continue(t, next) ==
    /\ pc' = [pc EXCEPT ![t] = next]
    /\ out' = NoAnswer
    /\ UNCHANGED req

Accept(t, r, next, fresh) ==
    /\ pc[t] = "idle"
    /\ pc' = [pc EXCEPT ![t] = next]
    /\ req' = [req EXCEPT ![t] = r]
    /\ out' = NoAnswer
    /\ clean' = [clean EXCEPT ![t] = fresh]
    /\ UNCHANGED <<process, store, locals, owner, spoilt>>

-----------------------------------------------------------------------------
(* store_file *)

StartUpload(u) ==
    /\ uploads < MaxUploads /\ uploads' = uploads + 1 /\ UNCHANGED reads
    /\ \E o \in Objects, c \in Contents, opts \in Options :
            Accept(u, [NoRequest EXCEPT !.obj = o, !.of = c, !.opts = opts], "dedup", TRUE)

\* The objects whose row has the digest of the request's content.
Duplicates(u) == {p \in Objects : rows[p] # None /\ rows[p].of = req[u].of}

DedupMisses(u) ==
    /\ pc[u] = "dedup"
    /\ config.dedup => Duplicates(u) = {}
    /\ Continue(u, "write")
    /\ UNCHANGED <<process, store, issued, locals, ghosts>>

\* The same object again: the existing row is handed back.
Reuse(u) ==
    /\ pc[u] = "dedup" /\ config.dedup
    /\ req[u].obj \in Duplicates(u)
    /\ Answer(u, Status("reused"))
    /\ UNCHANGED <<process, store, issued, owner, spoilt>>

\* Another object: the new row has the path and all settings of the existing
\* one; those of the request are ignored.  The cache is left as it is.
Alias(u) ==
    /\ pc[u] = "dedup" /\ config.dedup
    /\ \E p \in Duplicates(u) \ {req[u].obj} :
        /\ rows' = [rows EXCEPT ![req[u].obj] = rows[p]]
        /\ spoilt' = IF p \in spoilt THEN spoilt \union {req[u].obj}
                     ELSE spoilt \ {req[u].obj}
    /\ Commit(u, "aliased")
    /\ UNCHANGED <<process, keys, disk, cache, issued, owner>>

KeyRefused(u) ==
    /\ pc[u] = "write" /\ ~EncryptionReady(req[u].opts)
    /\ Answer(u, Status("error"))
    /\ UNCHANGED <<process, store, issued, owner, spoilt>>

\* MUTANT of NewRow: the row repeats the request instead of what was kept.
NewRowAsked(u, b) ==
    LET r == req[u] IN
    [path |-> r.obj, of |-> r.of, size |-> Length(b),
     is_compressed |-> Chosen(r.opts.compress, config.compression),
     is_encrypted |-> Encrypts(r.opts),
     algorithm |-> IF Encrypts(r.opts) THEN config.algorithm ELSE None,
     key |-> r.opts.key]

NewRow(u, b) ==
    LET r == req[u] IN
    [path |-> r.obj, of |-> r.of, size |-> Length(b),
     is_compressed |-> b.zip # "none",
     is_encrypted |-> Encrypts(r.opts),
     algorithm |-> IF Encrypts(r.opts) THEN config.algorithm ELSE None,
     key |-> r.opts.key]

\* The rows that have their bytes at path o.
Using(o) == {p \in Objects : rows[p] # None /\ rows[p].path = o}

\* Encode, and rename the file into place.
PutWrite(u) ==
    /\ pc[u] = "write" /\ EncryptionReady(req[u].opts)
    /\ LET o == req[u].obj
           b == Encode(req[u].of, req[u].opts)
       IN  /\ disk' = [disk EXCEPT ![o] = b]
           /\ row' = [row EXCEPT ![u] = NewRow(u, b)]
           /\ body' = [body EXCEPT ![u] = b]
           /\ owner' = [owner EXCEPT ![o] = u]
           /\ spoilt' = spoilt \union Using(o)
    /\ Continue(u, "save")
    /\ Disturb(Tasks \ {u})
    /\ UNCHANGED <<process, keys, rows, cache, issued, span>>

\* files.encryption_key_id references encryption_keys, whether used or not.
ForeignKeyHolds(f) == f.key # None => keys[f.key] # "absent"

PutSave(u) ==
    /\ pc[u] = "save" /\ ForeignKeyHolds(row[u])
    /\ LET o == req[u].obj
       IN  /\ rows' = [rows EXCEPT ![o] = row[u]]
           /\ spoilt' = IF owner[o] = u THEN spoilt \ {o} ELSE spoilt \union {o}
    /\ Continue(u, "warm")
    /\ Disturb(Tasks \ {u})
    /\ UNCHANGED <<process, keys, disk, cache, issued, locals, owner>>

Cacheable(b) == Length(b) <= CacheLimit

\* set_file_metadata, set_file_content: bytes that are too long to cache leave the
\* ones of an earlier version there.
Warm(u) ==
    /\ pc[u] = "warm"
    /\ meta' = [meta EXCEPT ![req[u].obj] = row[u]]
    /\ content' = IF Cacheable(body[u]) THEN [content EXCEPT ![req[u].obj] = body[u]]
                  ELSE content
    /\ Answer(u, Status("created"))
    /\ UNCHANGED <<process, keys, rows, disk, issued, owner, spoilt>>

\* The insert is refused and the clean-up removes the file at the path.
PutSaveFails(u) ==
    /\ pc[u] = "save" /\ ~ForeignKeyHolds(row[u])
    /\ disk' = [disk EXCEPT ![req[u].obj] = None]
    /\ owner' = [owner EXCEPT ![req[u].obj] = None]
    /\ spoilt' = spoilt \union Using(req[u].obj)
    /\ Commit(u, "error")
    /\ UNCHANGED <<process, keys, rows, cache, issued>>

-----------------------------------------------------------------------------
(* handle_file_request *)

StartRead(r) ==
    /\ reads < MaxReads /\ reads' = reads + 1 /\ UNCHANGED uploads
    /\ \E o \in Objects, h \in Headers \union {None} :
            Accept(r, [NoRequest EXCEPT !.obj = o, !.range = h],
                   IF h = None THEN "row" ELSE "info", o \notin spoilt)

\* MUTANT of RangeTotal: the length on disk.
RangeTotalStored(f) == f.size

\* The length a header is validated against: the decoded one.
RangeTotal(f) == Size[f.of]

\* get_file_info gives the length.  A header that is no satisfiable range is
\* answered 416, or ignored if it has several ranges or another unit; a failed
\* lookup is left to get_file.
RangeInfo(r) ==
    LET f == rows[req[r].obj]
        h == req[r].range
        s == parse_range_header(h, RangeTotal(f))
    IN  /\ pc[r] = "info"
        /\ IF f = None \/ (s = None /\ h.form \in {"multi", "other"})
           THEN Continue(r, "row") /\ UNCHANGED <<locals, clean>>
           ELSE IF s = None
           THEN Answer(r, [Status("416") EXCEPT !.total = RangeTotal(f)])
           ELSE /\ Continue(r, "plain")
                /\ span' = [span EXCEPT ![r] = s]
                /\ UNCHANGED <<row, body, clean>>
        /\ UNCHANGED <<process, store, issued, owner, spoilt>>

\* The rows a lookup may find: the cached one, or the one in the table if the cache
\* has none, has dropped it (its time was over, there was no room) or does not answer.
Found(o) == {rows[o]} \union ({meta[o]} \ {None})

\* What was found is cached.
SetMeta(o, f) == meta' = IF f = None THEN meta ELSE [meta EXCEPT ![o] = f]

\* The reader works with row f, which may be out of date.
TakeRow(r, f) ==
    /\ row' = [row EXCEPT ![r] = f]
    /\ clean' = [clean EXCEPT ![r] = clean[r] /\ f = rows[req[r].obj]]

\* One of the two fast paths found row f for itself, and goes on with it if it
\* applies; otherwise the next path is tried.
FastRow(r, f, applies, next, otherwise) ==
    /\ SetMeta(req[r].obj, f)
    /\ IF applies THEN Continue(r, next) /\ TakeRow(r, f)
       ELSE Continue(r, otherwise) /\ UNCHANGED <<row, clean>>
    /\ UNCHANGED <<process, keys, rows, disk, content, issued, body, span, owner, spoilt>>

Partial(b, s, got, total) ==
    [Status("206") EXCEPT !.body = b, !.span = s, !.got = got, !.total = total]

\* get_file_range_if_plain: seek and read_exact, for a plain object.
PlainRow(r) ==
    /\ pc[r] = "plain"
    /\ \E f \in Found(req[r].obj) :
       FastRow(r, f,
               f # None /\ ~f.is_compressed /\ ~f.is_encrypted /\ Overlaps(span[r], f.size),
               "seek", "zip")

PlainRead(r) ==
    LET b   == disk[row[r].path]
        len == Wanted(span[r], row[r].size)
    IN  /\ pc[r] = "seek"
        /\ IF b # None /\ span[r].start + len <= Length(b)
           THEN Answer(r, Partial(b, span[r], len, row[r].size))
           ELSE Continue(r, "zip") /\ UNCHANGED <<locals, clean>>
        /\ UNCHANGED <<process, store, issued, owner, spoilt>>

\* decompress_range: the bytes it finds in the range of compressed data (fewer
\* than asked for if the data ends early), or None for anything else.
decompress_range(b, start, len) ==
    IF Length(b) = 0 THEN 0
    ELSE IF b.seal # None \/ b.zip = "none" THEN None
    ELSE Least(len, IF start >= Size[b.of] THEN 0 ELSE Size[b.of] - start)

\* get_compressed_file_range: for a compressed object that is not encrypted.
ZipRow(r) ==
    /\ pc[r] = "zip"
    /\ \E f \in Found(req[r].obj) :
       FastRow(r, f,
               f # None /\ f.is_compressed /\ ~f.is_encrypted /\ Overlaps(span[r], Size[f.of]),
               "inflate", "row")

ZipRead(r) ==
    LET f   == row[r]
        b   == disk[f.path]
        got == IF b = None THEN None
               ELSE decompress_range(b, span[r].start, Wanted(span[r], Size[f.of]))
    IN  /\ pc[r] = "inflate"
        /\ IF got # None
           THEN Answer(r, Partial(Plain(b.of), span[r], got, Size[f.of]))
           ELSE Continue(r, "row") /\ UNCHANGED <<locals, clean>>
        /\ UNCHANGED <<process, store, issued, owner, spoilt>>

\* MUTANT of FullRow: no early return for a missing row.
FullRowUnchecked(r) ==
    /\ pc[r] = "row"
    /\ \E f \in Found(req[r].obj) : SetMeta(req[r].obj, f) /\ TakeRow(r, f)
    /\ Continue(r, "load")
    /\ UNCHANGED <<process, keys, rows, disk, content, issued, body, span, owner, spoilt>>

\* get_file: the row, the bytes, the decoding.
FullRow(r) ==
    /\ pc[r] = "row"
    /\ \E f \in Found(req[r].obj) :
        /\ SetMeta(req[r].obj, f)
        /\ IF f = None THEN Answer(r, Status("404"))
           ELSE Continue(r, "load") /\ TakeRow(r, f) /\ UNCHANGED <<body, span>>
    /\ UNCHANGED <<process, keys, rows, disk, content, issued, owner, spoilt>>

\* The bytes: cached ones are taken without a look at the row, so they may be those
\* of an earlier version ...
CachedRead(r) ==
    LET b == content[req[r].obj] IN
    /\ pc[r] = "load" /\ b # None
    /\ body' = [body EXCEPT ![r] = b]
    /\ clean' = [clean EXCEPT ![r] = clean[r] /\ b = disk[row[r].path]]
    /\ Continue(r, "decode")
    /\ UNCHANGED <<process, store, issued, row, span, owner, spoilt>>

\* ... or, if the cache does not give any, the file's are read and cached if they are
\* short.
FullRead(r) ==
    LET b == disk[row[r].path] IN
    /\ pc[r] = "load" /\ b # None
    /\ body' = [body EXCEPT ![r] = b]
    /\ content' = IF Cacheable(b) THEN [content EXCEPT ![req[r].obj] = b] ELSE content
    /\ Continue(r, "decode")
    /\ UNCHANGED <<process, keys, rows, disk, meta, issued, row, span, ghosts>>

\* delete_file, by key: the row, its file unless another row uses it, and the cache
\* entries.  Without a row it ends at once.
delete_file(o) ==
    LET gone == {p \in Objects : rows[o] # None /\ rows[o].path = p /\ Using(p) = {o}} IN
    /\ rows' = [rows EXCEPT ![o] = None]
    /\ disk' = [p \in Objects |-> IF p \in gone THEN None ELSE disk[p]]
    /\ owner' = [p \in Objects |-> IF p \in gone THEN None ELSE owner[p]]
    /\ spoilt' = spoilt \ {o}
    /\ IF rows[o] = None THEN UNCHANGED cache
       ELSE meta' = [meta EXCEPT ![o] = None] /\ content' = [content EXCEPT ![o] = None]

\* A row without its file is deleted: the one the object has now, whichever was
\* looked up.
SelfHeal(r) ==
    /\ pc[r] = "load" /\ disk[row[r].path] = None
    /\ delete_file(req[r].obj)
    /\ Commit(r, "404")
    /\ UNCHANGED <<process, keys, issued>>

\* The answer to a decoded body: the range, validated once more, or all of it.
Served(h, b) ==
    LET s == IF h = None THEN None ELSE parse_range_header(h, Length(b)) IN
    IF s = None
    THEN [Status("200") EXCEPT !.body = b, !.got = Length(b), !.total = Length(b)]
    ELSE Partial(b, s, s.end - s.start + 1, Length(b))

Decode(r) ==
    /\ pc[r] = "decode"
    /\ \E b \in decode_content(row[r], body[r]) :
        Answer(r, IF b = None THEN Status("error") ELSE Served(req[r].range, b))
    /\ UNCHANGED <<process, store, issued, owner, spoilt>>

-----------------------------------------------------------------------------
(* Keys and processes *)

create_key(k) ==
    /\ keys[k] = "absent"
    /\ keys' = [keys EXCEPT ![k] = "active"]
    /\ out' = NoAnswer
    /\ UNCHANGED <<process, rows, disk, cache, issued, pc, req, locals, ghosts>>

deactivate_key(k) ==
    /\ keys[k] = "active"
    /\ keys' = [keys EXCEPT ![k] = "inactive"]
    /\ out' = NoAnswer
    /\ Disturb(Tasks)
    /\ UNCHANGED <<process, rows, disk, cache, issued, pc, req, locals, owner, spoilt>>

\* The process stops at any point and starts again, with the same environment
\* or another one.  A cache in Redis outlives it; one in memory does not, and then
\* every lookup misses.
Restart ==
    /\ restarts < MaxRestarts
    /\ restarts' = restarts + 1
    /\ config' \in Configs
    /\ cipher' = init_cipher(config', restarts')
    /\ pc' = [t \in Tasks |-> "idle"]
    /\ req' = [t \in Tasks |-> NoRequest]
    /\ out' = NoAnswer
    /\ row' = [t \in Tasks |-> None]
    /\ body' = [t \in Tasks |-> None]
    /\ span' = [t \in Tasks |-> None]
    /\ Disturb(Tasks)
    /\ UNCHANGED <<store, issued, owner, spoilt>>

\* The server waits for the next connection.
Listen ==
    /\ \A t \in Tasks : pc[t] = "idle"
    /\ out' = NoAnswer
    /\ UNCHANGED <<process, store, issued, pc, req, locals, ghosts>>

Upload(u) ==
    \/ StartUpload(u) \/ DedupMisses(u) \/ Reuse(u) \/ Alias(u)
    \/ KeyRefused(u) \/ PutWrite(u) \/ PutSave(u) \/ PutSaveFails(u) \/ Warm(u)

Read(r) ==
    \/ StartRead(r) \/ RangeInfo(r) \/ PlainRow(r) \/ PlainRead(r) \/ ZipRow(r)
    \/ ZipRead(r) \/ FullRow(r) \/ CachedRead(r) \/ FullRead(r) \/ SelfHeal(r)
    \/ Decode(r)

Next ==
    \/ \E u \in Uploaders : Upload(u)
    \/ \E r \in Readers : Read(r)
    \/ \E k \in KeyIds : create_key(k) \/ deactivate_key(k)
    \/ Restart
    \/ Listen

Spec == Init /\ [][Next]_vars

-----------------------------------------------------------------------------
(* Properties *)

TypeOK ==
    /\ config \in Configs
    /\ cipher \in Seals \union {None} /\ (config.crypto <=> cipher # None)
    /\ restarts \in Nat /\ uploads \in Nat /\ reads \in Nat
    /\ keys \in [KeyIds -> {"absent", "active", "inactive"}]
    /\ rows \in [Objects -> Rows \union {None}]
    /\ disk \in [Objects -> Bodies \union {None}]
    /\ meta \in [Objects -> Rows \union {None}]
    /\ content \in [Objects -> Bodies \union {None}]
    /\ pc \in [Tasks -> {"idle", "dedup", "write", "save", "warm", "info", "plain", "seek",
                         "zip", "inflate", "row", "load", "decode"}]
    /\ req \in [Tasks -> Requests]
    /\ out \in Answers
    /\ row \in [Tasks -> Rows \union {None}]
    /\ body \in [Tasks -> Bodies \union {None}]
    /\ span \in [Tasks -> Spans \union {None}]
    /\ \A t \in Tasks : pc[t] # "idle" => req[t].obj # None
    /\ \A u \in Uploaders : pc[u] # "idle" => req[u].of # None /\ req[u].opts # None
    /\ \A t \in Tasks : pc[t] = "info" => req[t].range # None
    /\ \A t \in Tasks : pc[t] \in {"plain", "seek", "zip", "inflate"} => span[t] # None
    /\ \A t \in Tasks :
         pc[t] \in {"save", "warm", "seek", "inflate", "load", "decode"} => row[t] # None
    /\ \A t \in Tasks : pc[t] \in {"save", "warm", "decode"} => body[t] # None
    /\ owner \in [Objects -> Uploaders \union {None}]
    /\ spoilt \subseteq Objects
    /\ clean \in [Tasks -> BOOLEAN]

\* Whether what a row needs to be opened is there: its registered key is active,
\* or the process has the cipher its bytes were sealed with.
KeyAvailable(f, b) ==
    f.is_encrypted =>
        IF f.key # None THEN get_key(f.key) ELSE b.seal = None \/ b.seal = cipher

\* decode_content reverses whatever store_file did, for every row and at any
\* time: through overwrites, aliases that ignore their own settings, concurrent
\* uploads, restarts with another algorithm or key and key deactivation.  The
\* result is the uploaded content, or an error if the key is not available, and
\* never anything else.  Rows whose bytes another upload replaced or removed,
\* and which have not been saved since, are excepted.
Decodable ==
    \A o \in Objects \ spoilt : rows[o] # None =>
        LET f == rows[o]
            b == disk[f.path]
        IN  /\ b # None
            /\ decode_content(f, b) =
                 IF KeyAvailable(f, b) THEN {Plain(f.of)} ELSE {None}

\* An upload that stored its own bytes can be read back when it is answered: a
\* key that cannot be used any more is refused before anything is stored.
UploadReadable ==
    out.status = "created" /\ out.clean =>
        LET f == rows[out.to.obj] IN
        decode_content(f, disk[f.path]) = {Plain(out.to.of)}

\* The bytes RFC 7233 says a header selects of a representation of length n.
Selected(h, n) ==
    {i \in 0 .. Pred(n) :
        /\ i < n
        /\ CASE h.form = "span"   -> h.first <= i /\ i <= h.last
             [] h.form = "from"   -> h.first <= i
             [] h.form = "suffix" -> n <= i + h.last
             [] OTHER             -> FALSE}

\* Headers that are no range: not a number, or an end before the start.
Malformed(h) == h.form = "bad" \/ (h.form = "span" /\ h.first > h.last)
Ignored(h) == h = None \/ h.form \in {"multi", "other"}

\* The answer to a request for an object that nobody touched meanwhile: the
\* selected bytes of the decoded content under a Content-Range that says so,
\* whichever of the three paths served them, from the cache or from the disk; 416
\* if the header selects nothing; the whole content if there is no header or one
\* that is ignored, and that or 416, but never a part, for a malformed one; an
\* error only if the key is not available.
Expected(a) ==
    LET f == rows[a.to.obj]
        h == a.to.range
        n == Size[f.of]
        refused == a.status = "416" /\ a.total = n
        whole == IF KeyAvailable(f, disk[f.path])
                 THEN a.status = "200" /\ a.body = Plain(f.of) /\ a.got = n /\ a.total = n
                 ELSE a.status = "error"
    IN  IF f = None THEN a.status = "404"
        ELSE IF Ignored(h) THEN whole
        ELSE IF Malformed(h) THEN refused \/ whole
        ELSE IF Selected(h, n) = {} THEN refused
        ELSE IF ~KeyAvailable(f, disk[f.path]) THEN a.status = "error"
        ELSE /\ a.status = "206" /\ a.body = Plain(f.of) /\ a.total = n
             /\ Selected(h, n) = a.span.start .. a.span.end
             /\ a.got = a.span.end - a.span.start + 1

\* A read that nothing interfered with, and that found nothing out of date in the
\* cache, is answered exactly as expected.  After an upload that became an alias or
\* was too long to cache the cached row or bytes of the object are those it
\* replaced: a read that gets them is excepted.
ReadAnswers == {"200", "206", "404", "416", "error"}
RangeExact ==
    out.status \in ReadAnswers /\ out.to.of = None /\ out.clean => Expected(out)

=============================================================================
