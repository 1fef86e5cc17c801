----------------------------- MODULE S3Objects -----------------------------
(***************************************************************************)
(* The S3-compatible handlers (local-storage/src/s3/handlers.rs) on top of *)
(* the storage manager.  Each handler makes one or several calls, one      *)
(* after the other, and other requests run between any two of them.  The   *)
(* signature check comes first and changes nothing.                        *)
(*                                                                         *)
(* The calls are those of ObjectMap, whose map here is the table: info,    *)
(* delete and listings go there.  The bodies of get_file do not: they come *)
(* from the cache or from a file that other rows may share, so a lookup    *)
(* may also be answered against the table (Stray), and a row may go at any *)
(* moment (Lose).  What is shown is what the handlers make of that.        *)
(***************************************************************************)
EXTENDS Naturals, FiniteSets

CONSTANTS
    Buckets, Keys, Contents, Clients, None, MayFail,  \* as in ObjectMap
    TTLs,          \* lifetimes that X-Ttl-Seconds may ask for
    MaxKeysParams, \* values of max-keys
    PageCap,       \* the 1000 of ListObjectsV2
    MaxRequests,   \* bound on the requests
    MaxTime        \* bound on the clock

ASSUME S3Assumption ==
    /\ TTLs \subseteq Nat \ {0} /\ MaxKeysParams \subseteq Nat
    /\ PageCap \in Nat \ {0} /\ MaxRequests \in Nat /\ MaxTime \in Nat

VARIABLES objects, buckets, now, calls, answer

Store == INSTANCE ObjectMap

VARIABLES
    pc,      \* of each handler: idle, first (call), between (calls), second
    work,    \* what it was asked and what it has so far
    resp,    \* the response that the last step gave, if it gave one
    issued,  \* requests accepted so far
    seen,    \* history: what its objects' rows held since the request arrived
    stray    \* history: the requests in flight that were given a stray answer

storeVars == <<objects, buckets, now, calls, answer>>
vars == <<storeVars, pc, work, resp, issued, seen, stray>>

Objects == Store!Objects

\* NULL is no bucket, no object, no content and no version of an object.
ASSUME NoneAssumption ==
    /\ None \notin Buckets /\ None \notin Objects /\ None \notin Contents
    /\ None \notin Store!Versions
ASSUME FiniteAssumption == IsFiniteSet(Objects)

Content(o) == IF objects[o] = None THEN None ELSE objects[o].content

NoWork == [op |-> "none", obj |-> None, src |-> None, content |-> None,
           keys |-> {}, todo |-> {}, deleted |-> {}, errors |-> {}]
NoAnswer == [op |-> "none", obj |-> None, status |-> "none", data |-> {}]
NoResponse == [client |-> None, status |-> 0, body |-> {}, etag |-> {},
               keys |-> {}, listing |-> FALSE, truncated |-> FALSE]

\* Earlier uploads have left objects in the buckets, or not.
Init ==
    /\ objects \in [Objects -> {None} \union
                      {[content |-> c, expires |-> 0] : c \in Contents}]
    /\ buckets = Buckets
    /\ now = 0
    /\ calls = [t \in Clients |-> Store!NoCall]
    /\ answer = NoAnswer
    /\ pc = [t \in Clients |-> "idle"]
    /\ work = [t \in Clients |-> NoWork]
    /\ resp = NoResponse
    /\ issued = 0
    /\ seen = [t \in Clients |-> [o \in Objects |-> {}]]
    /\ stray = {}

-----------------------------------------------------------------------------
(* Calls and responses.                                                    *)

Call(op, b, o, c, e) ==
    [op |-> op, bucket |-> b, obj |-> o, content |-> c, expires |-> e,
     since |-> now, done |-> FALSE]
OnObject(op, o) == Call(op, o.bucket, o, None, 0)
Ask(t, call) ==
    /\ calls' = [calls EXCEPT ![t] = call]
    /\ answer' = NoAnswer
    /\ UNCHANGED <<objects, buckets, now>>

Accept(t) ==
    /\ pc[t] = "idle" /\ issued < MaxRequests
    /\ issued' = issued + 1
Begin(t, w, call) ==
    /\ Accept(t)
    /\ Ask(t, call)
    /\ work' = [work EXCEPT ![t] = w]
    /\ pc' = [pc EXCEPT ![t] = "first"]
    /\ resp' = NoResponse

Respond(t, r) ==
    /\ resp' = r
    /\ pc' = [pc EXCEPT ![t] = "idle"]
    /\ work' = [work EXCEPT ![t] = NoWork]
Ok(t, body, etag) ==
    Respond(t, [NoResponse EXCEPT !.client = t, !.status = 200, !.body = body,
                                  !.etag = etag])
\* S3Error::from: NotFound and InvalidBucket are a 404, anything else here a 500.
Fails(t, status) ==
    Respond(t, [NoResponse EXCEPT !.client = t,
                                  !.status = IF status = "not_found" THEN 404 ELSE 500])

-----------------------------------------------------------------------------
(* Requests arrive.                                                        *)

PutObject(t) ==
    \E o \in Objects, c \in Contents, ttl \in TTLs \union {0} :
        Begin(t, [NoWork EXCEPT !.op = "put", !.obj = o, !.content = c],
              Call("store", o.bucket, o, c, IF ttl = 0 THEN 0 ELSE now + ttl))

CopyObject(t) ==
    \E src, o \in Objects :
        Begin(t, [NoWork EXCEPT !.op = "copy", !.obj = o, !.src = src],
              OnObject("get", src))

GetObject(t) ==
    \E o \in Objects :
        Begin(t, [NoWork EXCEPT !.op = "get", !.obj = o], OnObject("get", o))
HeadObject(t) ==
    \E o \in Objects :
        Begin(t, [NoWork EXCEPT !.op = "head", !.obj = o], OnObject("info", o))
DeleteObject(t) ==
    \E o \in Objects :
        Begin(t, [NoWork EXCEPT !.op = "delete", !.obj = o], OnObject("delete", o))

\* bucket_post: the keys of the request are deleted one by one.
DeleteObjects(t) ==
    \E b \in Buckets, S \in SUBSET Keys :
        LET O == {o \in Objects : o.bucket = b /\ o.key \in S}
        IN  \E o \in O :
              Begin(t, [NoWork EXCEPT !.op = "batch", !.obj = o, !.keys = O,
                                      !.todo = O \ {o}],
                    OnObject("delete", o))

OnBucket(t) ==
    \E b \in Buckets, op \in {"create_bucket", "delete_bucket"} :
        Begin(t, [NoWork EXCEPT !.op = op], Call(op, b, None, None, 0))

\* A request without a valid signature, or with a malformed X-Ttl-Seconds, copy
\* source or body, is answered before any call.
Refuse(t) ==
    /\ Accept(t)
    /\ resp' = [NoResponse EXCEPT !.client = t, !.status = 400]
    /\ UNCHANGED <<storeVars, pc, work>>

\* MUTANT of Fetched: no extra row, so nothing ever looks truncated.
FetchedExactly(max_keys) == max_keys

\* "Fetch one extra to know whether the result was truncated."
Fetched(max_keys) == max_keys + 1
Clamp(n) == IF n < 1 THEN 1 ELSE IF n > PageCap THEN PageCap ELSE n
AtMost(n, S) == {P \in SUBSET S : Cardinality(P) = n \/ (P = S /\ Cardinality(S) < n)}

\* list_objects_v2: one query, newest first (any order here), expired rows
\* included.
ListObjects(t) ==
    /\ Accept(t)
    /\ \/ MayFail /\ resp' = [NoResponse EXCEPT !.client = t, !.status = 500]
       \/ \E b \in Buckets, n \in MaxKeysParams :
         LET max_keys == Clamp(n)
         IN  \E files \in AtMost(Fetched(max_keys),
                                 {o \in Objects : o.bucket = b /\ objects[o] # None}) :
             \E page \in AtMost(max_keys, files) :
               resp' = [NoResponse EXCEPT
                          !.client = t, !.status = 200, !.keys = page,
                          !.listing = TRUE,
                          !.truncated = Cardinality(files) > max_keys]
    /\ UNCHANGED <<storeVars, pc, work>>

-----------------------------------------------------------------------------
(* What a handler does with the answers to its calls.                      *)

\* MUTANT of Keep: the handler waits for an answer to a call it did not make.
KeepWaiting(t, w) ==
    /\ work' = [work EXCEPT ![t] = w]
    /\ pc' = [pc EXCEPT ![t] = "second"]
    /\ resp' = NoResponse

Keep(t, w) ==
    /\ work' = [work EXCEPT ![t] = w]
    /\ pc' = [pc EXCEPT ![t] = "between"]
    /\ resp' = NoResponse

\* MUTANT of AfterInfo: a failed second lookup only costs the ETag.
AfterInfoOptional(t, a) == Ok(t, {work[t].content}, a.data)

\* get_object: the ETag comes from a second lookup.
AfterInfo(t, a) ==
    IF a.status = "ok" THEN Ok(t, {work[t].content}, a.data) ELSE Fails(t, a.status)

\* get_object and copy_object keep the bytes of the first call.
AfterBytes(t, a) ==
    IF a.status = "bytes"
    THEN Keep(t, [work[t] EXCEPT !.content = CHOOSE c \in a.data : TRUE])
    ELSE Fails(t, a.status)

\* MUTANT of AfterBatchDelete: every key is reported as deleted.
AfterBatchDeleteOptimist(t, a) ==
    Keep(t, [work[t] EXCEPT !.deleted = @ \union {work[t].obj}])

AfterBatchDelete(t, a) ==
    IF a.status \in {"ok", "not_found"}
    THEN Keep(t, [work[t] EXCEPT !.deleted = @ \union {work[t].obj}])
    ELSE Keep(t, [work[t] EXCEPT !.errors = @ \union {work[t].obj}])

\* MUTANT of AfterStore: the result of store_file is not looked at.
AfterStoreIgnored(t, a) == Ok(t, {}, {work[t].content})

\* put_object, of an upload and of a copy.
AfterStore(t, a) ==
    IF a.status = "ok" THEN Ok(t, {}, {work[t].content}) ELSE Fails(t, a.status)

After(t, a) ==
    \/ work[t].op = "get" /\ pc[t] = "second" /\ AfterInfo(t, a)
    \/ work[t].op \in {"get", "copy"} /\ pc[t] = "first" /\ AfterBytes(t, a)
    \/ /\ work[t].op = "put" \/ (work[t].op = "copy" /\ pc[t] = "second")
       /\ AfterStore(t, a)
    \/ /\ work[t].op = "head"
       /\ IF a.status = "ok" THEN Ok(t, {}, a.data) ELSE Fails(t, a.status)
    \* Deleting an absent key is a success.
    \/ /\ work[t].op = "delete"
       /\ IF a.status = "error" THEN Fails(t, "error") ELSE Ok(t, {}, {})
    \/ work[t].op = "batch" /\ AfterBatchDelete(t, a)
    \/ /\ work[t].op \in {"create_bucket", "delete_bucket"}
       /\ IF a.status = "ok" THEN Ok(t, {}, {}) ELSE Fails(t, a.status)

\* get_file answers with bytes that are not the row's: the cache still holds an
\* earlier version (the upload that became an alias, or was too large to cache, did
\* not replace it), or the file was overwritten by the object that shares it, or is
\* torn.  Or it, or get_file_info, answers not_found and the row stays: its time is
\* over or its file is missing, and the self-healing delete failed.
Stray(t) ==
    /\ \/ /\ Store!Pending(t, "get")
          /\ \E c \in Contents \ {Content(calls[t].obj)} : Store!Answer(t, "bytes", {c})
       \/ /\ Store!Pending(t, "get") \/ Store!Pending(t, "info")
          /\ objects[calls[t].obj] # None /\ Store!Answer(t, "not_found", {})
    /\ UNCHANGED buckets

\* The storage manager answers the handler's call.
Answered(t) ==
    /\ pc[t] \in {"first", "second"}
    /\ Store!Reply(t) \/ Stray(t)
    /\ After(t, answer')
    /\ UNCHANGED issued

Again(t, w, call) ==
    /\ Ask(t, call)
    /\ work' = [work EXCEPT ![t] = w]
    /\ pc' = [pc EXCEPT ![t] = "second"]
    /\ resp' = NoResponse /\ UNCHANGED issued

\* The next call: get_file_info; store_file with the default options, so a copy
\* is permanent whatever the source was; the next key.
NextCall(t) ==
    /\ pc[t] = "between"
    /\ \/ work[t].op = "get" /\ Again(t, work[t], OnObject("info", work[t].obj))
       \/ /\ work[t].op = "copy"
          /\ Again(t, work[t],
                   Call("store", work[t].obj.bucket, work[t].obj, work[t].content, 0))
       \/ /\ work[t].op = "batch"
          /\ \E o \in work[t].todo :
               Again(t, [work[t] EXCEPT !.obj = o, !.todo = @ \ {o}],
                     OnObject("delete", o))

BatchDone(t) ==
    /\ pc[t] = "between" /\ work[t].op = "batch" /\ work[t].todo = {}
    /\ Respond(t, [NoResponse EXCEPT !.client = t, !.status = 200,
                                     !.keys = work[t].deleted])
    /\ UNCHANGED <<storeVars, issued>>

-----------------------------------------------------------------------------
\* A row goes: its time is over, or a sweep or a reader deletes the new version
\* because the one it had looked up before was expired or unreadable.
Lose ==
    /\ \E o \in Objects :
         objects[o] # None /\ objects' = [objects EXCEPT ![o] = None]
    /\ UNCHANGED <<buckets, now, calls, answer>>

\* The storage manager does what a handler waits for, or time passes.
StoreWorks ==
    /\ \/ \E t \in Clients :
            Store!EnsureBucket(t) \/ Store!Put(t) \/ Store!Delete(t) \/ Store!DeleteBucket(t)
       \/ Lose
       \/ now < MaxTime /\ Store!Tick
    /\ resp' = NoResponse /\ UNCHANGED <<pc, work, issued>>

\* With nothing in flight the service waits for the next request.
Listen ==
    /\ \A t \in Clients : pc[t] = "idle"
    /\ resp' = NoResponse /\ UNCHANGED <<storeVars, pc, work, issued>>

Handler(t) ==
    \/ PutObject(t) \/ CopyObject(t) \/ GetObject(t) \/ HeadObject(t)
    \/ DeleteObject(t) \/ DeleteObjects(t) \/ OnBucket(t) \/ Refuse(t)
    \/ ListObjects(t) \/ Answered(t) \/ NextCall(t) \/ BatchDone(t)

\* The history: what the objects a request is about have held since it arrived (no
\* property needs that of an upload), and whether a lookup of it was answered otherwise
\* than by what the table holds.
AboutOf(w) == IF w.op = "put" THEN {} ELSE {w.obj, w.src} \union w.keys
Contradicted(t) ==
    /\ Store!Pending(t, "get") \/ Store!Pending(t, "info")
    /\ calls'[t] # calls[t]
    /\ answer'.status # "error" /\ answer'.data # {Content(calls[t].obj)} \ {None}
Watch ==
    /\ seen' = [t \in Clients |-> [o \in Objects |->
                  IF o \notin AboutOf(work'[t]) THEN {}
                  ELSE (IF pc[t] = "idle" THEN {} ELSE seen[t][o]) \union {Content(o)'}]]
    /\ stray' = {t \in Clients : pc[t] # "idle" /\ (t \in stray \/ Contradicted(t))}

Next == ((\E t \in Clients : Handler(t)) \/ StoreWorks \/ Listen) /\ Watch
Spec == Init /\ [][Next]_vars

-----------------------------------------------------------------------------
\* The calls, the requests and the answers have the shapes the handlers rely on;
\* a handler waits for exactly one call of its own.
TypeOK ==
    /\ objects \in [Objects -> Store!Versions \union {None}]
    /\ buckets \subseteq Buckets /\ now \in 0 .. MaxTime
    /\ calls \in [Clients -> Store!Calls \union {Store!NoCall}]
    /\ \A t \in Clients : (pc[t] \in {"first", "second"}) = (calls[t] # Store!NoCall)
    /\ \A t \in Clients : work[t].todo \union work[t].deleted \subseteq work[t].keys
    /\ seen \in [Clients -> [Objects -> SUBSET (Contents \union {None})]]
    /\ stray \subseteq Clients

Ends(t) == pc[t] # "idle" /\ pc'[t] = "idle"
Succeeds(t, op) == Ends(t) /\ work[t].op = op /\ resp'.status = 200

\* The ETag of a GetObject (from a second lookup) and of a HeadObject is of a version
\* whose row the object had while the request ran, and so is the body of a GetObject
\* that get_file did not answer against the table: the handler itself, waiting
\* between its two lookups while others overwrite, delete and re-create, never adds
\* a mismatch of its own.  (It cannot repair one either: after a stray answer the
\* new ETag goes out with the old bytes.)
GetCoherent ==
    [][\A t \in Clients :
         /\ Succeeds(t, "get") =>
              \E c \in Contents, e \in seen[t][work[t].obj] :
                  /\ resp'.body = {c} /\ resp'.etag = {e}
                  /\ c \in seen[t][work[t].obj] \/ t \in stray'
         /\ Succeeds(t, "head") =>
              \E e \in seen[t][work[t].obj] : resp'.etag = {e}]_vars

\* A copy that is answered with success has stored, under the key it was asked for
\* and while it ran, the content its ETag names; and that is content the source's
\* row held while the copy ran, unless get_file answered against the table: then
\* the stale bytes are copied, and become the target's own.
CopyCurrent ==
    [][\A t \in Clients :
         Succeeds(t, "copy") =>
            \E c \in Contents :
                /\ resp'.etag = {c} /\ c \in seen[t][work[t].obj]
                /\ c \in seen[t][work[t].src] \/ t \in stray']_vars

\* A 404 means the object (of a copy: the source) was absent at some moment of the
\* request, or could not be served and the lookup failed to delete its row; a key that
\* DeleteObject or a batch reports as deleted was absent at some moment too; and a
\* batch accounts for each of its keys, as deleted or as an error.
AbsenceIsReal ==
    [][\A t \in Clients :
         /\ Ends(t) /\ resp'.status = 404 /\ work[t].obj # None =>
              \/ None \in seen[t][IF work[t].op = "copy" THEN work[t].src ELSE work[t].obj]
              \/ t \in stray'
         /\ Succeeds(t, "delete") => None \in seen[t][work[t].obj]
         /\ Succeeds(t, "batch") =>
              /\ \A o \in resp'.keys : None \in seen[t][o]
              /\ resp'.keys \union work[t].errors = work[t].keys]_vars

\* A listing that is not marked truncated is the whole bucket, and a truncated one
\* leaves something out: a client that stops at IsTruncated = false has seen all.
ListingHonest ==
    [][issued' # issued /\ resp'.listing =>
         \E b \in Buckets :
            LET all == {o \in Objects : o.bucket = b /\ objects[o] # None}
            IN  /\ resp'.keys \subseteq all
                /\ resp'.truncated = (resp'.keys # all)]_vars
=============================================================================
