----------------------------- MODULE ObjectMap -----------------------------
(***************************************************************************)
(* What the storage manager promises to its callers: one map from (bucket, *)
(* key) to the content last uploaded there and its lifetime, changed by    *)
(* operations that take effect at one moment between their call and their  *)
(* answer.  No disk, no table, no cache.  StorageRefinement shows that     *)
(* StorageManager implements this while requests do not overlap and        *)
(* deduplication is off; S3Objects builds the S3 handlers on it.           *)
(***************************************************************************)
EXTENDS Naturals

CONSTANTS
    Buckets, Keys, Contents, Clients, None,
    MayFail   \* TRUE: an operation may end in an error, without effect

VARIABLES
    objects,   \* the version stored under each (bucket, key), or None
    buckets,   \* the buckets that exist
    now,       \* the clock
    calls,     \* the operation each client waits for
    answer     \* the last answer

mapVars == <<objects, buckets, now, calls, answer>>

Objects == [bucket: Buckets, key: Keys]
Versions == [content: Contents, expires: Nat]   \* 0: never expires
ObjectOps == {"store", "get", "info", "delete"}
BucketOps == {"create_bucket", "delete_bucket"}

\* A call: what is asked, since when, and whether it has taken effect.
NoCall == [op |-> "none", bucket |-> None, obj |-> None, content |-> None,
           expires |-> 0, since |-> 0, done |-> FALSE]
Calls ==
    {c \in [op: ObjectOps \union BucketOps, bucket: Buckets,
            obj: Objects \union {None}, content: Contents \union {None},
            expires: Nat, since: Nat, done: BOOLEAN] :
       /\ c.op \in ObjectOps => c.obj # None /\ c.bucket = c.obj.bucket
       /\ c.op \in BucketOps => c.obj = None
       /\ (c.op = "store") = (c.content # None)
       /\ c.expires = 0 \/ (c.op = "store" /\ c.expires > c.since)}

Gone(v, time) == v.expires # 0 /\ v.expires <= time
Present(o) == objects[o] # None

Init ==
    /\ objects = [o \in Objects |-> None]
    /\ buckets = {}
    /\ now = 0
    /\ calls = [t \in Clients |-> NoCall]
    /\ answer = [op |-> "none", obj |-> None, status |-> "none", data |-> {}]

Invoke(t) ==
    /\ calls[t] = NoCall
    /\ calls' = [calls EXCEPT ![t] = calls'[t]]
    /\ calls'[t] \in Calls /\ calls'[t].since = now /\ ~calls'[t].done
    /\ UNCHANGED <<objects, buckets, now, answer>>

\* The one moment an operation takes effect.
Done(t) == calls' = [calls EXCEPT ![t].done = TRUE]
Pending(t, op) == calls[t].op = op /\ ~calls[t].done

EnsureBucket(t) ==
    /\ Pending(t, "store")
    /\ buckets' = buckets \union {calls[t].bucket}
    /\ UNCHANGED <<objects, now, calls, answer>>

Put(t) ==
    /\ Pending(t, "store") /\ calls[t].bucket \in buckets
    /\ objects' = [objects EXCEPT ![calls[t].obj] =
                     [content |-> calls[t].content, expires |-> calls[t].expires]]
    /\ Done(t)
    /\ UNCHANGED <<buckets, now, answer>>

Delete(t) ==
    /\ Pending(t, "delete") /\ Present(calls[t].obj)
    /\ objects' = [objects EXCEPT ![calls[t].obj] = None]
    /\ Done(t)
    /\ UNCHANGED <<buckets, now, answer>>

DeleteBucket(t) ==
    /\ Pending(t, "delete_bucket") /\ calls[t].bucket \in buckets
    /\ buckets' = buckets \ {calls[t].bucket}
    /\ objects' = [o \in Objects |->
                     IF o.bucket = calls[t].bucket THEN None ELSE objects[o]]
    /\ Done(t)
    /\ UNCHANGED <<now, answer>>

\* An object whose time is over may go at any moment, asked for or not.
Expire ==
    /\ \E o \in Objects :
         /\ Present(o) /\ Gone(objects[o], now)
         /\ objects' = [objects EXCEPT ![o] = None]
    /\ UNCHANGED <<buckets, now, calls, answer>>

\* An operation ends with the only answers the map allows at that moment.  A
\* version whose time was over when it was asked for is never handed out.
Answer(t, status, data) ==
    /\ answer' = [op |-> calls[t].op, obj |-> calls[t].obj, status |-> status,
                  data |-> data]
    /\ calls' = [calls EXCEPT ![t] = NoCall]
    /\ UNCHANGED <<objects, now>>

Live(t) == Present(calls[t].obj) /\ ~Gone(objects[calls[t].obj], calls[t].since)

Reply(t) ==
    \/ /\ calls[t].done
       /\ Answer(t, "ok", {}) /\ UNCHANGED buckets
    \/ /\ Pending(t, "create_bucket")
       /\ Answer(t, "ok", {}) /\ buckets' = buckets \union {calls[t].bucket}
    \/ /\ Pending(t, "get") /\ Live(t)
       /\ Answer(t, "bytes", {objects[calls[t].obj].content}) /\ UNCHANGED buckets
    \/ /\ Pending(t, "info") /\ Live(t)
       /\ Answer(t, "ok", {objects[calls[t].obj].content}) /\ UNCHANGED buckets
    \/ /\ \E op \in {"get", "info", "delete"} : Pending(t, op)
       /\ ~Present(calls[t].obj)
       /\ Answer(t, "not_found", {}) /\ UNCHANGED buckets
    \/ /\ Pending(t, "delete_bucket") /\ calls[t].bucket \notin buckets
       /\ Answer(t, "not_found", {}) /\ UNCHANGED buckets
    \/ /\ MayFail /\ calls[t] # NoCall /\ ~calls[t].done
       /\ Answer(t, "error", {}) /\ UNCHANGED buckets

Tick == now' = now + 1 /\ UNCHANGED <<objects, buckets, calls, answer>>

Next ==
    \/ \E t \in Clients :
         \/ Invoke(t) \/ EnsureBucket(t) \/ Put(t) \/ Delete(t)
         \/ DeleteBucket(t) \/ Reply(t)
    \/ Expire \/ Tick

Spec == Init /\ [][Next]_mapVars
=============================================================================
