------------------------- MODULE StorageRefinement -------------------------
(***************************************************************************)
(* StorageManager implements ObjectMap: the rows of the table are the map, *)
(* and the moment an operation takes effect is the query that changes      *)
(* them.  The bytes on disk and the two caches are implementation: the     *)
(* refinement says that nobody can tell.                                   *)
(***************************************************************************)
EXTENDS StorageManager

\* History: when each handler's request arrived.  It follows the steps of
\* StorageManager and influences none.
VARIABLE asked

histVars == <<vars, asked>>

HInit == Init /\ asked = [t \in Clients |-> 0]
HNext ==
    /\ Next
    /\ asked' = [t \in Clients |-> IF pc'[t] = "idle" THEN 0
                                   ELSE IF pc[t] = "idle" THEN now
                                   ELSE asked[t]]
HSpec == HInit /\ [][HNext]_histVars

\* NULL is not a version either.
ASSUME VersionAssumption == None \notin [content: Contents, expires: Nat]

\* The row of the table is the version; where its bytes are is nobody's business.
VersionOf(r) == IF r = None THEN None
                ELSE [content |-> r.hash, expires |-> r.expires]

\* The steps that follow the query with which an operation takes effect.
Effected(t) ==
    \/ req[t].op = "store" /\ pc[t] \in {"warm_meta", "warm_body"}
    \/ req[t].op = "delete" /\ pc[t] \in {"unlink", "invalidate"}
    \/ req[t].op = "delete_bucket"
       /\ pc[t] \in {"bucket_next", "bucket_unlink", "bucket_invalidate"}

\* The object a request is about; delete_bucket visits objects but is about none.
About(op, o) == IF op = "delete_bucket" THEN None ELSE o

CallOf(t) == [op |-> req[t].op, bucket |-> req[t].bucket,
              obj |-> About(req[t].op, req[t].obj), content |-> req[t].content,
              expires |-> req[t].expires, since |-> asked[t],
              done |-> Effected(t)]

Map == INSTANCE ObjectMap WITH
    MayFail <- FALSE,
    objects <- [o \in Objects |-> VersionOf(files[o])],
    calls   <- [t \in Clients |-> CallOf(t)],
    answer  <- [out EXCEPT !.obj = About(out.op, @)]

\* Every step of the storage manager is a step of the map or invisible to it: an
\* upload, a deletion or a bucket deletion takes effect exactly once, an answer
\* with bytes carries the version the map holds at that moment and never one that
\* had expired when it was asked for, a 404 means the map holds nothing, and the
\* sweep, the readers' self-healing, the preloader and evictions change nothing
\* but expired objects.
ImplementsObjectMap == Map!Spec
=============================================================================
