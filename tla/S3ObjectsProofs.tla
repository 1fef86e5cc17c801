--------------------------- MODULE S3ObjectsProofs ---------------------------
(***************************************************************************)
(* The S3 handlers, for any number of concurrent requests, objects and     *)
(* contents.                                                               *)
(*                                                                         *)
(* A handler that makes two calls answers from two moments.  The invariant *)
(* ties what it has kept so far, and what its call has already done, to    *)
(* what its objects have held since the request arrived.                   *)
(***************************************************************************)
EXTENDS S3Objects, TLAPS, FiniteSetTheorems

-----------------------------------------------------------------------------
(* The invariant.                                                          *)

ObjectRequests == {"put", "copy", "get", "head", "delete", "batch"}
BucketRequests == {"create_bucket", "delete_bucket"}
Works == [op: ObjectRequests \union BucketRequests \union {"none"},
          obj: Objects \union {None}, src: Objects \union {None},
          content: Contents \union {None}, keys: SUBSET Objects,
          todo: SUBSET Objects, deleted: SUBSET Objects, errors: SUBSET Objects]

Shapes ==
    /\ objects \in [Objects -> Store!Versions \union {None}]
    /\ buckets \subseteq Buckets /\ now \in 0 .. MaxTime
    /\ calls \in [Clients -> Store!Calls \union {Store!NoCall}]
    /\ pc \in [Clients -> {"idle", "first", "between", "second"}]
    /\ work \in [Clients -> Works]
    /\ seen \in [Clients -> [Objects -> SUBSET (Contents \union {None})]]
    /\ stray \subseteq Clients

\* The call c a handler waits for is the one its request w calls for at this point.
WaitsFor(w, c, first) ==
    LET On(op, o) == c.op = op /\ c.obj = o /\ o \in Objects
    IN  \/ w.op = "put" /\ first /\ On("store", w.obj)
        \/ w.op = "get" /\ first /\ On("get", w.obj)
        \/ w.op = "get" /\ ~first /\ On("info", w.obj)
        \/ w.op = "copy" /\ first /\ On("get", w.src) /\ w.obj \in Objects
        \/ /\ w.op = "copy" /\ ~first /\ On("store", w.obj)
           /\ c.content = w.content /\ w.src \in Objects
        \/ w.op = "head" /\ first /\ On("info", w.obj)
        \/ w.op = "delete" /\ first /\ On("delete", w.obj)
        \/ w.op = "batch" /\ On("delete", w.obj) /\ w.obj \in w.keys
        \/ w.op \in BucketRequests /\ c.op = w.op /\ first /\ w.obj = None
Waits(t) == WaitsFor(work[t], calls[t], pc[t] = "first")

\* Between two calls it holds what it needs for the next one.
Holds(t) ==
    LET w == work[t]
    IN  \/ w.op = "get" /\ w.obj \in Objects
        \/ w.op = "copy" /\ w.obj \in Objects /\ w.src \in Objects
        \/ w.op = "batch" /\ w.obj \in w.keys

\* A batch accounts for each of its keys.
Accounts(t) ==
    LET w == work[t]
        pending == IF pc[t] \in {"first", "second"} THEN {w.obj} ELSE {}
    IN  /\ w.todo \union w.deleted \subseteq w.keys
        /\ w.op # "batch" => w.deleted = {}
        /\ w.op = "batch" => w.deleted \union w.errors \union w.todo \union pending = w.keys

\* Its objects' contents have been seen: the present ones, the one it has kept unless
\* that was a stray answer, the ones its call has copied or removed, the absence of the
\* keys it has deleted.
Saw(t) ==
    LET w == work[t]
        c == calls[t]
        kept == pc[t] \in {"between", "second"}
    IN  /\ \A o \in AboutOf(w) \intersect Objects : Content(o) \in seen[t][o]
        /\ w.op \in {"get", "copy"} /\ kept => w.content \in Contents
        /\ w.op = "get" /\ kept => w.content \in seen[t][w.obj] \/ t \in stray
        /\ w.op = "copy" /\ kept => w.content \in seen[t][w.src] \/ t \in stray
        /\ c.done /\ c.op = "store" /\ w.op = "copy" => c.content \in seen[t][c.obj]
        /\ c.done /\ c.op = "delete" => None \in seen[t][c.obj]
        /\ \A o \in w.deleted : None \in seen[t][o]

ClientOK(t) ==
    /\ (pc[t] \in {"first", "second"}) = (calls[t] # Store!NoCall)
    /\ pc[t] = "idle" => work[t] = NoWork
    /\ pc[t] \in {"first", "second"} => Waits(t)
    /\ pc[t] = "between" => Holds(t)
    /\ Accounts(t)
    /\ pc[t] # "idle" => Saw(t)
    /\ calls[t].done => calls[t].op \in {"store", "delete", "delete_bucket"}

Inv == Shapes /\ \A t \in Clients : ClientOK(t)

-----------------------------------------------------------------------------
(* Requests and calls.                                                     *)

\* The empty request.
LEMMA NoWorkFields ==
    /\ NoWork \in Works
    /\ NoWork.op = "none" /\ NoWork.obj = None /\ NoWork.src = None /\ NoWork.content = None
    /\ NoWork.keys = {} /\ NoWork.todo = {} /\ NoWork.deleted = {} /\ NoWork.errors = {}
BY DEF NoWork, Works

\* A request about one object, when it arrives.
LEMMA AskedObject ==
    ASSUME NEW op \in ObjectRequests \union BucketRequests, NEW o \in Objects
    PROVE  LET w == [NoWork EXCEPT !.op = op, !.obj = o]
           IN  /\ w \in Works /\ w.op = op /\ w.obj = o /\ w.keys = {}
               /\ w.todo = {} /\ w.deleted = {} /\ w.errors = {}
<1>1. PICK n \in Works : n = NoWork
  BY NoWorkFields
<1>2. n.keys = {} /\ n.todo = {} /\ n.deleted = {} /\ n.errors = {}
  BY <1>1, NoWorkFields
<1>3. LET w == [n EXCEPT !.op = op, !.obj = o]
      IN  /\ w \in Works /\ w.op = op /\ w.obj = o /\ w.keys = {}
          /\ w.todo = {} /\ w.deleted = {} /\ w.errors = {}
  BY <1>2 DEF Works
<1> QED BY <1>1, <1>3

\* An upload, when it arrives.
LEMMA AskedPut ==
    ASSUME NEW op \in ObjectRequests \union BucketRequests, NEW o \in Objects, NEW c \in Contents
    PROVE  LET w == [NoWork EXCEPT !.op = op, !.obj = o, !.content = c]
           IN  /\ w \in Works /\ w.op = op /\ w.obj = o /\ w.content = c /\ w.keys = {}
               /\ w.todo = {} /\ w.deleted = {} /\ w.errors = {}
<1>1. PICK n \in Works : n = NoWork
  BY NoWorkFields
<1>2. n.keys = {} /\ n.todo = {} /\ n.deleted = {} /\ n.errors = {}
  BY <1>1, NoWorkFields
<1>3. LET w == [n EXCEPT !.op = op, !.obj = o, !.content = c]
      IN  /\ w \in Works /\ w.op = op /\ w.obj = o /\ w.content = c /\ w.keys = {}
          /\ w.todo = {} /\ w.deleted = {} /\ w.errors = {}
  BY <1>2 DEF Works
<1> QED BY <1>1, <1>3

\* A copy, when it arrives.
LEMMA AskedCopy ==
    ASSUME NEW op \in ObjectRequests \union BucketRequests, NEW o \in Objects, NEW s \in Objects
    PROVE  LET w == [NoWork EXCEPT !.op = op, !.obj = o, !.src = s]
           IN  /\ w \in Works /\ w.op = op /\ w.obj = o /\ w.src = s /\ w.keys = {}
               /\ w.todo = {} /\ w.deleted = {} /\ w.errors = {}
<1>1. PICK n \in Works : n = NoWork
  BY NoWorkFields
<1>2. n.keys = {} /\ n.todo = {} /\ n.deleted = {} /\ n.errors = {}
  BY <1>1, NoWorkFields
<1>3. LET w == [n EXCEPT !.op = op, !.obj = o, !.src = s]
      IN  /\ w \in Works /\ w.op = op /\ w.obj = o /\ w.src = s /\ w.keys = {}
          /\ w.todo = {} /\ w.deleted = {} /\ w.errors = {}
  BY <1>2 DEF Works
<1> QED BY <1>1, <1>3

\* A batch, when it arrives.
LEMMA AskedBatch ==
    ASSUME NEW op \in ObjectRequests \union BucketRequests, NEW o \in Objects,
           NEW K \in SUBSET Objects, NEW T \in SUBSET Objects
    PROVE  LET w == [NoWork EXCEPT !.op = op, !.obj = o, !.keys = K, !.todo = T]
           IN  /\ w \in Works /\ w.op = op /\ w.obj = o /\ w.keys = K
               /\ w.todo = T /\ w.deleted = {} /\ w.errors = {}
<1>1. PICK n \in Works : n = NoWork
  BY NoWorkFields
<1>2. n.keys = {} /\ n.todo = {} /\ n.deleted = {} /\ n.errors = {}
  BY <1>1, NoWorkFields
<1>3. LET w == [n EXCEPT !.op = op, !.obj = o, !.keys = K, !.todo = T]
      IN  /\ w \in Works /\ w.op = op /\ w.obj = o /\ w.keys = K
          /\ w.todo = T /\ w.deleted = {} /\ w.errors = {}
  BY <1>2 DEF Works
<1> QED BY <1>1, <1>3

\* The calls the handlers make are calls of the map.
LEMMA ObjectCall ==
    ASSUME now \in Nat, NEW o \in Objects, NEW op \in {"get", "info", "delete"}
    PROVE  /\ OnObject(op, o) \in Store!Calls /\ OnObject(op, o).op = op
           /\ OnObject(op, o).obj = o /\ ~OnObject(op, o).done
<1>1. o.bucket \in Buckets /\ o # None /\ o \in Store!Objects
  BY NoneAssumption DEF Objects, Store!Objects
<1> QED BY <1>1 DEF OnObject, Call, Store!Calls, Store!ObjectOps, Store!BucketOps

\* The upload of put_object and copy_object.
LEMMA StoreCall ==
    ASSUME now \in Nat, NEW o \in Objects, NEW c \in Contents, NEW e \in Nat, e = 0 \/ e > now
    PROVE  LET k == Call("store", o.bucket, o, c, e)
           IN  /\ k \in Store!Calls /\ k.op = "store" /\ k.obj = o /\ ~k.done
               /\ k.content = c
<1>1. o.bucket \in Buckets /\ o # None /\ c # None /\ o \in Store!Objects
  BY NoneAssumption DEF Objects, Store!Objects
<1> QED BY <1>1 DEF Call, Store!Calls, Store!ObjectOps, Store!BucketOps

\* The absent call is none of them, and has done nothing.
LEMMA NoCallApart ==
    Store!NoCall \notin Store!Calls /\ ~Store!NoCall.done
BY DEF Store!NoCall, Store!Calls, Store!ObjectOps, Store!BucketOps

-----------------------------------------------------------------------------
(* The history.                                                            *)

\* What an object holds is a content, or nothing.
LEMMA ContentType ==
    ASSUME Shapes, NEW o \in Objects
    PROVE  /\ Content(o) \in Contents \union {None}
           /\ objects[o] # None => Content(o) = objects[o].content /\ Content(o) \in Contents
BY DEF Shapes, Content, Store!Versions

\* Every step adds what the objects of a request hold after it, and forgets nothing
\* before the request ends.
LEMMA Watches ==
    ASSUME Shapes, Watch, NEW t \in Clients, NEW o \in Objects, o \in AboutOf(work'[t])
    PROVE  /\ Content(o)' \in seen'[t][o]
           /\ pc[t] # "idle" => seen[t][o] \subseteq seen'[t][o]
BY DEF Watch, Shapes

\* A request that was given a stray answer stays marked until it ends.
LEMMA Marked ==
    ASSUME Watch, NEW t \in Clients, pc[t] # "idle", t \in stray \/ Contradicted(t)
    PROVE  t \in stray'
BY DEF Watch

\* The history keeps its type.
LEMMA SeenType ==
    ASSUME Shapes, Watch, objects' \in [Objects -> Store!Versions \union {None}]
    PROVE  /\ seen' \in [Clients -> [Objects -> SUBSET (Contents \union {None})]]
           /\ stray' \subseteq Clients
<1>1. \A o \in Objects : Content(o)' \in Contents \union {None}
  BY DEF Content, Store!Versions
<1>2. \A t \in Clients, o \in Objects : seen[t][o] \subseteq Contents \union {None}
  BY DEF Shapes
<1> QED BY <1>1, <1>2 DEF Watch

\* The objects a client's part of the invariant speaks of are objects of its request.
LEMMA OwnObjects ==
    ASSUME Shapes, NEW t \in Clients, ClientOK(t), pc[t] # "idle"
    PROVE  /\ work[t].op = "get" => work[t].obj \in AboutOf(work[t]) \intersect Objects
           /\ work[t].op = "copy" => work[t].src \in AboutOf(work[t]) \intersect Objects
           /\ calls[t].done /\ (calls[t].op = "delete" \/ (calls[t].op = "store" /\ work[t].op = "copy"))
                => calls[t].obj \in AboutOf(work[t]) \intersect Objects
           /\ work[t].deleted \subseteq AboutOf(work[t]) \intersect Objects
<1>1. work[t] \in Works /\ pc[t] \in {"idle", "first", "between", "second"}
  BY DEF Shapes
<1>2. work[t].deleted \subseteq AboutOf(work[t]) \intersect Objects
  BY <1>1 DEF ClientOK, Accounts, AboutOf, Works
<1>3. CASE pc[t] \in {"first", "second"}
  BY <1>2, <1>3 DEF ClientOK, Waits, WaitsFor, BucketRequests, AboutOf
<1>4. CASE pc[t] = "between"
  <2>1. calls[t] = Store!NoCall
    BY <1>4 DEF ClientOK
  <2> QED BY <1>2, <1>4, <2>1, NoCallApart DEF ClientOK, Holds, AboutOf
<1> QED BY <1>1, <1>3, <1>4

\* A client that does not step keeps its part of the invariant, whatever happens to the
\* objects: that is what the history is for.
LEMMA Bystander ==
    ASSUME Shapes, Watch, NEW x \in Clients, ClientOK(x),
           pc'[x] = pc[x], work'[x] = work[x], calls'[x] = calls[x]
    PROVE  ClientOK(x)'
<1>1. Accounts(x)' /\ (pc[x] \in {"first", "second"} => Waits(x)') /\ (pc[x] = "between" => Holds(x)')
  BY DEF ClientOK, Accounts, Waits, Holds
<1>2. ASSUME pc[x] # "idle" PROVE Saw(x)'
  <2>1. \A o \in AboutOf(work[x]) \intersect Objects :
          Content(o)' \in seen'[x][o] /\ seen[x][o] \subseteq seen'[x][o]
    BY <1>2, Watches
  <2>2. Saw(x) /\ work[x] \in Works
    BY <1>2 DEF ClientOK, Shapes
  <2>3. x \in stray => x \in stray'
    BY <1>2, Marked
  <2> QED BY <1>2, <2>1, <2>2, <2>3, OwnObjects DEF Saw
<1> QED BY <1>1, <1>2 DEF ClientOK

-----------------------------------------------------------------------------
(* A handler's steps.                                                      *)

\* Everybody but the client that steps.
LEMMA OthersKeep ==
    ASSUME Inv, Watch, NEW t \in Clients, pc' = [pc EXCEPT ![t] = pc'[t]],
           work' = [work EXCEPT ![t] = work'[t]], calls' = [calls EXCEPT ![t] = calls'[t]]
    PROVE  \A x \in Clients \ {t} : ClientOK(x)'
<1>1. ASSUME NEW x \in Clients \ {t} PROVE ClientOK(x)'
  <2>1. pc'[x] = pc[x] /\ work'[x] = work[x] /\ calls'[x] = calls[x]
    BY DEF Inv, Shapes
  <2> QED BY <2>1, Bystander DEF Inv
<1> QED BY <1>1

\* A request arrives, with the first of its calls.
LEMMA Arrives ==
    ASSUME Inv, Watch, NEW t \in Clients, NEW w \in Works, NEW c \in Store!Calls,
           Begin(t, w, c), ~c.done, WaitsFor(w, c, TRUE), w.deleted = {},
           w.todo \subseteq w.keys, w.op = "batch" => w.errors \union w.todo \union {w.obj} = w.keys
    PROVE  Inv'
<1>1. /\ pc' = [pc EXCEPT ![t] = "first"] /\ work' = [work EXCEPT ![t] = w]
      /\ calls' = [calls EXCEPT ![t] = c] /\ UNCHANGED <<objects, buckets, now>>
      /\ pc[t] = "idle"
  BY DEF Begin, Ask, Accept
<1>2. pc'[t] = "first" /\ work'[t] = w /\ calls'[t] = c /\ \A x \in Clients \ {t} : ClientOK(x)'
  BY <1>1, OthersKeep DEF Inv, Shapes
<1>3. Shapes'
  BY <1>1, SeenType DEF Inv, Shapes
<1>4. Saw(t)'
  BY <1>2, Watches DEF Inv, Saw
<1>5. ClientOK(t)'
  BY <1>2, <1>4, NoCallApart DEF ClientOK, Waits, Accounts
<1> QED BY <1>2, <1>3, <1>5 DEF Inv

\* The next call of a request.
LEMMA CallsAgain ==
    ASSUME Inv, Watch, NEW t \in Clients, NEW w \in Works, NEW c \in Store!Calls,
           pc[t] = "between", Again(t, w, c), ~c.done, WaitsFor(w, c, FALSE),
           w.op = work[t].op, AboutOf(work[t]) \subseteq AboutOf(w), w.op # "batch" => w = work[t],
           w.deleted = work[t].deleted, w.errors = work[t].errors, w.keys = work[t].keys,
           w.todo \union {w.obj} = work[t].todo \/ w.op # "batch"
    PROVE  Inv'
<1>1. /\ pc' = [pc EXCEPT ![t] = "second"] /\ work' = [work EXCEPT ![t] = w]
      /\ calls' = [calls EXCEPT ![t] = c] /\ UNCHANGED <<objects, buckets, now>>
  BY DEF Again, Ask
<1>2. pc'[t] = "second" /\ work'[t] = w /\ calls'[t] = c /\ \A x \in Clients \ {t} : ClientOK(x)'
  BY <1>1, OthersKeep DEF Inv, Shapes
<1>3. Shapes'
  BY <1>1, SeenType DEF Inv, Shapes
<1>4. Saw(t) /\ Accounts(t) /\ Holds(t)
  BY DEF Inv, ClientOK
<1>5. \A o \in AboutOf(w) \intersect Objects :
        Content(o)' \in seen'[t][o] /\ seen[t][o] \subseteq seen'[t][o]
  BY <1>2, Watches DEF Inv
<1>6. Saw(t)'
  <2>0. t \in stray => t \in stray'
    BY Marked
  <2>1. w.op = "get" => /\ w.content \in seen'[t][w.obj] \/ t \in stray'
                        /\ w.content \in Contents
    BY <1>4, <1>5, <2>0, OwnObjects DEF Inv, Saw
  <2>2. w.op = "copy" => /\ w.content \in seen'[t][w.src] \/ t \in stray'
                         /\ w.content \in Contents
    BY <1>4, <1>5, <2>0, OwnObjects DEF Inv, Saw
  <2>3. \A o \in w.deleted : None \in seen'[t][o]
    BY <1>4, <1>5, OwnObjects DEF Inv, Saw
  <2> QED BY <1>2, <1>5, <2>1, <2>2, <2>3 DEF Saw
<1>7. Accounts(t)'
  BY <1>2, <1>4 DEF Accounts
<1>8. ClientOK(t)'
  BY <1>2, <1>6, <1>7, NoCallApart DEF ClientOK, Waits
<1> QED BY <1>2, <1>3, <1>8 DEF Inv

\* A response ends a request.
LEMMA Ended ==
    ASSUME Inv, Watch, NEW t \in Clients, NEW r, Respond(t, r),
           calls' = [calls EXCEPT ![t] = Store!NoCall], UNCHANGED <<objects, now>>,
           buckets' \subseteq Buckets
    PROVE  Inv'
<1>1. pc' = [pc EXCEPT ![t] = "idle"] /\ work' = [work EXCEPT ![t] = NoWork]
  BY DEF Respond
<1>2. /\ pc'[t] = "idle" /\ work'[t] = NoWork /\ calls'[t] = Store!NoCall
      /\ \A x \in Clients \ {t} : ClientOK(x)'
  BY <1>1, OthersKeep DEF Inv, Shapes
<1>3. Shapes'
  BY <1>1, SeenType, NoWorkFields DEF Inv, Shapes
<1>4. ClientOK(t)'
  BY <1>2, NoCallApart, NoWorkFields DEF ClientOK, Accounts
<1> QED BY <1>2, <1>3, <1>4 DEF Inv

\* A handler keeps what it learned, and goes on.
LEMMA KeepsOn ==
    ASSUME Inv, Watch, NEW t \in Clients, NEW w \in Works, Keep(t, w),
           pc[t] \in {"first", "second"},
           calls' = [calls EXCEPT ![t] = Store!NoCall], UNCHANGED <<objects, now>>,
           buckets' \subseteq Buckets, w.op = work[t].op, w.obj = work[t].obj,
           w.src = work[t].src, w.keys = work[t].keys, w.todo = work[t].todo,
           \/ /\ w.op = "get" /\ w.deleted = work[t].deleted /\ w.content \in Contents
              /\ w.content \in seen[t][w.obj] \/ t \in stray'
              /\ w.obj \in Objects
           \/ /\ w.op = "copy" /\ w.deleted = work[t].deleted /\ w.content \in Contents
              /\ w.content \in seen[t][w.src] \/ t \in stray'
              /\ w.src \in Objects /\ w.obj \in Objects
           \/ /\ w.op = "batch" /\ w.deleted = work[t].deleted
              /\ w.errors = work[t].errors \union {w.obj}
           \/ /\ w.op = "batch" /\ w.deleted = work[t].deleted \union {w.obj}
              /\ w.errors = work[t].errors /\ None \in seen[t][w.obj]
              /\ w.obj \in Objects /\ w.obj \in w.keys
    PROVE  Inv'
<1>1. pc' = [pc EXCEPT ![t] = "between"] /\ work' = [work EXCEPT ![t] = w]
  BY DEF Keep
<1>2. /\ pc'[t] = "between" /\ work'[t] = w /\ calls'[t] = Store!NoCall
      /\ \A x \in Clients \ {t} : ClientOK(x)'
  BY <1>1, OthersKeep DEF Inv, Shapes
<1>3. Shapes'
  BY <1>1, SeenType DEF Inv, Shapes
<1>4. Saw(t) /\ Accounts(t)
  BY DEF Inv, ClientOK
<1>5. \A o \in AboutOf(w) \intersect Objects :
        Content(o)' \in seen'[t][o] /\ seen[t][o] \subseteq seen'[t][o]
  BY <1>2, Watches DEF Inv
<1>6. AboutOf(w) = AboutOf(work[t])
  BY DEF AboutOf
<1>7. \A o \in w.deleted : None \in seen'[t][o]
  <2>1. \A o \in work[t].deleted : None \in seen'[t][o]
    BY <1>4, <1>5, <1>6, OwnObjects DEF Inv, Saw
  <2> QED BY <1>5, <2>1 DEF AboutOf
<1>8. Saw(t)'
  <2>1. w.op = "get" => /\ w.content \in seen'[t][w.obj] \/ t \in stray'
                        /\ w.content \in Contents
    BY <1>5 DEF AboutOf
  <2>2. w.op = "copy" => /\ w.content \in seen'[t][w.src] \/ t \in stray'
                         /\ w.content \in Contents
    BY <1>5 DEF AboutOf
  <2> QED BY <1>2, <1>5, <1>7, <2>1, <2>2, NoCallApart DEF Saw
<1>9. Accounts(t)' /\ Holds(t)'
  BY <1>2, <1>4 DEF Accounts, Holds
<1>10. ClientOK(t)'
  BY <1>2, <1>8, <1>9, NoCallApart DEF ClientOK
<1> QED BY <1>2, <1>3, <1>10 DEF Inv

-----------------------------------------------------------------------------
(* The storage manager's steps.                                            *)

\* A call that has taken effect is the same call.
LEMMA DoneCall ==
    ASSUME NEW c \in Store!Calls, NEW yes \in BOOLEAN
    PROVE  LET d == [c EXCEPT !.done = yes]
           IN  /\ d \in Store!Calls /\ d.op = c.op /\ d.obj = c.obj
               /\ d.content = c.content /\ d.done = yes
<1>1. c \in [op: Store!ObjectOps \union Store!BucketOps, bucket: Buckets,
             obj: Store!Objects \union {None}, content: Contents \union {None},
             expires: Nat, since: Nat, done: BOOLEAN]
  BY DEF Store!Calls
<1> DEFINE d == [c EXCEPT !.done = yes]
<1>2. /\ d \in [op: Store!ObjectOps \union Store!BucketOps, bucket: Buckets,
                obj: Store!Objects \union {None}, content: Contents \union {None},
                expires: Nat, since: Nat, done: BOOLEAN]
      /\ d.op = c.op /\ d.obj = c.obj /\ d.content = c.content /\ d.done = yes
      /\ d.bucket = c.bucket /\ d.expires = c.expires /\ d.since = c.since
  BY <1>1
<1> QED BY <1>2 DEF Store!Calls

\* A call takes effect, and what it stored or removed is seen at once.
LEMMA TakesEffect ==
    ASSUME Inv, Watch, NEW t \in Clients, Store!Done(t), UNCHANGED <<pc, work, now>>,
           calls[t].op \in {"store", "delete", "delete_bucket"}, buckets' \subseteq Buckets,
           objects' \in [Objects -> Store!Versions \union {None}],
           \A o \in Objects : calls[t].obj = o =>
             /\ calls[t].op = "store" => Content(o)' = calls[t].content
             /\ calls[t].op = "delete" => Content(o)' = None
    PROVE  Inv'
<1>1. calls[t] \in Store!Calls /\ pc[t] \in {"first", "second"}
  BY DEF Inv, Shapes, ClientOK, Store!NoCall
<1>2. PICK yes \in BOOLEAN : yes = TRUE
  OBVIOUS
<1>3. calls' = [calls EXCEPT ![t] = [calls[t] EXCEPT !.done = yes]]
  BY <1>2, Zenon DEF Store!Done
<1>4. /\ calls'[t] \in Store!Calls /\ calls'[t].op = calls[t].op
      /\ calls'[t].obj = calls[t].obj /\ calls'[t].content = calls[t].content
  BY <1>1, <1>3, DoneCall DEF Inv, Shapes
<1>5. \A x \in Clients \ {t} : ClientOK(x)'
  BY <1>3, OthersKeep DEF Inv, Shapes
<1>6. Shapes'
  BY <1>3, <1>4, SeenType DEF Inv, Shapes
<1>7. Waits(t) /\ Saw(t) /\ Accounts(t)
  BY <1>1 DEF Inv, ClientOK
<1>8. \A o \in AboutOf(work[t]) \intersect Objects :
        Content(o)' \in seen'[t][o] /\ seen[t][o] \subseteq seen'[t][o]
  BY <1>1, Watches DEF Inv
<1>9. calls[t].op \in {"store", "delete"} /\ work[t].op # "put" =>
        calls[t].obj \in AboutOf(work[t]) \intersect Objects
  BY <1>7 DEF Waits, WaitsFor, BucketRequests, AboutOf
<1>10. Saw(t)'
  <2>0. t \in stray => t \in stray'
    BY <1>1, Marked
  <2>1. /\ work[t].op \in {"get", "copy"} /\ pc[t] = "second" => work[t].content \in Contents
        /\ work[t].op = "get" /\ pc[t] = "second" =>
             work[t].content \in seen'[t][work[t].obj] \/ t \in stray'
        /\ work[t].op = "copy" /\ pc[t] = "second" =>
             work[t].content \in seen'[t][work[t].src] \/ t \in stray'
        /\ \A o \in work[t].deleted : None \in seen'[t][o]
    BY <1>1, <1>7, <1>8, <2>0, OwnObjects DEF Inv, Saw
  <2>2. calls[t].op = "delete" => work[t].op # "put"
    BY <1>7 DEF Waits, WaitsFor, BucketRequests
  <2> QED BY <1>1, <1>4, <1>8, <1>9, <2>1, <2>2 DEF Saw
<1>11. Waits(t)' /\ Accounts(t)'
  BY <1>4, <1>7 DEF Waits, WaitsFor, Accounts
<1>12. ClientOK(t)'
  BY <1>1, <1>4, <1>10, <1>11, NoCallApart DEF ClientOK
<1> QED BY <1>5, <1>6, <1>12 DEF Inv

\* Whatever the storage manager does while handlers wait.
LEMMA StoreKeeps == ASSUME Inv, Watch, StoreWorks PROVE Inv'
<1>1. UNCHANGED <<pc, work>>
  BY DEF StoreWorks
<1>2. ASSUME UNCHANGED calls, objects' \in [Objects -> Store!Versions \union {None}],
             buckets' \subseteq Buckets, now' \in 0 .. MaxTime
      PROVE  Inv'
  <2>1. Shapes'
    BY <1>1, <1>2, SeenType DEF Inv, Shapes
  <2> QED BY <1>1, <1>2, <2>1, Bystander DEF Inv
<1>3. ASSUME NEW t \in Clients, calls[t].op # "none"
      PROVE  /\ calls[t] \in Store!Calls /\ pc[t] \in {"first", "second"}
             /\ calls[t].bucket \in Buckets /\ calls[t].expires \in Nat
             /\ calls[t].op \in {"store", "delete"} => calls[t].obj \in Objects
             /\ calls[t].op = "store" => calls[t].content \in Contents
  <2>1. calls[t] \in Store!Calls /\ pc[t] \in {"first", "second"}
    BY <1>3 DEF Inv, Shapes, ClientOK, Store!NoCall
  <2>2. calls[t].op \in {"store", "delete"} => calls[t].obj \in Objects
    BY <2>1 DEF Inv, ClientOK, Waits, WaitsFor, BucketRequests
  <2> QED BY <2>1, <2>2 DEF Store!Calls
<1>4. ASSUME NEW t \in Clients, Store!EnsureBucket(t) PROVE Inv'
  BY <1>2, <1>3, <1>4 DEF Store!EnsureBucket, Store!Pending, Inv, Shapes
<1>5. ASSUME NEW t \in Clients, Store!Put(t) PROVE Inv'
  <2> DEFINE v == [content |-> calls[t].content, expires |-> calls[t].expires]
  <2>1. /\ calls[t].op = "store" /\ objects' = [objects EXCEPT ![calls[t].obj] = v]
        /\ Store!Done(t) /\ UNCHANGED <<buckets, now>>
    BY <1>5 DEF Store!Put, Store!Pending
  <2>2. v \in Store!Versions /\ v # None /\ v.content = calls[t].content
    BY <1>3, <2>1, NoneAssumption DEF Store!Versions
  <2>3. \A o \in Objects : calls[t].obj = o => Content(o)' = calls[t].content
    BY <1>3, <2>1, <2>2 DEF Inv, Shapes, Content
  <2>4. objects' \in [Objects -> Store!Versions \union {None}]
    BY <2>1, <2>2 DEF Inv, Shapes
  <2> QED BY <1>1, <2>1, <2>3, <2>4, TakesEffect DEF Inv, Shapes
<1>6. ASSUME NEW t \in Clients, Store!Delete(t) PROVE Inv'
  <2>1. /\ calls[t].op = "delete" /\ objects' = [objects EXCEPT ![calls[t].obj] = None]
        /\ Store!Done(t) /\ UNCHANGED <<buckets, now>>
    BY <1>6 DEF Store!Delete, Store!Pending
  <2>2. \A o \in Objects : calls[t].obj = o => Content(o)' = None
    BY <2>1 DEF Inv, Shapes, Content
  <2>3. objects' \in [Objects -> Store!Versions \union {None}]
    BY <2>1 DEF Inv, Shapes
  <2> QED BY <1>1, <2>1, <2>2, <2>3, TakesEffect DEF Inv, Shapes
<1>7. ASSUME NEW t \in Clients, Store!DeleteBucket(t) PROVE Inv'
  <2>1. /\ calls[t].op = "delete_bucket" /\ Store!Done(t) /\ now' = now
        /\ buckets' = buckets \ {calls[t].bucket}
        /\ objects' = [o \in Objects |->
                         IF o.bucket = calls[t].bucket THEN None ELSE objects[o]]
    BY <1>7 DEF Store!DeleteBucket, Store!Pending, Objects
  <2>2. objects' \in [Objects -> Store!Versions \union {None}] /\ buckets' \subseteq Buckets
    BY <2>1 DEF Inv, Shapes
  <2> QED BY <1>1, <2>1, <2>2, TakesEffect
<1>8. CASE Lose
  BY <1>2, <1>8 DEF Lose, Inv, Shapes
<1>9. CASE now < MaxTime /\ Store!Tick
  BY <1>2, <1>9, S3Assumption DEF Store!Tick, Inv, Shapes
<1> QED BY <1>4, <1>5, <1>6, <1>7, <1>8, <1>9 DEF StoreWorks

-----------------------------------------------------------------------------
(* Answers.                                                                *)

\* What an answer of the storage manager says about the object and about the call.
LEMMA Replied ==
    ASSUME Inv, Watch, NEW t \in Clients, pc[t] \in {"first", "second"},
           Store!Reply(t) \/ Stray(t)
    PROVE  LET c == calls[t]
               a == answer'
           IN  /\ calls' = [calls EXCEPT ![t] = Store!NoCall] /\ UNCHANGED <<objects, now>>
               /\ buckets' \subseteq Buckets
               /\ a.status \in {"ok", "bytes", "not_found", "error"}
               /\ a.status = "bytes" =>
                    /\ c.op = "get" /\ c.obj \in Objects
                    /\ \E x \in Contents :
                         a.data = {x} /\ (x = Content(c.obj) \/ t \in stray')
               /\ a.status = "ok" =>
                    \/ c.done
                    \/ c.op = "create_bucket"
                    \/ /\ c.op = "info" /\ a.data = {Content(c.obj)} /\ c.obj \in Objects
               /\ a.status = "not_found" =>
                    \/ c.op \in {"get", "info", "delete"} /\ Content(c.obj) = None
                    \/ c.op \in {"get", "info"} /\ t \in stray'
                    \/ c.op = "delete_bucket"
<1>1. PICK status, data : Store!Answer(t, status, data)
  BY DEF Store!Reply, Stray
<1>2. calls[t] \in Store!Calls
  BY DEF Inv, Shapes, ClientOK
<1>3. calls[t].bucket \in Buckets
  BY <1>2 DEF Store!Calls
<1>4. calls[t].op \in {"get", "info", "delete"} => calls[t].obj \in Objects
  BY DEF Inv, ClientOK, Waits, WaitsFor, BucketRequests
<1>5. calls' = [calls EXCEPT ![t] = Store!NoCall] /\ UNCHANGED <<objects, now>>
  BY <1>1 DEF Store!Answer
<1>6. buckets' \subseteq Buckets
  BY <1>3 DEF Store!Reply, Stray, Inv, Shapes
<1>7. ASSUME NEW s, NEW d, Store!Answer(t, s, d) PROVE answer'.status = s /\ answer'.data = d
  BY <1>7 DEF Store!Answer
<1>8. calls[t].op \in {"get", "info", "delete"} =>
        /\ ~Store!Present(calls[t].obj) => Content(calls[t].obj) = None
        /\ Store!Present(calls[t].obj) =>
             /\ Content(calls[t].obj) = objects[calls[t].obj].content
             /\ Content(calls[t].obj) \in Contents
  BY <1>4, ContentType DEF Store!Present, Content, Inv
<1>9. CASE calls[t].done /\ Store!Answer(t, "ok", {})
  BY <1>5, <1>6, <1>7, <1>9
<1>10. CASE Store!Pending(t, "create_bucket") /\ Store!Answer(t, "ok", {})
  BY <1>5, <1>6, <1>7, <1>10 DEF Store!Pending
<1>11. CASE Store!Pending(t, "get") /\ Store!Live(t)
             /\ Store!Answer(t, "bytes", {objects[calls[t].obj].content})
  BY <1>4, <1>5, <1>6, <1>7, <1>8, <1>11 DEF Store!Pending, Store!Live
<1>12. CASE Store!Pending(t, "info") /\ Store!Live(t)
             /\ Store!Answer(t, "ok", {objects[calls[t].obj].content})
  BY <1>4, <1>5, <1>6, <1>7, <1>8, <1>12 DEF Store!Pending, Store!Live
<1>13. CASE (\E op \in {"get", "info", "delete"} : Store!Pending(t, op))
             /\ ~Store!Present(calls[t].obj) /\ Store!Answer(t, "not_found", {})
  BY <1>5, <1>6, <1>7, <1>8, <1>13 DEF Store!Pending
<1>14. CASE Store!Pending(t, "delete_bucket") /\ Store!Answer(t, "not_found", {})
  BY <1>5, <1>6, <1>7, <1>14 DEF Store!Pending
<1>15. CASE Store!Answer(t, "error", {})
  BY <1>5, <1>6, <1>7, <1>15
<1>16. CASE Stray(t)
  <2>1. /\ calls[t].op \in {"get", "info"} /\ calls[t].obj \in Objects
        /\ Store!Pending(t, "get") \/ Store!Pending(t, "info")
        /\ calls'[t] = Store!NoCall /\ calls[t] # Store!NoCall
    BY <1>2, <1>4, <1>5, <1>16, NoCallApart DEF Stray, Store!Pending, Inv, Shapes
  <2>2. ASSUME answer'.status # "error", answer'.data # {Content(calls[t].obj)} \ {None}
        PROVE  t \in stray'
    BY <2>1, <2>2, Marked DEF Contradicted
  <2>3. CASE /\ Store!Pending(t, "get")
             /\ \E x \in Contents \ {Content(calls[t].obj)} : Store!Answer(t, "bytes", {x})
    <3>0. calls[t].op = "get"
      BY <2>3 DEF Store!Pending
    <3>1. PICK x \in Contents \ {Content(calls[t].obj)} : Store!Answer(t, "bytes", {x})
      BY <2>3
    <3>2. answer'.status = "bytes" /\ answer'.data = {x}
      BY <1>7, <3>1
    <3>3. t \in stray'
      BY <2>2, <3>2
    <3> QED BY <1>5, <1>6, <2>1, <3>0, <3>2, <3>3
  <2>4. CASE objects[calls[t].obj] # None /\ Store!Answer(t, "not_found", {})
    <3>1. answer'.status = "not_found" /\ answer'.data = {}
      BY <1>7, <2>4
    <3>2. Content(calls[t].obj) \in Contents
      BY <2>1, <2>4, ContentType DEF Inv
    <3>3. t \in stray'
      BY <2>2, <3>1, <3>2, NoneAssumption
    <3> QED BY <1>5, <1>6, <2>1, <3>1, <3>3
  <2> QED BY <1>16, <2>3, <2>4 DEF Stray
<1> QED BY <1>9, <1>10, <1>11, <1>12, <1>13, <1>14, <1>15, <1>16 DEF Store!Reply

\* The handler goes on with the answer it got.
LEMMA AnsweredKeeps == ASSUME Inv, Watch, NEW t \in Clients, Answered(t) PROVE Inv'
<1> DEFINE a == answer'
           w == work[t]
<1>1. /\ pc[t] \in {"first", "second"} /\ After(t, a)
      /\ calls' = [calls EXCEPT ![t] = Store!NoCall] /\ UNCHANGED <<objects, now>>
      /\ buckets' \subseteq Buckets
  BY Replied DEF Answered
<1>2. ASSUME NEW r, Respond(t, r) PROVE Inv'
  BY <1>1, <1>2, Ended
<1>3. w \in Works /\ Waits(t) /\ Saw(t)
  BY <1>1 DEF Inv, Shapes, ClientOK
<1>4. CASE w.op \in {"get", "copy"} /\ pc[t] = "first" /\ AfterBytes(t, a)
  <2> SUFFICES ASSUME a.status = "bytes" PROVE Inv'
    BY <1>2, <1>4 DEF AfterBytes, Fails
  <2> DEFINE o == calls[t].obj
  <2>1. PICK x \in Contents :
          /\ a.data = {x} /\ o \in Objects
          /\ x = Content(o) \/ t \in stray'
    BY Replied DEF Answered
  <2> DEFINE n == [w EXCEPT !.content = x]
  <2>2. (CHOOSE c \in a.data : TRUE) = x
    BY <2>1
  <2>3. Keep(t, n)
    BY <1>4, <2>2 DEF AfterBytes
  <2>4. /\ o = IF w.op = "get" THEN w.obj ELSE w.src
        /\ w.obj \in Objects /\ o \in AboutOf(w)
    BY <1>3, <1>4 DEF Waits, WaitsFor, BucketRequests, AboutOf
  <2>5. x \in seen[t][o] \/ t \in stray'
    BY <1>3, <2>1, <2>4 DEF Saw
  <2>7. /\ n \in Works /\ n.op = w.op /\ n.obj = w.obj /\ n.src = w.src
        /\ n.keys = w.keys /\ n.todo = w.todo /\ n.deleted = w.deleted /\ n.content = x
    BY <1>3 DEF Works
  <2> HIDE DEF n
  <2> QED BY <1>1, <1>4, <2>1, <2>3, <2>4, <2>5, <2>7, KeepsOn
<1>5. CASE w.op = "batch" /\ AfterBatchDelete(t, a)
  <2>1. /\ calls[t].op = "delete" /\ calls[t].obj = w.obj /\ w.obj \in Objects
        /\ w.obj \in w.keys /\ w.deleted \subseteq Objects /\ w.errors \subseteq Objects
    BY <1>3, <1>5 DEF Waits, WaitsFor, BucketRequests, Works
  <2>2. CASE a.status \in {"ok", "not_found"}
    <3> DEFINE S == w.deleted \union {w.obj}
               n == [w EXCEPT !.deleted = S]
    <3>1. Keep(t, n)
      BY <1>5, <2>2 DEF AfterBatchDelete
    <3>2. None \in seen[t][w.obj]
      <4>1. a.status = "ok" => calls[t].done
        BY <1>1, <2>1, Replied DEF Answered
      <4>2. a.status = "not_found" => Content(w.obj) = None
        BY <1>1, <2>1, Replied DEF Answered
      <4>3. w.obj \in AboutOf(w)
        BY <1>5 DEF AboutOf
      <4> QED BY <1>3, <2>1, <2>2, <4>1, <4>2, <4>3 DEF Saw
    <3>3. S \in SUBSET Objects
      BY <2>1
    <3>4. /\ n \in Works /\ n.op = w.op /\ n.obj = w.obj /\ n.src = w.src
          /\ n.keys = w.keys /\ n.todo = w.todo /\ n.errors = w.errors /\ n.deleted = S
      BY <1>3, <3>3 DEF Works
    <3> HIDE DEF n
    <3> QED BY <1>1, <1>5, <2>1, <3>1, <3>2, <3>4, KeepsOn
  <2>3. CASE a.status \notin {"ok", "not_found"}
    <3> DEFINE S == w.errors \union {w.obj}
               n == [w EXCEPT !.errors = S]
    <3>1. Keep(t, n)
      BY <1>5, <2>3 DEF AfterBatchDelete
    <3>2. S \in SUBSET Objects
      BY <2>1
    <3>3. /\ n \in Works /\ n.op = w.op /\ n.obj = w.obj /\ n.src = w.src
          /\ n.keys = w.keys /\ n.todo = w.todo /\ n.deleted = w.deleted /\ n.errors = S
      BY <1>3, <3>2 DEF Works
    <3> HIDE DEF n
    <3> QED BY <1>1, <1>5, <2>1, <3>1, <3>3, KeepsOn
  <2> QED BY <2>2, <2>3
<1> QED BY <1>1, <1>2, <1>4, <1>5 DEF After, AfterInfo, AfterStore, Ok, Fails

\* Every step keeps the invariant.
LEMMA InvKept == ASSUME Inv, [Next]_vars PROVE Inv'
<1>1. CASE UNCHANGED vars
  BY <1>1 DEF vars, storeVars, Inv, Shapes, ClientOK, Waits, Holds, Accounts, Saw, Content
<1>2. CASE Watch /\ UNCHANGED <<storeVars, pc, work>>
  <2>1. Shapes'
    BY <1>2, SeenType DEF storeVars, Inv, Shapes
  <2> QED BY <1>2, <2>1, Bystander DEF storeVars, Inv
<1>3. ASSUME Watch, NEW t \in Clients,
             PutObject(t) \/ CopyObject(t) \/ GetObject(t) \/ HeadObject(t)
             \/ DeleteObject(t) \/ DeleteObjects(t) \/ OnBucket(t)
      PROVE  Inv'
  <2>1. now \in Nat
    BY S3Assumption DEF Inv, Shapes
  <2>2. CASE PutObject(t)
    <3>1. PICK o \in Objects, c \in Contents, e \in Nat :
            /\ e = 0 \/ e > now
            /\ Begin(t, [NoWork EXCEPT !.op = "put", !.obj = o, !.content = c],
                     Call("store", o.bucket, o, c, e))
      <4>1. PICK o \in Objects, c \in Contents, ttl \in TTLs \union {0} :
              Begin(t, [NoWork EXCEPT !.op = "put", !.obj = o, !.content = c],
                    Call("store", o.bucket, o, c, IF ttl = 0 THEN 0 ELSE now + ttl))
        BY <2>2 DEF PutObject
      <4>2. PICK e \in Nat : e = (IF ttl = 0 THEN 0 ELSE now + ttl) /\ (e = 0 \/ e > now)
        BY <2>1, S3Assumption
      <4> QED BY <4>1, <4>2
    <3> DEFINE w == [NoWork EXCEPT !.op = "put", !.obj = o, !.content = c]
               k == Call("store", o.bucket, o, c, e)
    <3>2. /\ w \in Works /\ w.op = "put" /\ w.obj = o /\ w.content = c /\ w.keys = {}
          /\ w.todo = {} /\ w.deleted = {} /\ w.errors = {}
      BY AskedPut DEF ObjectRequests
    <3>3. k \in Store!Calls /\ k.op = "store" /\ k.obj = o /\ ~k.done
      BY <2>1, <3>1, StoreCall
    <3>4. Begin(t, w, k)
      BY <3>1
    <3> HIDE DEF w, k
    <3>5. WaitsFor(w, k, TRUE)
      BY <3>2, <3>3 DEF WaitsFor
    <3> QED BY <1>3, <3>2, <3>3, <3>4, <3>5, Arrives
  <2>3. CASE CopyObject(t)
    <3>1. PICK s \in Objects, o \in Objects :
            Begin(t, [NoWork EXCEPT !.op = "copy", !.obj = o, !.src = s], OnObject("get", s))
      BY <2>3 DEF CopyObject
    <3> DEFINE w == [NoWork EXCEPT !.op = "copy", !.obj = o, !.src = s]
               k == OnObject("get", s)
    <3>2. /\ w \in Works /\ w.op = "copy" /\ w.obj = o /\ w.src = s /\ w.keys = {}
          /\ w.todo = {} /\ w.deleted = {} /\ w.errors = {}
      BY AskedCopy DEF ObjectRequests
    <3>3. k \in Store!Calls /\ k.op = "get" /\ k.obj = s /\ ~k.done
      BY <2>1, ObjectCall
    <3>4. Begin(t, w, k)
      BY <3>1
    <3> HIDE DEF w, k
    <3>5. WaitsFor(w, k, TRUE)
      BY <3>2, <3>3 DEF WaitsFor
    <3> QED BY <1>3, <3>2, <3>3, <3>4, <3>5, Arrives
  <2>4. CASE GetObject(t) \/ HeadObject(t) \/ DeleteObject(t)
    <3>1. PICK o \in Objects, op \in {"get", "head", "delete"}, call \in {"get", "info", "delete"} :
            /\ call = IF op = "head" THEN "info" ELSE op
            /\ Begin(t, [NoWork EXCEPT !.op = op, !.obj = o], OnObject(call, o))
      BY <2>4 DEF GetObject, HeadObject, DeleteObject
    <3> DEFINE w == [NoWork EXCEPT !.op = op, !.obj = o]
               k == OnObject(call, o)
    <3>2. /\ w \in Works /\ w.op = op /\ w.obj = o /\ w.keys = {}
          /\ w.todo = {} /\ w.deleted = {} /\ w.errors = {}
      BY AskedObject DEF ObjectRequests
    <3>3. k \in Store!Calls /\ k.op = call /\ k.obj = o /\ ~k.done
      BY <2>1, ObjectCall
    <3>4. Begin(t, w, k)
      BY <3>1
    <3> HIDE DEF w, k
    <3>5. WaitsFor(w, k, TRUE) /\ w.op # "batch"
      BY <3>1, <3>2, <3>3 DEF WaitsFor
    <3> QED BY <1>3, <3>2, <3>3, <3>4, <3>5, Arrives
  <2>5. CASE DeleteObjects(t)
    <3>1. PICK K \in SUBSET Objects, o \in Objects : o \in K /\
            Begin(t, [NoWork EXCEPT !.op = "batch", !.obj = o, !.keys = K, !.todo = K \ {o}],
                  OnObject("delete", o))
      BY <2>5 DEF DeleteObjects
    <3> DEFINE T == K \ {o}
               w == [NoWork EXCEPT !.op = "batch", !.obj = o, !.keys = K, !.todo = T]
               k == OnObject("delete", o)
    <3>2. o \in Objects /\ T \in SUBSET Objects
      BY <3>1
    <3>3. /\ w \in Works /\ w.op = "batch" /\ w.obj = o /\ w.keys = K
          /\ w.todo = T /\ w.deleted = {} /\ w.errors = {}
      BY <3>2, AskedBatch DEF ObjectRequests
    <3>4. k \in Store!Calls /\ k.op = "delete" /\ k.obj = o /\ ~k.done
      BY <2>1, <3>2, ObjectCall
    <3>5. Begin(t, w, k)
      BY <3>1
    <3> HIDE DEF w, k
    <3>6. WaitsFor(w, k, TRUE)
      BY <3>1, <3>3, <3>4 DEF WaitsFor
    <3>7. w.todo \subseteq w.keys /\ w.errors \union w.todo \union {w.obj} = w.keys
      BY <3>1, <3>3
    <3> QED BY <1>3, <3>3, <3>4, <3>5, <3>6, <3>7, Arrives
  <2>6. CASE OnBucket(t)
    <3>1. PICK b \in Buckets, op \in BucketRequests :
            Begin(t, [NoWork EXCEPT !.op = op], Call(op, b, None, None, 0))
      BY <2>6 DEF OnBucket, BucketRequests
    <3> DEFINE w == [NoWork EXCEPT !.op = op]
               k == Call(op, b, None, None, 0)
    <3>2. /\ w \in Works /\ w.op = op /\ w.obj = None /\ w.keys = {}
          /\ w.todo = {} /\ w.deleted = {} /\ w.errors = {}
      BY NoWorkFields DEF Works
    <3>3. k \in Store!Calls /\ k.op = op /\ k.obj = None /\ ~k.done
      BY <2>1 DEF Call, Store!Calls, Store!ObjectOps, Store!BucketOps, BucketRequests
    <3>4. Begin(t, w, k)
      BY <3>1
    <3> HIDE DEF w, k
    <3>5. WaitsFor(w, k, TRUE) /\ w.op # "batch"
      BY <3>1, <3>2, <3>3 DEF WaitsFor, BucketRequests
    <3> QED BY <1>3, <3>2, <3>3, <3>4, <3>5, Arrives
  <2> QED BY <1>3, <2>2, <2>3, <2>4, <2>5, <2>6

<1>4. ASSUME Watch, NEW t \in Clients, NextCall(t) PROVE Inv'
  <2> DEFINE w == work[t]
  <2>1. now \in Nat /\ w \in Works /\ pc[t] = "between" /\ Holds(t) /\ Saw(t) /\ Accounts(t)
    <3>1. pc[t] = "between" /\ ClientOK(t) /\ Shapes
      BY <1>4 DEF NextCall, Inv
    <3>2. now \in Nat /\ w \in Works
      BY <3>1, S3Assumption DEF Shapes
    <3> QED BY <3>1, <3>2 DEF ClientOK
  <2>2. CASE w.op = "get" /\ Again(t, w, OnObject("info", w.obj))
    <3>1. w.obj \in Objects
      BY <2>1, <2>2 DEF Holds
    <3>2. PICK k \in Store!Calls : /\ k = OnObject("info", w.obj) /\ k.op = "info"
                                   /\ k.obj = w.obj /\ ~k.done
      BY <2>1, <3>1, ObjectCall
    <3>3. WaitsFor(w, k, FALSE)
      BY <2>2, <3>1, <3>2 DEF WaitsFor
    <3> QED BY <1>4, <2>1, <2>2, <3>2, <3>3, CallsAgain
  <2>3. CASE w.op = "copy" /\ Again(t, w, Call("store", w.obj.bucket, w.obj, w.content, 0))
    <3>1. w.obj \in Objects /\ w.src \in Objects /\ w.content \in Contents
      BY <2>1, <2>3 DEF Holds, Saw
    <3>2. PICK k \in Store!Calls : /\ k = Call("store", w.obj.bucket, w.obj, w.content, 0)
                                   /\ k.op = "store" /\ k.obj = w.obj /\ ~k.done
                                   /\ k.content = w.content
      BY <2>1, <3>1, StoreCall
    <3>3. WaitsFor(w, k, FALSE)
      BY <2>3, <3>1, <3>2 DEF WaitsFor
    <3> QED BY <1>4, <2>1, <2>3, <3>2, <3>3, CallsAgain
  <2>4. ASSUME w.op = "batch", NEW o \in w.todo,
               Again(t, [w EXCEPT !.obj = o, !.todo = @ \ {o}], OnObject("delete", o))
        PROVE  Inv'
    <3> DEFINE n == [w EXCEPT !.obj = o, !.todo = w.todo \ {o}]
    <3>1. o \in Objects /\ o \in w.keys
      BY <2>1, <2>4 DEF Works, Accounts
    <3>2. PICK k \in Store!Calls : /\ k = OnObject("delete", o) /\ k.op = "delete"
                                   /\ k.obj = o /\ ~k.done
      BY <2>1, <3>1, ObjectCall
    <3>3. /\ n \in Works /\ n.op = w.op /\ n.obj = o /\ n.src = w.src /\ n.keys = w.keys
          /\ n.todo = w.todo \ {o} /\ n.deleted = w.deleted /\ n.errors = w.errors
      BY <2>1, <3>1 DEF Works
    <3>4. Again(t, n, k)
      BY <2>4, <3>2
    <3> HIDE DEF n
    <3>5. WaitsFor(n, k, FALSE)
      BY <2>4, <3>1, <3>2, <3>3 DEF WaitsFor
    <3>6. n.todo \union {n.obj} = w.todo
      BY <2>4, <3>3
    <3>7. AboutOf(w) \subseteq AboutOf(n)
      BY <2>1, <2>4, <3>1, <3>3 DEF Holds, AboutOf
    <3> QED BY <1>4, <2>1, <2>4, <3>2, <3>3, <3>4, <3>5, <3>6, <3>7, CallsAgain
  <2> QED BY <1>4, <2>2, <2>3, <2>4 DEF NextCall
<1>5. ASSUME Watch, NEW t \in Clients, BatchDone(t) PROVE Inv'
  <2>1. calls[t] = Store!NoCall
    BY <1>5 DEF BatchDone, Inv, ClientOK
  <2>2. calls' = [calls EXCEPT ![t] = Store!NoCall] /\ UNCHANGED <<objects, now, buckets>>
    BY <1>5, <2>1 DEF BatchDone, storeVars, Inv, Shapes
  <2> QED BY <1>5, <2>2, Ended DEF BatchDone, Inv, Shapes
<1> QED BY <1>1, <1>2, <1>3, <1>4, <1>5, AnsweredKeeps, StoreKeeps
        DEF Next, Handler, Refuse, ListObjects, Listen

\* Every behaviour keeps the invariant.
LEMMA InvAlways == Spec => []Inv
<1>1. Init => Inv
  <2> SUFFICES ASSUME Init PROVE Inv
    OBVIOUS
  <2>1. Shapes
    BY NoWorkFields, S3Assumption DEF Init, Shapes, Store!Versions
  <2>2. \A t \in Clients : ClientOK(t)
    BY NoWorkFields, NoCallApart DEF Init, ClientOK, Accounts
  <2> QED BY <2>1, <2>2 DEF Inv
<1>2. Inv /\ [Next]_vars => Inv'
  BY InvKept
<1> QED BY <1>1, <1>2, PTL DEF Spec

\* The handlers' state keeps its type, a handler that waits has exactly one call of its
\* own in flight, and a batch never deletes a key it was not asked for (bucket_post).
THEOREM OneCallEach == Spec => []TypeOK
<1>1. Inv => TypeOK
  BY DEF Inv, Shapes, ClientOK, Accounts, TypeOK
<1> QED BY <1>1, InvAlways, PTL

-----------------------------------------------------------------------------
(* Responses.                                                              *)

\* Only a handler's own answer, or the end of its batch, ends its request.
LEMMA Ending ==
    ASSUME Inv, [Next]_vars, NEW t \in Clients, Ends(t)
    PROVE  (Answered(t) \/ BatchDone(t)) /\ Watch
<1>1. pc[t] # "idle" /\ pc'[t] = "idle" /\ pc' # pc
  BY DEF Ends
<1>2. Watch /\ \E x \in Clients : Handler(x)
  BY <1>1 DEF Next, vars, StoreWorks, Listen
<1> PICK x \in Clients : Handler(x)
  BY <1>2
<1>3. ASSUME x # t PROVE \A v : pc' # [pc EXCEPT ![x] = v]
  BY <1>1, <1>3 DEF Inv, Shapes
<1>4. ASSUME NEW w, NEW c, Begin(x, w, c) PROVE FALSE
  BY <1>1, <1>3, <1>4 DEF Begin, Accept, Inv, Shapes
<1>5. ~(PutObject(x) \/ CopyObject(x) \/ GetObject(x) \/ HeadObject(x)
        \/ DeleteObject(x) \/ DeleteObjects(x) \/ OnBucket(x))
  BY <1>4 DEF PutObject, CopyObject, GetObject, HeadObject, DeleteObject, DeleteObjects, OnBucket
<1>6. ~NextCall(x)
  BY <1>1, <1>3 DEF NextCall, Again, Inv, Shapes
<1>7. ~Refuse(x) /\ ~ListObjects(x)
  BY <1>1 DEF Refuse, ListObjects
<1>8. Answered(x) => x = t
  BY <1>3 DEF Answered, After, AfterInfo, AfterBytes, AfterStore, AfterBatchDelete,
              Ok, Fails, Respond, Keep
<1>9. BatchDone(x) => x = t
  BY <1>3 DEF BatchDone, Respond
<1> QED BY <1>2, <1>5, <1>6, <1>7, <1>8, <1>9 DEF Handler

\* What the client is told when the storage manager's answer ends its request.
LEMMA Told ==
    ASSUME Inv, NEW t \in Clients, Answered(t), Ends(t)
    PROVE  LET w == work[t]
               a == answer'
           IN  \/ /\ a.status = "ok" /\ resp'.status = 200
                  /\ \/ w.op = "get" /\ pc[t] = "second"
                        /\ resp'.body = {w.content} /\ resp'.etag = a.data
                     \/ w.op = "head" /\ resp'.etag = a.data
                     \/ w.op = "copy" /\ pc[t] = "second" /\ resp'.etag = {w.content}
                     \/ w.op \in {"put", "delete"} \union BucketRequests
               \/ a.status # "error" /\ resp'.status = 200 /\ w.op = "delete"
               \/ a.status = "not_found" /\ resp'.status = 404 /\ w.op # "delete"
               \/ resp'.status = 500
<1> DEFINE w == work[t]
           a == answer'
<1>1. ASSUME NEW b, NEW e, Ok(t, b, e)
      PROVE  resp'.status = 200 /\ resp'.body = b /\ resp'.etag = e
  BY <1>1 DEF Ok, Respond, NoResponse
<1>2. ASSUME NEW s, Fails(t, s)
      PROVE  resp'.status = IF s = "not_found" THEN 404 ELSE 500
  BY <1>2 DEF Fails, Respond, NoResponse
<1>3. ASSUME NEW n, Keep(t, n) PROVE FALSE
  BY <1>3 DEF Keep, Ends, Inv, Shapes
<1>4. After(t, a)
  BY DEF Answered
<1>5. CASE w.op = "get" /\ pc[t] = "second" /\ AfterInfo(t, a)
  BY <1>1, <1>2, <1>5 DEF AfterInfo
<1>6. CASE w.op \in {"get", "copy"} /\ AfterBytes(t, a)
  BY <1>2, <1>3, <1>6 DEF AfterBytes
<1>7. CASE (w.op = "put" \/ (w.op = "copy" /\ pc[t] = "second")) /\ AfterStore(t, a)
  BY <1>1, <1>2, <1>7 DEF AfterStore
<1>8. CASE w.op = "head" /\ IF a.status = "ok" THEN Ok(t, {}, a.data) ELSE Fails(t, a.status)
  BY <1>1, <1>2, <1>8
<1>9. CASE w.op = "delete" /\ IF a.status = "error" THEN Fails(t, "error") ELSE Ok(t, {}, {})
  BY <1>1, <1>2, <1>9
<1>10. CASE w.op = "batch" /\ AfterBatchDelete(t, a)
  BY <1>3, <1>10 DEF AfterBatchDelete
<1>11. CASE w.op \in BucketRequests /\ IF a.status = "ok" THEN Ok(t, {}, {}) ELSE Fails(t, a.status)
  BY <1>1, <1>2, <1>11 DEF BucketRequests
<1> QED BY <1>4, <1>5, <1>6, <1>7, <1>8, <1>9, <1>10, <1>11 DEF After, BucketRequests

\* What the client is told at the end of a batch.
LEMMA BatchTold ==
    ASSUME NEW t \in Clients, BatchDone(t)
    PROVE  /\ work[t].op = "batch" /\ work[t].todo = {} /\ pc[t] = "between"
           /\ resp'.status = 200 /\ resp'.keys = work[t].deleted
BY DEF BatchDone, Respond, NoResponse

\* The body and the ETag of a GetObject come from two calls of get_object; whatever
\* other requests do between them, the ETag is of a version the object held while the
\* request ran, and so is the body unless get_file itself answered against the table.
\* So is the ETag of a HeadObject.
THEOREM GetsAreCoherent == Spec => GetCoherent
<1> DEFINE A == \A t \in Clients :
                  /\ Succeeds(t, "get") =>
                       \E c \in Contents, e \in seen[t][work[t].obj] :
                           /\ resp'.body = {c} /\ resp'.etag = {e}
                           /\ c \in seen[t][work[t].obj] \/ t \in stray'
                  /\ Succeeds(t, "head") =>
                       \E e \in seen[t][work[t].obj] : resp'.etag = {e}
<1>1. Inv /\ [Next]_vars => [A]_vars
  <2> SUFFICES ASSUME Inv, [Next]_vars, NEW t \in Clients, Ends(t), resp'.status = 200,
                      work[t].op \in {"get", "head"}
               PROVE  /\ \E e \in seen[t][work[t].obj] : resp'.etag = {e}
                      /\ work[t].op = "get" =>
                           \E c \in Contents :
                              /\ resp'.body = {c}
                              /\ c \in seen[t][work[t].obj] \/ t \in stray'
    BY DEF Succeeds
  <2>1. Answered(t) /\ Watch
    BY Ending, BatchTold
  <2>2. pc[t] \in {"first", "second"} /\ (Store!Reply(t) \/ Stray(t))
    BY <2>1 DEF Answered
  <2>3. Waits(t) /\ Saw(t) /\ (calls[t].done => calls[t].op \in {"store", "delete", "delete_bucket"})
    BY <2>2 DEF Inv, ClientOK
  <2>4. /\ answer'.status = "ok" /\ resp'.etag = answer'.data
        /\ work[t].op = "get" => pc[t] = "second" /\ resp'.body = {work[t].content}
    BY <2>1, Told DEF BucketRequests
  <2>5. calls[t].op = "info" /\ calls[t].obj = work[t].obj
    BY <2>3, <2>4 DEF Waits, WaitsFor, BucketRequests
  <2>6. answer'.data = {Content(work[t].obj)} /\ work[t].obj \in Objects
    BY <2>1, <2>2, <2>3, <2>4, <2>5, Replied
  <2>7. Content(work[t].obj) \in seen[t][work[t].obj]
    BY <2>3, <2>6 DEF Saw, AboutOf
  <2>8. work[t].op = "get" =>
          /\ work[t].content \in Contents
          /\ work[t].content \in seen[t][work[t].obj] \/ t \in stray'
    BY <2>1, <2>2, <2>3, <2>4, Marked DEF Saw
  <2> QED BY <2>4, <2>6, <2>7, <2>8
<1> QED BY <1>1, InvAlways, PTL DEF Spec, GetCoherent

\* A copy_object that succeeds has stored, under the key it was asked for and while it
\* ran, the content its ETag names, which the source held while the copy ran unless
\* get_file answered against the table.
THEOREM CopiesAreCurrent == Spec => CopyCurrent
<1> DEFINE A == \A t \in Clients :
                  Succeeds(t, "copy") =>
                     \E c \in Contents :
                         /\ resp'.etag = {c} /\ c \in seen[t][work[t].obj]
                         /\ c \in seen[t][work[t].src] \/ t \in stray'
<1>1. Inv /\ [Next]_vars => [A]_vars
  <2> SUFFICES ASSUME Inv, [Next]_vars, NEW t \in Clients, Ends(t), resp'.status = 200,
                      work[t].op = "copy"
               PROVE  LET c == work[t].content
                      IN  /\ c \in Contents /\ resp'.etag = {c}
                          /\ c \in seen[t][work[t].obj]
                          /\ c \in seen[t][work[t].src] \/ t \in stray'
    BY DEF Succeeds
  <2>1. Answered(t) /\ Watch
    BY Ending, BatchTold
  <2>2. pc[t] \in {"first", "second"} /\ (Store!Reply(t) \/ Stray(t))
    BY <2>1 DEF Answered
  <2>3. Waits(t) /\ Saw(t)
    BY <2>2 DEF Inv, ClientOK
  <2>4. answer'.status = "ok" /\ pc[t] = "second" /\ resp'.etag = {work[t].content}
    BY <2>1, Told DEF BucketRequests
  <2>5. calls[t].op = "store" /\ calls[t].obj = work[t].obj /\ calls[t].content = work[t].content
    BY <2>3, <2>4 DEF Waits, WaitsFor, BucketRequests
  <2>6. calls[t].done
    BY <2>1, <2>2, <2>4, <2>5, Replied
  <2>7. t \in stray => t \in stray'
    BY <2>1, <2>2, Marked
  <2> QED BY <2>3, <2>4, <2>5, <2>6, <2>7 DEF Saw
<1> QED BY <1>1, InvAlways, PTL DEF Spec, CopyCurrent

\* A 404, a DeleteObject that succeeds, and every key a batch reports as deleted, speak
\* of an object that was absent at some moment of the request (or, for a 404, which
\* the lookup could neither serve nor delete); and a batch leaves no key unaccounted
\* for, whichever of its deletions failed.
THEOREM AbsencesAreReal == Spec => AbsenceIsReal
<1> DEFINE A == \A t \in Clients :
                  /\ Ends(t) /\ resp'.status = 404 /\ work[t].obj # None =>
                       \/ None \in seen[t][IF work[t].op = "copy" THEN work[t].src ELSE work[t].obj]
                       \/ t \in stray'
                  /\ Succeeds(t, "delete") => None \in seen[t][work[t].obj]
                  /\ Succeeds(t, "batch") =>
                       /\ \A o \in resp'.keys : None \in seen[t][o]
                       /\ resp'.keys \union work[t].errors = work[t].keys
<1>1. Inv /\ [Next]_vars => [A]_vars
  <2> SUFFICES ASSUME Inv, [Next]_vars, NEW t \in Clients, Ends(t)
               PROVE  /\ resp'.status = 404 /\ work[t].obj # None =>
                           \/ None \in seen[t][IF work[t].op = "copy" THEN work[t].src
                                               ELSE work[t].obj]
                           \/ t \in stray'
                      /\ work[t].op = "delete" /\ resp'.status = 200 => None \in seen[t][work[t].obj]
                      /\ work[t].op = "batch" /\ resp'.status = 200 =>
                           /\ \A o \in resp'.keys : None \in seen[t][o]
                           /\ resp'.keys \union work[t].errors = work[t].keys
    BY DEF Succeeds
  <2>1. Saw(t) /\ Accounts(t)
    BY DEF Inv, ClientOK, Ends
  <2>2. CASE BatchDone(t)
    BY <2>1, <2>2, BatchTold DEF Saw, Accounts
  <2>3. CASE Answered(t)
    <3>1. pc[t] \in {"first", "second"} /\ (Store!Reply(t) \/ Stray(t)) /\ Watch
      BY <2>3, Ending DEF Answered
    <3>2. Waits(t)
      BY <3>1 DEF Inv, ClientOK
    <3>3. resp'.status = 200 => work[t].op # "batch"
      BY <2>3, Told DEF BucketRequests
    <3>4. ASSUME resp'.status = 404, work[t].obj # None
          PROVE  \/ None \in seen[t][IF work[t].op = "copy" THEN work[t].src ELSE work[t].obj]
                 \/ t \in stray'
      <4>1. answer'.status = "not_found"
        BY <2>3, <3>4, Told
      <4>2. \/ calls[t].op \in {"get", "info", "delete"} /\ Content(calls[t].obj) = None
            \/ calls[t].op \in {"get", "info"} /\ t \in stray'
            \/ calls[t].op = "delete_bucket"
        BY <3>1, <4>1, Replied
      <4>3. /\ calls[t].op \in {"get", "info", "delete"}
            /\ calls[t].obj = IF work[t].op = "copy" THEN work[t].src ELSE work[t].obj
            /\ calls[t].obj \in Objects /\ work[t].op # "put"
        BY <3>2, <3>4, <4>2 DEF Waits, WaitsFor, BucketRequests
      <4>4. calls[t].obj \in AboutOf(work[t])
        BY <4>3 DEF AboutOf
      <4> QED BY <2>1, <4>2, <4>3, <4>4 DEF Saw
    <3>5. ASSUME resp'.status = 200, work[t].op = "delete" PROVE None \in seen[t][work[t].obj]
      <4>1. answer'.status # "error"
        BY <2>3, <3>5, Told
      <4>2. calls[t].op = "delete" /\ calls[t].obj = work[t].obj /\ work[t].obj \in Objects
        BY <3>2, <3>5 DEF Waits, WaitsFor, BucketRequests
      <4>3. calls[t].done \/ Content(calls[t].obj) = None
        BY <3>1, <4>1, <4>2, Replied
      <4>4. work[t].obj \in AboutOf(work[t])
        BY <3>5 DEF AboutOf
      <4> QED BY <2>1, <4>2, <4>3, <4>4 DEF Saw
    <3> QED BY <3>3, <3>4, <3>5
  <2> QED BY <2>2, <2>3, Ending
<1> QED BY <1>1, InvAlways, PTL DEF Spec, AbsenceIsReal

-----------------------------------------------------------------------------
(* Listings.                                                               *)

\* A page of at most n rows.
LEMMA PageOf ==
    ASSUME NEW S \in SUBSET Objects, NEW m \in Nat, NEW files \in AtMost(m + 1, S),
           NEW page \in AtMost(m, files)
    PROVE  page \subseteq S /\ (Cardinality(files) > m) = (page # S)
<1>1. files \subseteq S /\ page \subseteq files
  BY DEF AtMost
<1>2. IsFiniteSet(S) /\ IsFiniteSet(files) /\ IsFiniteSet(page)
  BY <1>1, FiniteAssumption, FS_Subset
<1>3. Cardinality(S) \in Nat /\ Cardinality(files) \in Nat /\ Cardinality(page) \in Nat
  BY <1>2, FS_CardinalityType
<1>4. CASE Cardinality(files) = m + 1
  BY <1>1, <1>3, <1>4 DEF AtMost
<1>5. CASE files = S /\ Cardinality(S) < m + 1
  <2>1. Cardinality(page) = m => page = files
    BY <1>1, <1>2, <1>3, <1>5, FS_Subset
  <2> QED BY <1>3, <1>5, <2>1 DEF AtMost
<1> QED BY <1>4, <1>5 DEF AtMost

\* list_objects_v2 asks for one row more than it shows, so IsTruncated is right however
\* many objects the bucket holds, at 0, 1, the 1000 and beyond.
THEOREM ListingsAreHonest == Spec => ListingHonest
<1> DEFINE Whole(b) == {o \in Objects : o.bucket = b /\ objects[o] # None}
           A == issued' # issued /\ resp'.listing =>
                  \E b \in Buckets :
                     LET all == {o \in Objects : o.bucket = b /\ objects[o] # None}
                     IN  /\ resp'.keys \subseteq all
                         /\ resp'.truncated = (resp'.keys # all)
<1>1. [Next]_vars => [A]_vars
  <2> SUFFICES ASSUME [Next]_vars, issued' # issued, resp'.listing
               PROVE  \E b \in Buckets :
                        resp'.keys \subseteq Whole(b) /\ resp'.truncated = (resp'.keys # Whole(b))
    OBVIOUS
  <2>1. PICK t \in Clients : Handler(t)
    BY DEF Next, vars, StoreWorks, Listen
  <2>2. ~NoResponse.listing
    BY DEF NoResponse
  <2>3. ASSUME NEW w, NEW c, Begin(t, w, c) PROVE FALSE
    BY <2>2, <2>3 DEF Begin
  <2>4. ~(PutObject(t) \/ CopyObject(t) \/ GetObject(t) \/ HeadObject(t)
          \/ DeleteObject(t) \/ DeleteObjects(t) \/ OnBucket(t))
    BY <2>3 DEF PutObject, CopyObject, GetObject, HeadObject, DeleteObject, DeleteObjects, OnBucket
  <2>5. ~Answered(t) /\ ~NextCall(t) /\ ~BatchDone(t)
    BY DEF Answered, NextCall, Again, BatchDone
  <2>6. ~Refuse(t)
    BY DEF Refuse, NoResponse
  <2>7. ~(resp' = [NoResponse EXCEPT !.client = t, !.status = 500])
    BY DEF NoResponse
  <2>8. PICK b \in Buckets, n \in MaxKeysParams :
          \E files \in AtMost(Fetched(Clamp(n)), Whole(b)) :
             \E page \in AtMost(Clamp(n), files) :
                resp' = [NoResponse EXCEPT
                           !.client = t, !.status = 200, !.keys = page, !.listing = TRUE,
                           !.truncated = Cardinality(files) > Clamp(n)]
    BY <2>1, <2>4, <2>5, <2>6, <2>7 DEF Handler, ListObjects
  <2>9. PICK files \in AtMost(Fetched(Clamp(n)), Whole(b)), page \in SUBSET Objects :
          /\ page \in AtMost(Clamp(n), files)
          /\ resp' = [NoResponse EXCEPT
                        !.client = t, !.status = 200, !.keys = page, !.listing = TRUE,
                        !.truncated = Cardinality(files) > Clamp(n)]
    BY <2>8 DEF AtMost
  <2>10. resp'.keys = page /\ resp'.truncated = (Cardinality(files) > Clamp(n))
    BY <2>9 DEF NoResponse
  <2>11. Clamp(n) \in Nat
    BY S3Assumption DEF Clamp
  <2>12. page \subseteq Whole(b) /\ (Cardinality(files) > Clamp(n)) = (page # Whole(b))
    <3>1. PICK S \in SUBSET Objects, m \in Nat : S = Whole(b) /\ m = Clamp(n)
      BY <2>11
    <3>2. files \in AtMost(m + 1, S) /\ page \in AtMost(m, files)
      BY <2>9, <3>1 DEF Fetched
    <3>3. page \subseteq S /\ (Cardinality(files) > m) = (page # S)
      BY <3>2, PageOf
    <3> QED BY <3>1, <3>3
  <2> QED BY <2>10, <2>12
<1> QED BY <1>1, PTL DEF Spec, ListingHonest

=============================================================================
