--------------------------- MODULE OwnBytesProofs ---------------------------
(***************************************************************************)
(* Without deduplication, and with private temporary names, no object is   *)
(* ever served another object's bytes.                                     *)
(*                                                                         *)
(* NoForeignBytes speaks of the answer only.  What makes it inductive is   *)
(* that the property holds of every place bytes of an object can be (its   *)
(* file and its temporary file, cached body, a handler's locals), which in *)
(* turn needs every copy of a row (table, cached metadata, locals,         *)
(* listings) to point at the path of its own (bucket, key), and every open *)
(* file to be under one of the names of the object being uploaded.  Only   *)
(* the alias row of a deduplicated upload points elsewhere.                *)
(***************************************************************************)
EXTENDS StorageManagerProofs

USE DEF Tasks, Labels, ObjectLabels, UploadLabels, ReadLabels, DeleteLabels,
        BucketLabels

\* The two names the bytes of an object can be under.
Names(o) == {get_file_path(o), temp_path(o)}

OwnRows ==
    \A o \in Objects :
        /\ Stored(o) => files[o].path = get_file_path(o)
        /\ meta[o] # None => meta[o].path = get_file_path(o)

OwnContents ==
    \A o \in Objects :
        /\ \A n \in Names(o) : disk[n] # None => disk[n] \subseteq sent[o]
        /\ body[o] # None => body[o] \subseteq sent[o]

OwnHandles ==
    \A t \in Tasks :
        handle[t] # None => pc[t] = "fill" /\ handle[t] \in Names(Obj(t))

OwnTask(t) ==
    /\ pc[t] # "alias_save"
    /\ \/ pc[t] \in UploadLabels
       \/ pc[t] = "ensure" /\ req[t].op = "store"
       => req[t].content \in sent[Obj(t)]
    /\ pc[t] \in {"fill_meta", "get_body", "read_disk", "fill_body"}
         => row[t].path = get_file_path(Obj(t))
    /\ pc[t] \in {"fill_body", "preload_fill"} => bytes[t] \subseteq sent[Obj(t)]
    /\ \A f \in todo[t] : f.path = get_file_path(f.obj)

OwnAnswer ==
    out.op = "get" /\ out.status = "bytes"
    => out.obj \in Objects /\ out.data \subseteq sent[out.obj]

OwnBytes ==
    /\ OwnRows /\ OwnContents /\ OwnHandles
    /\ \A t \in Tasks : OwnTask(t)
    /\ OwnAnswer

\* Two objects never share a name on disk.
LEMMA NamesPrivate ==
    ASSUME PrivateTempNames, NEW o \in Objects, NEW p \in Objects,
           NEW n \in Names(o), n \in Names(p)
    PROVE  o = p
<1>1. o.bucket = p.bucket /\ o.key \in Keys /\ p.key \in Keys
  BY DEF Names, get_file_path, temp_path, Objects
<1>2. o.key = p.key
  BY <1>1 DEF Names, get_file_path, temp_path, PrivateTempNames
<1> QED BY <1>1, <1>2 DEF Objects

\* The names of an object are names on disk.
LEMMA NamesType == ASSUME NEW o \in Objects PROVE Names(o) \subseteq DiskNames
BY DEF Names, get_file_path, temp_path, Objects, DiskNames

\* Steps that leave every history alone.
LEMMA SentUnchanged ==
    ASSUME [Next]_vars, ~\E t \in Tasks : StartStore(t) PROVE sent' = sent
<1>1. ASSUME NEW t \in Tasks,
             \/ StartOnObject(t) \/ StartOnBucket(t) \/ StoreStep(t) \/ ReadStep(t)
             \/ DeleteStep(t) \/ BucketStep(t) \/ Drop(t) \/ DbError(t)
      PROVE  sent' = sent
  BY <1>1 DEF StartOnObject, StartOnBucket, StoreStep, EnsureBucket, Dedup, AliasSave,
     AliasSaveRejected, WriteStep, CreateTemp, FillTemp, RenameTemp, RenameFails,
     WriteFails, SaveRow, SaveFails, WarmMeta, WarmBody, ReadStep, GetMeta, GetRow,
     FillMeta, GetBody, ReadDisk, ReadFails, FillBody, GetInfo, DeleteStep, DelFind,
     DelCount, DelRow, Unlink, Invalidate, BucketStep, ListBucket, DropBucket,
     BucketNext, BucketUnlink, BucketInvalidate, RmDir, Drop, DbError, save_file,
     NoteSaved, ghosts
<1>2. CASE Sweep \/ Preload \/ Restart \/ Evict \/ Tick \/ UNCHANGED vars
  BY <1>2 DEF Sweep, SweepList, SweepNext, SweepDone, Preload, PreloadList,
     PreloadRead, PreloadFill, PreloadDone, Restart, Evict, Tick, vars, ghosts
<1> QED BY <1>1, <1>2 DEF Next, Client, Listen

\* The history of uploads only grows.
LEMMA SentGrows ==
    ASSUME TypeOK, [Next]_vars, NEW o \in Objects PROVE sent[o] \subseteq sent'[o]
<1>1. ASSUME NEW t \in Tasks, StartStore(t) PROVE sent[o] \subseteq sent'[o]
  BY <1>1 DEF StartStore, TypeOK, GhostsOK
<1> QED BY <1>1, SentUnchanged

\* Every copy of a row, in the table and in the cache, keeps its own path.
LEMMA OwnRowsStep ==
    ASSUME TypeOK, OwnBytes, [Next]_vars
    PROVE  OwnRows'
<1>1. ASSUME UNCHANGED <<files, meta>> PROVE OwnRows'
  BY <1>1 DEF OwnBytes, OwnRows, Stored
<1>2. ASSUME NEW t \in Tasks, SaveRow(t) PROVE OwnRows'
  BY <1>2 DEF SaveRow, save_file, NewRow, caches, OwnBytes, OwnRows, Stored, TypeOK,
     StoresOK
<1>3. ASSUME NEW t \in Tasks, AliasSave(t) PROVE FALSE
  BY <1>3 DEF AliasSave, OwnBytes, OwnTask
<1>4. ASSUME NEW t \in Tasks, DelRow(t) PROVE OwnRows'
  BY <1>4 DEF DelRow, caches, OwnBytes, OwnRows, Stored, TypeOK, StoresOK
<1>5. ASSUME NEW t \in Tasks, DropBucket(t) PROVE OwnRows'
  BY <1>5 DEF DropBucket, caches, OwnBytes, OwnRows, Stored
<1>6. ASSUME NEW t \in Tasks, WarmMeta(t) PROVE OwnRows'
  BY <1>6 DEF WarmMeta, backend_set, Unless, NewRow, store, OwnBytes, OwnRows, Stored,
     TypeOK, StoresOK
<1>7. ASSUME NEW t \in Tasks, FillMeta(t) PROVE OwnRows'
  BY <1>7 DEF FillMeta, backend_set, Unless, store, OwnBytes, OwnRows, OwnTask, Stored,
     TypeOK, StoresOK
<1>8. ASSUME NEW t \in Tasks, Invalidate(t) \/ BucketInvalidate(t) PROVE OwnRows'
  BY <1>8 DEF Invalidate, BucketInvalidate, invalidate_file, store, caches, OwnBytes,
     OwnRows, Stored, TypeOK, StoresOK
<1>9. CASE Restart \/ Evict
  BY <1>9 DEF Restart, Evict, store, caches, OwnBytes, OwnRows, Stored, TypeOK, StoresOK
<1>10. ASSUME NEW t \in Tasks,
              \/ StartStore(t) \/ StartOnObject(t) \/ StartOnBucket(t)
              \/ EnsureBucket(t) \/ Dedup(t) \/ AliasSaveRejected(t) \/ WriteStep(t)
              \/ SaveFails(t) \/ WarmBody(t) \/ GetMeta(t)
              \/ GetRow(t) \/ GetBody(t) \/ ReadDisk(t) \/ ReadFails(t)
              \/ FillBody(t) \/ GetInfo(t) \/ DelFind(t) \/ DelCount(t) \/ Unlink(t)
              \/ ListBucket(t) \/ BucketNext(t) \/ BucketUnlink(t) \/ RmDir(t)
              \/ Drop(t) \/ DbError(t)
       PROVE  OwnRows'
  BY <1>1, <1>10 DEF StartStore, StartOnObject, StartOnBucket, Accept, EnsureBucket,
     Dedup, AliasSaveRejected, WriteStep, CreateTemp, FillTemp, RenameTemp,
     RenameFails, WriteFails, SaveFails, WarmBody, GetMeta, GetRow, GetBody, ReadDisk,
     ReadFails, FillBody, GetInfo, DelFind, DelCount, Unlink, ListBucket, BucketNext,
     BucketUnlink, RmDir, Drop, DbError, store, caches
<1>11. CASE Sweep \/ Preload \/ Tick \/ UNCHANGED vars
  BY <1>1, <1>11 DEF Sweep, SweepList, SweepNext, SweepDone, Preload, PreloadList,
     PreloadRead, PreloadFill, PreloadDone, Tick, vars, store, caches
<1> QED BY <1>2, <1>3, <1>4, <1>5, <1>6, <1>7, <1>8, <1>9, <1>10, <1>11
     DEF Next, Client, StoreStep, ReadStep, DeleteStep, BucketStep, Listen

\* The bytes on an object's path and its cached body were uploaded to it.
LEMMA OwnContentsStep ==
    ASSUME TypeOK, OwnBytes, [Next]_vars, PrivateTempNames
    PROVE  OwnContents'
<1>1. ASSUME UNCHANGED <<disk, body>> PROVE OwnContents'
  BY <1>1, SentGrows DEF OwnBytes, OwnContents
<1>2. ASSUME NEW names, unlink(names), UNCHANGED body PROVE OwnContents'
  BY <1>2, SentGrows, NamesType DEF unlink, OwnBytes, OwnContents
<1>3. ASSUME NEW o \in Objects, NEW v \in SUBSET sent[o],
             body' \in set_file_content(o, v), UNCHANGED disk
      PROVE  OwnContents'
  BY <1>3, SentGrows DEF set_file_content, backend_set, Unless, OwnBytes, OwnContents,
     TypeOK, StoresOK
<1>4. ASSUME NEW o \in Objects, NEW n \in Names(o), NEW v, v \subseteq sent[o],
             disk' = [disk EXCEPT ![n] = v], UNCHANGED body
      PROVE  OwnContents'
  <2>1. ASSUME NEW p \in Objects, NEW m \in Names(p), disk'[m] # None
        PROVE  disk'[m] \subseteq sent[p]
    <3>1. CASE m = n
      BY <1>4, <2>1, <3>1, NamesPrivate, NamesType DEF TypeOK, StoresOK
    <3>2. CASE m # n
      BY <1>4, <2>1, <3>2, NamesType DEF TypeOK, StoresOK, OwnBytes, OwnContents
    <3> QED BY <3>1, <3>2
  <2> QED BY <1>4, <2>1, SentGrows DEF OwnBytes, OwnContents
<1>5. ASSUME NEW t \in Tasks, CreateTemp(t) PROVE OwnContents'
  <2> DEFINE temp == temp_path(Obj(t))
             nothing == {}
  <2>1. Obj(t) \in Objects /\ temp \in Names(Obj(t)) /\ nothing \subseteq sent[Obj(t)]
    BY <1>5 DEF CreateTemp, TypeOK, TaskHolds, Names
  <2>2. disk' = [disk EXCEPT ![temp] = nothing] /\ UNCHANGED body
    BY <1>5 DEF CreateTemp, caches
  <2> HIDE DEF temp, nothing
  <2> QED BY <1>4, <2>1, <2>2
<1>6. ASSUME NEW t \in Tasks, FillTemp(t) PROVE OwnContents'
  <2>1. Obj(t) \in Objects /\ req[t].content \in sent[Obj(t)]
    BY <1>6 DEF FillTemp, TypeOK, TaskHolds, OwnBytes, OwnTask
  <2>2. CASE handle[t] = None
    BY <1>1, <1>6, <2>2 DEF FillTemp, caches
  <2>3. CASE handle[t] # None
    <3>1. handle[t] \in Names(Obj(t)) /\ disk[handle[t]] \subseteq sent[Obj(t)]
      BY <2>1, <2>3 DEF OwnBytes, OwnHandles, OwnContents, TypeOK, StoresOK
    <3>2. PICK rest \in {{}, disk[handle[t]]} :
            disk' = [disk EXCEPT ![handle[t]] = {req[t].content} \union rest]
      BY <1>6, <2>3 DEF FillTemp
    <3>3. {req[t].content} \union rest \subseteq sent[Obj(t)]
      BY <2>1, <3>1, <3>2
    <3>4. UNCHANGED body
      BY <1>6 DEF FillTemp, caches
    <3> QED BY <1>4, <2>1, <3>1, <3>2, <3>3, <3>4
  <2> QED BY <2>2, <2>3
<1>7. ASSUME NEW t \in Tasks, RenameTemp(t) PROVE OwnContents'
  <2> DEFINE p == get_file_path(Obj(t))
             temp == temp_path(Obj(t))
  <2>1. Obj(t) \in Objects /\ p \in Names(Obj(t)) /\ temp \in Names(Obj(t))
    BY <1>7 DEF RenameTemp, TypeOK, TaskHolds, Names
  <2>2. /\ disk[temp] # None /\ disk[temp] \subseteq sent[Obj(t)]
        /\ disk' = [disk EXCEPT ![temp] = None, ![p] = disk[temp]]
        /\ UNCHANGED body
    BY <1>7, <2>1 DEF RenameTemp, caches, OwnBytes, OwnContents
  <2> HIDE DEF p, temp
  <2>3. ASSUME NEW o \in Objects, NEW n \in Names(o), disk'[n] # None
        PROVE  disk'[n] \subseteq sent[o]
    <3>1. CASE n \notin {p, temp}
      BY <2>1, <2>2, <2>3, <3>1, NamesType DEF TypeOK, StoresOK, OwnBytes, OwnContents
    <3>2. CASE n \in {p, temp}
      <4>1. o = Obj(t)
        BY <2>1, <2>3, <3>2, NamesPrivate
      <4>2. disk'[n] = disk[temp]
        BY <2>1, <2>2, <2>3, <3>2, NamesType DEF TypeOK, StoresOK
      <4> QED BY <2>2, <4>1, <4>2
    <3> QED BY <3>1, <3>2
  <2> QED BY <2>2, <2>3, SentGrows DEF OwnBytes, OwnContents
<1>8. ASSUME NEW t \in Tasks,
              SaveFails(t) \/ Unlink(t) \/ BucketUnlink(t) \/ RmDir(t)
       PROVE  OwnContents'
  BY <1>1, <1>2, <1>8 DEF SaveFails, Unlink, BucketUnlink, RmDir, caches
<1>9. ASSUME NEW t \in Tasks, WarmBody(t) PROVE OwnContents'
  BY <1>3, <1>9 DEF WarmBody, store, TypeOK, TaskHolds, OwnBytes, OwnTask
<1>10. ASSUME NEW t \in Tasks, FillBody(t) PROVE OwnContents'
  BY <1>3, <1>10 DEF FillBody, store, TypeOK, TaskHolds, OwnBytes, OwnTask
<1>11. CASE PreloadFill
  BY <1>3, <1>11 DEF PreloadFill, store, TypeOK, TaskHolds, OwnBytes, OwnTask
<1>12. ASSUME NEW t \in Tasks, Invalidate(t) \/ BucketInvalidate(t) PROVE OwnContents'
  BY <1>12, SentGrows DEF Invalidate, BucketInvalidate, invalidate_file, store, caches,
     OwnBytes, OwnContents, TypeOK, StoresOK
<1>13. CASE Restart \/ Evict
  BY <1>13, SentGrows DEF Restart, Evict, store, caches, OwnBytes, OwnContents, TypeOK,
     StoresOK
<1>14. ASSUME NEW t \in Tasks,
              \/ StartStore(t) \/ StartOnObject(t) \/ StartOnBucket(t)
              \/ EnsureBucket(t) \/ Dedup(t) \/ AliasSave(t) \/ AliasSaveRejected(t)
              \/ RenameFails(t) \/ WriteFails(t) \/ SaveRow(t) \/ WarmMeta(t)
              \/ GetMeta(t)
              \/ GetRow(t) \/ FillMeta(t) \/ GetBody(t) \/ ReadDisk(t) \/ ReadFails(t)
              \/ GetInfo(t) \/ DelFind(t) \/ DelCount(t) \/ DelRow(t) \/ ListBucket(t)
              \/ DropBucket(t) \/ BucketNext(t) \/ Drop(t) \/ DbError(t)
       PROVE  OwnContents'
  BY <1>1, <1>14 DEF StartStore, StartOnObject, StartOnBucket, Accept, EnsureBucket,
     Dedup, AliasSave, AliasSaveRejected, RenameFails, WriteFails, SaveRow, WarmMeta,
     GetMeta, GetRow, FillMeta, GetBody, ReadDisk, ReadFails, GetInfo, DelFind,
     DelCount, DelRow, ListBucket, DropBucket, BucketNext, Drop, DbError, store,
     caches
<1>15. CASE Sweep \/ PreloadList \/ PreloadRead \/ PreloadDone \/ Tick \/ UNCHANGED vars
  BY <1>1, <1>15 DEF Sweep, SweepList, SweepNext, SweepDone, PreloadList, PreloadRead,
     PreloadDone, Tick, vars, store, caches
<1> QED BY <1>5, <1>6, <1>7, <1>8, <1>9, <1>10, <1>11, <1>12, <1>13, <1>14, <1>15
     DEF Next, Client, StoreStep, WriteStep, ReadStep, DeleteStep, BucketStep,
     Preload, Listen

\* An open file is the temporary file of the upload that opened it, under its
\* first name or under the name it was renamed to.
LEMMA OwnHandlesStep ==
    ASSUME TypeOK, OwnBytes, [Next]_vars, PrivateTempNames
    PROVE  OwnHandles'
<1>1. ASSUME \A x \in Tasks : handle'[x] # None =>
               handle'[x] = handle[x] /\ pc'[x] = pc[x] /\ req'[x] = req[x]
      PROVE  OwnHandles'
  BY <1>1 DEF OwnBytes, OwnHandles, Obj, Names, get_file_path, temp_path
<1>2. ASSUME NEW t \in Tasks, pc[t] # "fill",
             \A x \in Tasks : handle'[x] # None => handle'[x] = handle[x],
             \A x \in Tasks \ {t} : pc'[x] = pc[x] /\ req'[x] = req[x]
      PROVE  OwnHandles'
  BY <1>1, <1>2 DEF OwnBytes, OwnHandles
<1>3. ASSUME NEW names, unlink(names) PROVE
        \A x \in Tasks : handle'[x] # None => handle'[x] = handle[x]
  BY <1>3 DEF unlink, Move
<1>4. ASSUME NEW t \in Tasks, CreateTemp(t) PROVE OwnHandles'
  <2>1. handle'[t] = temp_path(Obj(t)) /\ pc'[t] = "fill" /\ req' = req
    BY <1>4 DEF CreateTemp, Goto, TypeOK, StoresOK, TasksOK
  <2>2. \A x \in Tasks \ {t} : handle'[x] = handle[x] /\ pc'[x] = pc[x]
    BY <1>4 DEF CreateTemp, Goto, TypeOK, StoresOK, TasksOK
  <2> QED BY <2>1, <2>2 DEF OwnBytes, OwnHandles, Obj, Names, get_file_path, temp_path
<1>5. ASSUME NEW t \in Tasks, FillTemp(t) \/ WriteFails(t) \/ Drop(t) PROVE OwnHandles'
  <2>1. handle' = [handle EXCEPT ![t] = None]
    BY <1>5 DEF FillTemp, WriteFails, Drop
  <2>2. \A x \in Tasks \ {t} : pc'[x] = pc[x] /\ req'[x] = req[x]
    BY <1>5 DEF FillTemp, WriteFails, Drop, Goto, Return, Respond, Finish, TypeOK,
       TasksOK
  <2> QED BY <1>1, <2>1, <2>2 DEF TypeOK, StoresOK
<1>6. ASSUME NEW t \in Tasks, RenameTemp(t) PROVE OwnHandles'
  <2> DEFINE p == get_file_path(Obj(t))
             temp == temp_path(Obj(t))
  <2>1. Obj(t) \in Objects /\ p \in Names(Obj(t)) /\ temp \in Names(Obj(t))
    BY <1>6 DEF RenameTemp, TypeOK, TaskHolds, Names
  <2>2. /\ handle' = [u \in Tasks |-> IF handle[u] = temp THEN p
                                      ELSE IF handle[u] = p THEN None
                                      ELSE handle[u]]
        /\ pc[t] = "rename" /\ pc' = [pc EXCEPT ![t] = "save"] /\ req' = req
    BY <1>6 DEF RenameTemp, Goto
  <2>3. temp # None
    BY <2>1, NamesType, NoneAssumption
  <2> HIDE DEF p, temp
  <2>4. ASSUME NEW x \in Tasks, handle'[x] # None
        PROVE  pc'[x] = "fill" /\ handle'[x] \in Names(Obj(x))
    <3>1. handle[x] # None
      BY <2>2, <2>3, <2>4
    <3>2. pc[x] = "fill" /\ handle[x] \in Names(Obj(x)) /\ Obj(x) \in Objects
      BY <3>1 DEF OwnBytes, OwnHandles, TypeOK, TaskHolds
    <3>3. pc'[x] = "fill"
      BY <2>2, <3>2 DEF TypeOK, TasksOK
    <3>4. CASE handle[x] = temp
      BY <2>1, <2>2, <3>2, <3>3, <3>4, NamesPrivate
    <3>5. CASE handle[x] # temp
      BY <2>2, <2>4, <3>2, <3>3, <3>5
    <3> QED BY <3>4, <3>5
  <2>5. \A x \in Tasks : Names(Obj(x))' = Names(Obj(x))
    BY <2>2 DEF Obj, Names, get_file_path, temp_path
  <2> QED BY <2>4, <2>5 DEF OwnHandles
<1>7. ASSUME NEW t \in Tasks,
             \/ EnsureBucket(t) \/ Dedup(t) \/ AliasSave(t) \/ AliasSaveRejected(t)
             \/ RenameFails(t) \/ SaveRow(t) \/ WarmMeta(t) \/ WarmBody(t)
             \/ ReadStep(t) \/ DelFind(t) \/ DelCount(t) \/ DelRow(t) \/ Invalidate(t)
             \/ ListBucket(t) \/ DropBucket(t) \/ BucketNext(t) \/ BucketInvalidate(t)
             \/ DbError(t) \/ StartStore(t) \/ StartOnObject(t) \/ StartOnBucket(t)
      PROVE  OwnHandles'
  <2>1. pc[t] # "fill" /\ handle' = handle
    BY <1>7 DEF EnsureBucket, Dedup, AliasSave, AliasSaveRejected, RenameFails, SaveRow,
       WarmMeta, WarmBody, ReadStep, GetMeta, GetRow, FillMeta, GetBody, ReadDisk,
       ReadFails, FillBody, GetInfo, DelFind, DelCount, DelRow, Invalidate, ListBucket,
       DropBucket, BucketNext, BucketInvalidate, DbError, StartStore, StartOnObject,
       StartOnBucket, Accept, MayStart
  <2>2. \A x \in Tasks \ {t} : pc'[x] = pc[x] /\ req'[x] = req[x]
    BY <1>7 DEF EnsureBucket, Dedup, AliasSave, AliasSaveRejected, RenameFails, SaveRow,
       WarmMeta, WarmBody, ReadStep, GetMeta, GetRow, FillMeta, GetBody, ReadDisk,
       ReadFails, FillBody, GetInfo, DelFind, DelCount, DelRow, Invalidate, ListBucket,
       DropBucket, BucketNext, BucketInvalidate, DbError, StartStore, StartOnObject,
       StartOnBucket, Accept, AfterRow, AfterDelete, Goto, Return, Respond, Finish,
       TypeOK, TasksOK
  <2> QED BY <1>2, <2>1, <2>2
<1>8. ASSUME NEW t \in Tasks,
             SaveFails(t) \/ Unlink(t) \/ BucketUnlink(t) \/ RmDir(t)
      PROVE  OwnHandles'
  <2>1. \A x \in Tasks : handle'[x] # None => handle'[x] = handle[x]
    BY <1>3, <1>8 DEF SaveFails, Unlink, BucketUnlink, RmDir
  <2>2. /\ pc[t] # "fill"
        /\ \A x \in Tasks \ {t} : pc'[x] = pc[x] /\ req'[x] = req[x]
    BY <1>8 DEF SaveFails, Unlink, BucketUnlink, RmDir, Goto, Return, Respond, Finish,
       TypeOK, TasksOK
  <2> QED BY <1>2, <2>1, <2>2
<1>9. CASE Sweep
  <2>1. pc[Sweeper] # "fill" /\ handle' = handle
    BY <1>9 DEF Sweep, SweepList, SweepNext, SweepDone, MayStart
  <2>2. \A x \in Tasks \ {Sweeper} : pc'[x] = pc[x] /\ req'[x] = req[x]
    BY <1>9 DEF Sweep, SweepList, SweepNext, SweepDone, Goto, Finish, TypeOK, TasksOK
  <2> QED BY <1>2, <2>1, <2>2
<1>10. CASE Preload
  <2>1. pc[Preloader] # "fill" /\ handle' = handle
    BY <1>10 DEF Preload, PreloadList, PreloadRead, PreloadFill, PreloadDone, MayStart
  <2>2. \A x \in Tasks \ {Preloader} : pc'[x] = pc[x] /\ req'[x] = req[x]
    BY <1>10 DEF Preload, PreloadList, PreloadRead, PreloadFill, PreloadDone, Goto,
       Finish, control, TypeOK, TasksOK
  <2> QED BY <1>2, <2>1, <2>2
<1>11. CASE Restart \/ Evict \/ Tick \/ UNCHANGED vars
  BY <1>1, <1>11 DEF Restart, Evict, Tick, vars, control
<1> QED BY <1>4, <1>5, <1>6, <1>7, <1>8, <1>9, <1>10, <1>11
     DEF Next, Client, StoreStep, WriteStep, DeleteStep, BucketStep, Listen

\* A task that a step does not move keeps what it had.
LEMMA OwnTaskKept ==
    ASSUME TypeOK, OwnBytes, [Next]_vars, NEW x \in Tasks,
           pc'[x] = pc[x], req'[x] = req[x], row'[x] = row[x], bytes'[x] = bytes[x],
           todo'[x] \subseteq todo[x]
    PROVE  OwnTask(x)'
<1>1. OwnTask(x) /\ TaskHolds(x)
  BY DEF OwnBytes, TypeOK
<1>2. Obj(x)' = Obj(x)
  BY DEF Obj
<1>3. Obj(x) \in Objects => sent[Obj(x)] \subseteq sent'[Obj(x)]
  BY SentGrows
<1> QED BY <1>1, <1>2, <1>3 DEF OwnTask, TaskHolds

\* A step of t that ends its request leaves every task with its own bytes.
LEMMA OwnFinish ==
    ASSUME TypeOK, OwnBytes, [Next]_vars, NEW t \in Tasks, Finish(t)
    PROVE  \A x \in Tasks : OwnTask(x)'
<1>1. ASSUME NEW x \in Tasks \ {t} PROVE OwnTask(x)'
  BY <1>1, OwnTaskKept DEF Finish, Forget, TypeOK, TasksOK
<1>2. OwnTask(t)'
  BY DEF Finish, Forget, TypeOK, TasksOK, OwnTask
<1> QED BY <1>1, <1>2

\* A step of t that goes on: only t has to be looked at.
LEMMA OwnGoto ==
    ASSUME TypeOK, OwnBytes, [Next]_vars, NEW t \in Tasks, NEW label,
           pc' = [pc EXCEPT ![t] = label],
           \A x \in Tasks \ {t} : /\ req'[x] = req[x] /\ row'[x] = row[x]
                                  /\ bytes'[x] = bytes[x] /\ todo'[x] = todo[x],
           OwnTask(t)'
    PROVE  \A x \in Tasks : OwnTask(x)'
BY OwnTaskKept DEF TypeOK, TasksOK

\* Listings name the objects' own paths.
LEMMA RefsOfOwn ==
    ASSUME OwnBytes, NEW S \in SUBSET Objects
    PROVE  \A f \in RefsOf(S) : f.path = get_file_path(f.obj)
BY DEF RefsOf, OwnBytes, OwnRows, Stored

\* No step gives a task a foreign row, foreign bytes or a foreign path.
LEMMA OwnTaskStep ==
    ASSUME TypeOK, OwnBytes, [Next]_vars, ~EnableDeduplication
    PROVE  \A x \in Tasks : OwnTask(x)'
<1> DEFINE Goal == \A x \in Tasks : OwnTask(x)'
<1>1. ASSUME NEW t \in Tasks, NEW label, Goto(t, label), UNCHANGED locals, sent' = sent,
             \/ label \notin UploadLabels \union {"ensure", "fill_meta", "get_body",
                            "read_disk", "fill_body", "preload_fill"}
             \/ label \in UploadLabels \ {"alias_save"} /\ pc[t] \in UploadLabels
             \/ label = "dedup" /\ pc[t] = "ensure" /\ req[t].op = "store"
             \/ label \in {"get_body", "read_disk"} /\ pc[t] \in {"fill_meta", "get_body"}
      PROVE  Goal
  <2>1. OwnTask(t)'
    BY <1>1 DEF Goto, locals, TypeOK, TasksOK, OwnBytes, OwnTask, Obj
  <2> QED BY <1>1, <2>1, OwnGoto DEF Goto, locals
<1>2. ASSUME NEW t \in Tasks, Finish(t) PROVE Goal
  BY <1>2, OwnFinish
<1>3. ASSUME NEW t \in Tasks, NEW answer, AfterDelete(t, answer),
sent' = sent PROVE Goal
  BY <1>1, <1>2, <1>3 DEF Return, Respond, AfterDelete
<1>4. ASSUME NEW t \in Tasks, StartStore(t) PROVE Goal
  <2>1. PICK o \in Objects, c \in Contents, ttl \in TTLs \union {0} :
          /\ Accept(t, "store", "ensure", o.bucket, o, c,
                    IF ttl = 0 THEN 0 ELSE now + ttl)
          /\ sent' = [sent EXCEPT ![o] = @ \union {c}]
    BY <1>4 DEF StartStore
  <2>2. pc' = [pc EXCEPT ![t] = "ensure"] /\ pc[t] = "idle" /\ UNCHANGED locals
    BY <2>1 DEF Accept, MayStart
  <2>3. req'[t].obj = o /\ req'[t].content = c
        /\ \A x \in Tasks \ {t} : req'[x] = req[x]
    BY <2>1 DEF Accept, TypeOK, TasksOK
  <2>4. OwnTask(t)'
    BY <2>1, <2>2, <2>3 DEF locals, TypeOK, TasksOK, GhostsOK, OwnBytes, OwnTask, Obj
  <2> QED BY <2>2, <2>3, <2>4, OwnGoto DEF locals
<1>5. ASSUME NEW t \in Tasks, StartOnObject(t) \/ StartOnBucket(t) PROVE Goal
  <2>1. PICK op \in {"get", "info", "delete", "create_bucket", "delete_bucket"},
             label \in {"get_meta", "info", "del_find", "ensure", "list_bucket"} :
          \E b, o : Accept(t, op, label, b, o, None, 0)
    BY <1>5 DEF StartOnObject, StartOnBucket
  <2>2. pc' = [pc EXCEPT ![t] = label] /\ UNCHANGED locals
        /\ req'[t].op = op /\ \A x \in Tasks \ {t} : req'[x] = req[x]
    BY <2>1 DEF Accept, TypeOK, TasksOK
  <2>3. OwnTask(t)'
    BY <2>2 DEF locals, TypeOK, TasksOK, OwnBytes, OwnTask
  <2> QED BY <2>2, <2>3, OwnGoto DEF locals
<1>6. ASSUME NEW t \in Tasks, StoreStep(t) PROVE Goal
  <2>1. CASE EnsureBucket(t)
    BY <1>1, <1>2, <2>1 DEF Return, Respond, EnsureBucket, ghosts
  <2>2. CASE Dedup(t)
    BY <1>1, <2>2 DEF Dedup, ghosts
  <2>3. CASE AliasSave(t) \/ AliasSaveRejected(t) \/ RenameFails(t) \/ WriteFails(t)
             \/ SaveFails(t) \/ WarmBody(t)
    BY <1>2, <2>3 DEF Return, Respond, AliasSave, AliasSaveRejected, RenameFails,
       WriteFails, SaveFails, WarmBody
  <2>4. CASE CreateTemp(t) \/ FillTemp(t) \/ RenameTemp(t) \/ SaveRow(t) \/ WarmMeta(t)
    BY <1>1, <2>4 DEF CreateTemp, FillTemp, RenameTemp, SaveRow, save_file, NoteSaved,
       WarmMeta, ghosts
  <2> QED BY <1>6, <2>1, <2>2, <2>3, <2>4 DEF StoreStep, WriteStep
<1>7. ASSUME NEW t \in Tasks, ReadStep(t) PROVE Goal
  <2>1. CASE GetMeta(t)
    <3>1. PICK cached \in backend_get(meta, Obj(t)) :
            IF cached = None
            THEN Goto(t, "get_row") /\ UNCHANGED row
            ELSE AfterRow(t, cached, "get_body") /\ row' = [row EXCEPT ![t] = cached]
      BY <2>1 DEF GetMeta
    <3>2. CASE cached = None
      BY <1>1, <2>1, <3>1, <3>2 DEF GetMeta, locals, ghosts
    <3>3. CASE cached # None
      <4>1. cached.path = get_file_path(Obj(t))
        BY <2>1, <3>3 DEF GetMeta, backend_get, Unless, TypeOK, TaskHolds, OwnBytes,
           OwnRows
      <4>2. PICK label \in {"del_find", "get_body"} : Goto(t, label)
        BY <3>1, <3>3 DEF AfterRow
      <4>3. OwnTask(t)'
        BY <2>1, <3>1, <3>3, <4>1, <4>2 DEF GetMeta, Goto, TypeOK, TasksOK, OwnBytes,
           OwnTask, Obj
      <4> QED BY <2>1, <3>1, <3>3, <4>2, <4>3, OwnGoto DEF GetMeta, Goto, TypeOK,
         TasksOK
    <3> QED BY <3>2, <3>3
  <2>2. CASE GetRow(t)
    <3>1. CASE ~Stored(Obj(t))
      BY <1>2, <2>2, <3>1 DEF Return, Respond, GetRow
    <3>2. CASE Stored(Obj(t))
      <4>1. files[Obj(t)].path = get_file_path(Obj(t))
        BY <2>2, <3>2 DEF GetRow, TypeOK, TaskHolds, OwnBytes, OwnRows
      <4>2. OwnTask(t)'
        BY <2>2, <3>2, <4>1 DEF GetRow, Goto, TypeOK, TasksOK, OwnBytes, OwnTask, Obj
      <4> QED BY <2>2, <3>2, <4>2, OwnGoto DEF GetRow, Goto, TypeOK, TasksOK
    <3> QED BY <3>1, <3>2
  <2>3. CASE FillMeta(t)
    BY <1>1, <2>3 DEF FillMeta, AfterRow, ghosts
  <2>4. CASE GetBody(t)
    BY <1>1, <1>2, <2>4 DEF Return, Respond, GetBody, ghosts
  <2>5. CASE ReadDisk(t)
    <3>1. disk[row[t].path] # None => disk[row[t].path] \subseteq sent[Obj(t)]
      BY <2>5 DEF ReadDisk, TypeOK, TaskHolds, OwnBytes, OwnContents, OwnTask, Names
    <3>2. sent' = sent /\ row' = row /\ todo' = todo /\ req' = req
      BY <2>5 DEF ReadDisk, Goto, ghosts
    <3>3. CASE disk[row[t].path] = None
      BY <1>1, <2>5, <3>2, <3>3 DEF ReadDisk, locals
    <3>4. CASE disk[row[t].path] # None
      <4>1. OwnTask(t)'
        BY <2>5, <3>1, <3>2, <3>4 DEF ReadDisk, Goto, TypeOK, TasksOK, OwnBytes,
           OwnTask, Obj
      <4> QED BY <2>5, <3>2, <3>4, <4>1, OwnGoto DEF ReadDisk, Goto, TypeOK, TasksOK
    <3> QED BY <3>3, <3>4
  <2>6. CASE ReadFails(t) \/ FillBody(t)
    BY <1>2, <2>6 DEF Return, Respond, ReadFails, FillBody
  <2>7. CASE GetInfo(t)
    BY <1>1, <1>2, <2>7 DEF Return, Respond, GetInfo, ghosts
  <2> QED BY <1>7, <2>1, <2>2, <2>3, <2>4, <2>5, <2>6, <2>7 DEF ReadStep
<1>8. ASSUME NEW t \in Tasks, NEW label \in DeleteLabels \union {"bucket_unlink"},
             pc' = [pc EXCEPT ![t] = label], sent' = sent,
             UNCHANGED <<row, bytes>>,
             \A x \in Tasks \ {t} : req'[x] = req[x] /\ todo'[x] = todo[x],
             todo'[t] \subseteq todo[t]
      PROVE  Goal
  <2>1. OwnTask(t)'
    BY <1>8 DEF TypeOK, TasksOK, OwnBytes, OwnTask
  <2> QED BY <1>8, <2>1, OwnGoto
<1>9. ASSUME NEW t \in Tasks, DeleteStep(t) PROVE Goal
  <2>1. CASE DelFind(t)
    BY <1>3, <1>8, <2>1 DEF DelFind, Goto, ghosts
  <2>2. CASE DelCount(t)
    BY <1>8, <2>2 DEF DelCount, Goto
  <2>3. CASE DelRow(t) \/ Unlink(t)
    BY <1>1, <2>3 DEF DelRow, Unlink, ghosts
  <2>4. CASE Invalidate(t)
    BY <1>3, <2>4 DEF Invalidate, ghosts
  <2> QED BY <1>9, <2>1, <2>2, <2>3, <2>4 DEF DeleteStep
<1>10. ASSUME NEW t \in Tasks, BucketStep(t) PROVE Goal
  <2>1. CASE ListBucket(t)
    <3>1. \A f \in todo'[t] : f.path = get_file_path(f.obj)
      BY <2>1, RefsOfOwn DEF ListBucket, TypeOK, TasksOK
    <3>2. OwnTask(t)'
      BY <2>1, <3>1 DEF ListBucket, Goto, TypeOK, TasksOK, OwnTask
    <3> QED BY <2>1, <3>2, OwnGoto DEF ListBucket, Goto, TypeOK, TasksOK
  <2>2. CASE DropBucket(t)
    BY <1>1, <1>2, <2>2 DEF Return, Respond, DropBucket, ghosts
  <2>3. CASE BucketNext(t)
    <3>1. PICK f \in todo[t] :
            /\ todo' = [todo EXCEPT ![t] = @ \ {f}]
            /\ req' = [req EXCEPT ![t] = [@ EXCEPT !.obj = f.obj]]
      BY <2>3 DEF BucketNext
    <3>2. todo'[t] \subseteq todo[t]
      BY <3>1 DEF TypeOK, TasksOK
    <3>3. \A x \in Tasks \ {t} : req'[x] = req[x] /\ todo'[x] = todo[x]
      BY <3>1 DEF TypeOK, TasksOK
    <3> QED BY <1>8, <2>3, <3>2, <3>3 DEF BucketNext
  <2>4. CASE BucketUnlink(t) \/ BucketInvalidate(t)
    BY <1>1, <2>4 DEF BucketUnlink, BucketInvalidate, ghosts
  <2>5. CASE RmDir(t)
    BY <1>2, <2>5 DEF Return, Respond, RmDir
  <2> QED BY <1>10, <2>1, <2>2, <2>3, <2>4, <2>5 DEF BucketStep
<1>11. ASSUME NEW t \in Tasks, DbError(t) \/ Drop(t) PROVE Goal
  BY <1>2, <1>3, <1>11, OwnFinish DEF Return, Respond, DbError, Drop, ghosts
<1>12. CASE SweepList
  BY <1>1, <1>12 DEF SweepList
<1>13. CASE SweepNext
  BY <1>8, <1>13 DEF SweepNext, locals, ghosts, TypeOK, TasksOK
<1>14. CASE SweepDone \/ PreloadDone
  BY <1>14, OwnFinish DEF SweepDone, PreloadDone
<1>15. CASE PreloadList
  <2>1. \A f \in todo'[Preloader] : f.path = get_file_path(f.obj)
    BY <1>15, RefsOfOwn DEF PreloadList, TypeOK, TasksOK
  <2>2. OwnTask(Preloader)'
    BY <1>15, <2>1 DEF PreloadList, Goto, TypeOK, TasksOK, OwnTask
  <2> QED BY <1>15, <2>2, OwnGoto DEF PreloadList, Goto, TypeOK, TasksOK
<1>16. CASE PreloadRead
  <2>1. PICK f \in todo[Preloader] :
          \/ /\ disk[f.path] # None
             /\ bytes' = [bytes EXCEPT ![Preloader] = disk[f.path]]
             /\ req' = [req EXCEPT ![Preloader] =
                          [NoRequest EXCEPT !.op = "preload", !.obj = f.obj]]
             /\ pc' = [pc EXCEPT ![Preloader] = "preload_fill"]
             /\ UNCHANGED <<todo, out>>
          \/ /\ todo' = [todo EXCEPT ![Preloader] = @ \ {f}]
             /\ UNCHANGED <<control, bytes>>
    BY <1>16 DEF PreloadRead
  <2>2. f.obj \in Objects /\ f.path = get_file_path(f.obj)
    BY DEF TypeOK, TasksOK, Refs, OwnBytes, OwnTask
  <2>3. /\ disk[f.path] # None => disk[f.path] \subseteq sent[f.obj]
        /\ sent' = sent /\ row' = row
    BY <1>16, <2>2 DEF PreloadRead, ghosts, OwnBytes, OwnContents, Names
  <2>4. CASE pc' = [pc EXCEPT ![Preloader] = "preload_fill"]
             /\ disk[f.path] # None /\ todo' = todo
             /\ bytes' = [bytes EXCEPT ![Preloader] = disk[f.path]]
             /\ req' = [req EXCEPT ![Preloader] =
                          [NoRequest EXCEPT !.op = "preload", !.obj = f.obj]]
    <3>1. req'[Preloader].obj = f.obj /\ bytes'[Preloader] = disk[f.path]
      BY <2>4 DEF NoRequest, TypeOK, TasksOK
    <3>2. OwnTask(Preloader)'
      BY <2>3, <2>4, <3>1 DEF TypeOK, TasksOK, OwnBytes, OwnTask, Obj
    <3> QED BY <2>3, <2>4, <3>2, OwnGoto DEF TypeOK, TasksOK
  <2>5. CASE todo' = [todo EXCEPT ![Preloader] = @ \ {f}] /\ UNCHANGED <<control,
  bytes>>
    BY <2>3, <2>5, OwnTaskKept DEF control, TypeOK, TasksOK
  <2> QED BY <2>1, <2>4, <2>5
<1>17. CASE PreloadFill
  <2>1. OwnTask(Preloader)'
    BY <1>17 DEF PreloadFill, Goto, TypeOK, TasksOK, OwnBytes, OwnTask
  <2> QED BY <1>17, <2>1, OwnGoto DEF PreloadFill, Goto, TypeOK, TasksOK
<1>18. CASE Restart
  BY <1>18 DEF Restart, OwnTask
<1>19. CASE Evict \/ Tick \/ UNCHANGED vars
  BY <1>19, OwnTaskKept DEF Evict, Tick, vars, control, locals
<1> QED BY <1>4, <1>5, <1>6, <1>7, <1>9, <1>10, <1>11, <1>12, <1>13, <1>14, <1>15,
     <1>16, <1>17, <1>18, <1>19
     DEF Next, Client, Sweep, Preload, Listen

\* Every answer a step gives to a GET was uploaded to the object it names.
LEMMA OwnAnswerStep ==
    ASSUME TypeOK, OwnBytes, [Next]_vars
    PROVE  OwnAnswer'
<1>1. ASSUME UNCHANGED out PROVE OwnAnswer'
  BY <1>1, SentGrows DEF OwnBytes, OwnAnswer
<1>2. ASSUME NEW t \in Tasks, NEW status \in {"ok", "not_found", "error"},
             Return(t, status)
      PROVE  OwnAnswer'
  BY <1>2 DEF Return, Respond, OwnAnswer
<1>3. ASSUME NEW t \in Tasks, NEW data, Respond(t, "bytes", data), Obj(t) \in Objects,
             data \subseteq sent[Obj(t)]
      PROVE  OwnAnswer'
  BY <1>3, SentGrows DEF Respond, OwnAnswer, Obj
<1>4. ASSUME NEW t \in Tasks, NEW answer \in {"ok", "not_found", "error"},
             AfterDelete(t, answer)
      PROVE  OwnAnswer'
  BY <1>1, <1>2, <1>4 DEF AfterDelete, Goto
<1>5. ASSUME NEW t \in Tasks, GetBody(t) PROVE OwnAnswer'
  <2>1. PICK cached \in backend_get(body, Obj(t)) :
          IF cached = None
          THEN Goto(t, "read_disk") /\ UNCHANGED locals
          ELSE Respond(t, "bytes", cached)
    BY <1>5 DEF GetBody
  <2>2. Obj(t) \in Objects
    BY <1>5 DEF GetBody, TypeOK, TaskHolds
  <2>3. cached # None => cached \subseteq sent[Obj(t)]
    BY <2>2 DEF backend_get, Unless, OwnBytes, OwnContents
  <2> QED BY <1>1, <1>3, <2>1, <2>2, <2>3 DEF Goto
<1>6. ASSUME NEW t \in Tasks, FillBody(t) PROVE OwnAnswer'
  BY <1>3, <1>6 DEF FillBody, TypeOK, TaskHolds, OwnBytes, OwnTask
<1>7. ASSUME NEW t \in Tasks, StoreStep(t) PROVE OwnAnswer'
  BY <1>1, <1>2, <1>7 DEF StoreStep, EnsureBucket, Dedup, AliasSave,
     AliasSaveRejected, WriteStep, CreateTemp, FillTemp, RenameTemp, RenameFails,
     WriteFails, SaveRow, SaveFails, WarmMeta, WarmBody, Goto
<1>8. ASSUME NEW t \in Tasks,
             \/ GetMeta(t) \/ GetRow(t) \/ FillMeta(t) \/ ReadDisk(t) \/ ReadFails(t)
             \/ GetInfo(t)
      PROVE  OwnAnswer'
  <2>1. CASE GetInfo(t) /\ Respond(t, "ok", {files[Obj(t)].hash})
    BY <2>1 DEF Respond, OwnAnswer
  <2> QED BY <1>1, <1>2, <1>8, <2>1 DEF GetMeta, GetRow, FillMeta, ReadDisk,
             ReadFails, GetInfo, AfterRow, Goto
<1>9. ASSUME NEW t \in Tasks, DeleteStep(t) \/ DbError(t) PROVE OwnAnswer'
  BY <1>1, <1>2, <1>4, <1>9 DEF DeleteStep, DelFind, DelCount, DelRow, Unlink,
     Invalidate, DbError, Goto
<1>10. ASSUME NEW t \in Tasks, BucketStep(t) PROVE OwnAnswer'
  BY <1>1, <1>2, <1>10 DEF BucketStep, ListBucket, DropBucket, BucketNext,
     BucketUnlink, BucketInvalidate, RmDir, Goto
<1>11. ASSUME NEW t \in Tasks,
              StartStore(t) \/ StartOnObject(t) \/ StartOnBucket(t) \/ Drop(t)
       PROVE  OwnAnswer'
  BY <1>1, <1>11 DEF StartStore, StartOnObject, StartOnBucket, Accept, Drop
<1>12. CASE Sweep \/ Preload \/ Restart \/ Evict \/ Tick \/ UNCHANGED vars
  BY <1>1, <1>12 DEF Sweep, SweepList, SweepNext, SweepDone, Preload, PreloadList,
     PreloadRead, PreloadFill, PreloadDone, Restart, Evict, Tick, Goto, control, vars
<1> QED BY <1>5, <1>6, <1>7, <1>8, <1>9, <1>10, <1>11, <1>12
     DEF Next, Client, ReadStep, Listen

\* Every copy of a row, every place with bytes and every open file is its object's
\* own, at every step.
LEMMA OwnBytesAlways ==
    ASSUME ~EnableDeduplication, PrivateTempNames
    PROVE  Spec => []OwnBytes
<1>1. Init => OwnBytes
  BY NamesType DEF Init, OwnBytes, OwnRows, OwnContents, OwnHandles,
     OwnTask, OwnAnswer, Stored
<1>2. TypeOK /\ OwnBytes /\ [Next]_vars => OwnBytes'
  BY OwnRowsStep, OwnContentsStep, OwnHandlesStep, OwnTaskStep, OwnAnswerStep
     DEF OwnBytes
<1> QED BY <1>1, <1>2, TypeCorrect, PTL DEF Spec

\* Without deduplication and with keys whose temporary names do not meet (no two
\* keys differ in the extension alone, no key is another one's .tmp), whatever the
\* interleaving of uploads, reads, deletions,
\* bucket removals, sweeps and preloads, whatever fails and whenever the process
\* restarts, get_file answers a (bucket, key) only with bytes that an upload to
\* that (bucket, key) carried.
THEOREM GetServesOwnBytes ==
    ASSUME ~EnableDeduplication, PrivateTempNames
    PROVE  Spec => []NoForeignBytes
<1>1. OwnBytes => NoForeignBytes
  BY DEF OwnBytes, OwnAnswer, NoForeignBytes
<1> QED BY <1>1, OwnBytesAlways, PTL

=============================================================================
