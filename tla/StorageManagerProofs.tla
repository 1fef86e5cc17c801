------------------------ MODULE StorageManagerProofs ------------------------
(***************************************************************************)
(* Proofs about the storage manager, for any sets of buckets, keys,        *)
(* contents and clients, any number of requests, and every combination of  *)
(* the operations and faults the constants allow.                          *)
(***************************************************************************)
EXTENDS StorageManager, TLAPS

USE DEF Tasks, Labels, ObjectLabels, UploadLabels, ReadLabels, DeleteLabels,
        BucketLabels

-----------------------------------------------------------------------------
(* Type correctness.  The stores, the tasks and the history variables are   *)
(* typed separately; what a task holds depends only on its own locals.      *)

TaskOK == TasksOK /\ \A t \in Tasks : TaskHolds(t)

\* A handler that ends leaves every task well formed.
LEMMA FinishTask ==
    ASSUME TaskOK, NEW t \in Tasks, Finish(t), expired' \subseteq Objects,
           out' \in Answers
    PROVE  TaskOK'
<1>1. NoRequest \in Requests
  BY DEF NoRequest, Requests
<1>2. TasksOK'
  BY <1>1, SMTT(30) DEF TaskOK, TasksOK, Finish, Forget
<1>3. ASSUME NEW x \in Tasks PROVE TaskHolds(x)'
  BY <1>1 DEF TaskOK, TasksOK, TaskHolds, Finish, Forget, Obj
<1> QED BY <1>2, <1>3 DEF TaskOK

\* A handler that answers leaves every task well formed.
LEMMA RespondTask ==
    ASSUME TaskOK, NEW t \in Tasks, NEW status \in {"bytes", "ok", "not_found",
    "error"}, NEW data \in Bodies, Respond(t, status, data), UNCHANGED expired
    PROVE  TaskOK'
<1>1. req[t] \in Requests
  BY DEF TaskOK, TasksOK
<1>2. out' \in Answers
  BY <1>1 DEF Respond, Answers, Requests
<1> QED BY <1>2, FinishTask DEF Respond, TaskOK, TasksOK

\* The same of an answer without bytes.
LEMMA ReturnTask ==
    ASSUME TaskOK, NEW t \in Tasks, NEW status \in {"ok", "not_found", "error"},
           Return(t, status), UNCHANGED expired
    PROVE  TaskOK'
<1>1. {} \in Bodies
  BY DEF Bodies
<1> QED BY <1>1, RespondTask DEF Return

\* A task takes a new request, or a new object of the one it serves.
LEMMA AssignTask ==
    ASSUME TaskOK, NEW t \in Tasks, NEW label \in Labels, NEW r \in Requests,
           pc' = [pc EXCEPT ![t] = label], req' = [req EXCEPT ![t] = r],
           row' = row, bytes' \in [Tasks -> {None} \union Bodies],
           path' \in [Tasks -> Paths \union {None}],
           refs' \in [Tasks -> BOOLEAN],
           todo' \in [Tasks -> SUBSET Refs],
           \A x \in Tasks \ {t} : bytes'[x] = bytes[x] /\ path'[x] = path[x],
           expired' \subseteq Objects, out' = out,
           TaskHolds(t)'
    PROVE  TaskOK'
<1>1. TasksOK'
  BY DEF TaskOK, TasksOK
<1>2. ASSUME NEW x \in Tasks \ {t} PROVE TaskHolds(x)'
  <2>1. TaskHolds(x) /\ pc'[x] = pc[x] /\ req'[x] = req[x] /\ row'[x] = row[x]
        /\ bytes'[x] = bytes[x] /\ path'[x] = path[x]
    BY DEF TaskOK, TasksOK
  <2> QED BY <2>1 DEF TaskHolds, Obj
<1> QED BY <1>1, <1>2 DEF TaskOK

\* What delete_bucket and the preloader list are (key, file_path) pairs.
LEMMA RefsOfType ==
    ASSUME StoresOK, NEW S \in SUBSET Objects PROVE RefsOf(S) \subseteq Refs
BY DEF StoresOK, RefsOf, Refs, Stored, Rows

\* An accepted request gives its task what the first step needs.
LEMMA AcceptTask ==
    ASSUME TypeOK, NEW t \in Tasks, NEW op \in AllOps, NEW label \in Labels,
           NEW b \in Buckets, NEW o \in Objects \union {None},
           NEW c \in Contents \union {None}, NEW e \in Nat,
           Accept(t, op, label, b, o, c, e),
           \/ op = "store" /\ label = "ensure" /\ o \in Objects /\ c \in Contents
           \/ op = "get" /\ label = "get_meta" /\ o \in Objects
           \/ op = "info" /\ label = "info" /\ o \in Objects
           \/ op = "delete" /\ label = "del_find" /\ o \in Objects
           \/ op = "create_bucket" /\ label = "ensure"
           \/ op = "delete_bucket" /\ label = "list_bucket"
    PROVE  TaskOK'
<1> DEFINE r == [op |-> op, bucket |-> b, obj |-> o, content |-> c, expires |-> e]
<1>1. r \in Requests
  BY DEF Requests
<1>2. pc' = [pc EXCEPT ![t] = label] /\ req' = [req EXCEPT ![t] = r]
  BY DEF Accept
<1>3. UNCHANGED <<locals, expired, out>>
  BY DEF Accept
<1>4. pc'[t] = label /\ req'[t] = r
  BY <1>2 DEF TypeOK, TasksOK
<1>5. TaskHolds(t)'
  BY <1>4 DEF TaskHolds, Obj
<1> HIDE DEF r
<1> QED BY <1>1, <1>2, <1>3, <1>5, AssignTask DEF TypeOK, TaskOK, TasksOK, locals

\* Whoever called delete_file goes on well formed when it returns.
LEMMA AfterDeleteTask ==
    ASSUME TypeOK, NEW t \in Tasks, NEW answer \in {"ok", "not_found", "error"},
           pc[t] \in DeleteLabels, AfterDelete(t, answer), UNCHANGED expired
    PROVE  TaskOK'
<1>1. CASE Return(t, answer) \/ Return(t, "not_found")
  BY <1>1, ReturnTask DEF TypeOK, TaskOK
<1>2. CASE Goto(t, "sweep_next") /\ UNCHANGED locals
  BY <1>2 DEF Goto, locals, TypeOK, TaskOK, TasksOK, TaskHolds, Obj
<1> QED BY <1>1, <1>2 DEF AfterDelete

\* Every step leaves every task with what its next step needs.
LEMMA TaskStep ==
    ASSUME TypeOK, [Next]_vars
    PROVE  TaskOK'
<1>1. ASSUME NEW t \in Tasks, EnsureBucket(t) PROVE TaskOK'
  <2>1. CASE Return(t, "ok")
    BY <1>1, <2>1, ReturnTask DEF EnsureBucket, TypeOK, TaskOK
  <2>2. CASE req[t].op = "store" /\ Goto(t, "dedup") /\ UNCHANGED locals
    BY <1>1, <2>2 DEF EnsureBucket, Goto, locals, TypeOK, TaskOK, TasksOK,
       TaskHolds, Obj
  <2> QED BY <1>1, <2>1, <2>2 DEF EnsureBucket
<1>2. ASSUME NEW t \in Tasks, Dedup(t) PROVE TaskOK'
  <2> DEFINE same == {o \in Objects : Stored(o) /\ files[o].hash = req[t].content}
  <2>1. CASE Goto(t, "create") /\ UNCHANGED locals
    BY <1>2, <2>1 DEF Dedup, Goto, locals, TypeOK, TaskOK, TasksOK, TaskHolds, Obj
  <2>2. CASE Return(t, "ok")
    BY <1>2, <2>2, ReturnTask DEF Dedup, TypeOK, TaskOK
  <2>3. CASE /\ \E o \in same : row' = [row EXCEPT ![t] = files[o]]
             /\ Goto(t, "alias_save") /\ UNCHANGED <<bytes, path, refs, todo>>
    BY <1>2, <2>3 DEF Dedup, Stored, Goto, StoresOK, TypeOK, TaskOK, TasksOK,
       TaskHolds, Obj
  <2> QED BY <1>2, <2>1, <2>2, <2>3 DEF Dedup
<1>3. ASSUME NEW t \in Tasks, AliasSave(t) PROVE TaskOK'
  BY <1>3, ReturnTask DEF AliasSave, TypeOK, TaskOK
<1>4. ASSUME NEW t \in Tasks, AliasSaveRejected(t) PROVE TaskOK'
  BY <1>4, ReturnTask DEF AliasSaveRejected, TypeOK, TaskOK
<1>5. ASSUME NEW t \in Tasks, CreateTemp(t) \/ FillTemp(t) \/ RenameTemp(t)
      PROVE  TaskOK'
  BY <1>5 DEF CreateTemp, FillTemp, RenameTemp, Goto, locals, TypeOK, TaskOK, TasksOK,
     TaskHolds, Obj
<1>6. ASSUME NEW t \in Tasks, RenameFails(t) \/ WriteFails(t) PROVE TaskOK'
  BY <1>6, ReturnTask DEF RenameFails, WriteFails, TypeOK, TaskOK
<1>7. ASSUME NEW t \in Tasks, SaveRow(t) PROVE TaskOK'
  BY <1>7 DEF SaveRow, Goto, locals, TypeOK, TaskOK, TasksOK, TaskHolds, Obj
<1>8. ASSUME NEW t \in Tasks, SaveFails(t) PROVE TaskOK'
  BY <1>8, ReturnTask DEF SaveFails, TypeOK, TaskOK
<1>9. ASSUME NEW t \in Tasks, WarmMeta(t) PROVE TaskOK'
  BY <1>9 DEF WarmMeta, Goto, locals, TypeOK, TaskOK, TasksOK, TaskHolds, Obj
<1>10. ASSUME NEW t \in Tasks, WarmBody(t) PROVE TaskOK'
  BY <1>10, ReturnTask DEF WarmBody, TypeOK, TaskOK
<1>11. ASSUME NEW t \in Tasks, GetMeta(t) PROVE TaskOK'
  BY <1>11 DEF GetMeta, AfterRow, backend_get, Unless, Goto, StoresOK, TypeOK,
       TaskOK, TasksOK, TaskHolds, Obj
<1>12. ASSUME NEW t \in Tasks, GetRow(t) PROVE TaskOK'
  <2>1. CASE ~Stored(Obj(t))
    BY <1>12, <2>1, ReturnTask DEF GetRow, TypeOK, TaskOK
  <2>2. CASE Stored(Obj(t))
    <3>1. files[Obj(t)] \in Rows
      BY <1>12, <2>2 DEF GetRow, Stored, TypeOK, StoresOK, TaskHolds
    <3> QED BY <1>12, <2>2, <3>1 DEF GetRow, Goto, TypeOK, TaskOK, TasksOK,
         TaskHolds, Obj
  <2> QED BY <2>1, <2>2
<1>13. ASSUME NEW t \in Tasks, FillMeta(t) PROVE TaskOK'
  BY <1>13 DEF FillMeta, AfterRow, Goto, locals, TypeOK, TaskOK, TasksOK,
       TaskHolds, Obj
<1>14. ASSUME NEW t \in Tasks, GetBody(t) PROVE TaskOK'
  <2>1. PICK cached \in backend_get(body, Obj(t)) :
          IF cached = None
          THEN Goto(t, "read_disk") /\ UNCHANGED locals
          ELSE Respond(t, "bytes", cached)
    BY <1>14 DEF GetBody
  <2>2. cached \in {None} \union Bodies
    BY <1>14 DEF GetBody, backend_get, Unless, TypeOK, StoresOK, TaskHolds
  <2>3. CASE cached = None
    BY <1>14, <2>1, <2>3 DEF GetBody, Goto, locals, TypeOK, TaskOK, TasksOK,
       TaskHolds, Obj
  <2>4. CASE cached # None
    BY <1>14, <2>1, <2>2, <2>4, RespondTask DEF GetBody, TypeOK, TaskOK
  <2> QED BY <2>3, <2>4
<1>15. ASSUME NEW t \in Tasks, ReadDisk(t) PROVE TaskOK'
  <2> USE <1>15
  <2>1. disk[row[t].path] \in {None} \union Bodies
    BY DEF ReadDisk, TypeOK, StoresOK, TasksOK, TaskHolds, Rows, Paths, DiskNames
  <2> QED BY <2>1 DEF ReadDisk, Goto, TypeOK, TaskOK, TasksOK, TaskHolds, Obj
<1>16. ASSUME NEW t \in Tasks, ReadFails(t) PROVE TaskOK'
  BY <1>16, ReturnTask DEF ReadFails, TypeOK, TaskOK
<1>17. ASSUME NEW t \in Tasks, FillBody(t) PROVE TaskOK'
  BY <1>17, RespondTask DEF FillBody, TypeOK, TaskOK, TasksOK, TaskHolds
<1>18. ASSUME NEW t \in Tasks, GetInfo(t) PROVE TaskOK'
  <2>1. CASE Goto(t, "del_find") /\ UNCHANGED locals
    BY <1>18, <2>1 DEF GetInfo, Goto, locals, TypeOK, TaskOK, TasksOK,
       TaskHolds, Obj
  <2>2. CASE Stored(Obj(t)) /\ Respond(t, "ok", {files[Obj(t)].hash})
    <3>1. {files[Obj(t)].hash} \in Bodies
      BY <1>18, <2>2 DEF GetInfo, TypeOK, StoresOK, TaskHolds, ObjectLabels,
         ReadLabels, Stored, Rows, Bodies
    <3> QED BY <1>18, <2>2, <3>1, RespondTask DEF GetInfo, TypeOK, TaskOK
  <2>3. CASE Return(t, "not_found")
    BY <1>18, <2>3, ReturnTask DEF GetInfo, TypeOK, TaskOK
  <2> QED BY <1>18, <2>1, <2>2, <2>3 DEF GetInfo
<1>19. ASSUME NEW t \in Tasks, DelFind(t) PROVE TaskOK'
  <2> USE <1>19
  <2>1. CASE Stored(Obj(t))
    <3>1. files[Obj(t)].path \in Paths
      BY <2>1 DEF DelFind, TypeOK, StoresOK, TaskHolds, Rows, Stored
    <3> QED BY <2>1, <3>1 DEF DelFind, Goto, TypeOK, TaskOK, TasksOK,
         TaskHolds, Obj
  <2>2. CASE ~Stored(Obj(t))
    BY <2>2, AfterDeleteTask DEF DelFind
  <2> QED BY <2>1, <2>2
<1>20. ASSUME NEW t \in Tasks, DelCount(t) PROVE TaskOK'
  BY <1>20 DEF DelCount, Goto, TypeOK, TaskOK, TasksOK, TaskHolds, Obj
<1>21. ASSUME NEW t \in Tasks, DelRow(t) PROVE TaskOK'
  BY <1>21 DEF DelRow, Goto, locals, TypeOK, TaskOK, TasksOK, TaskHolds, Obj
<1>22. ASSUME NEW t \in Tasks, Unlink(t) PROVE TaskOK'
  BY <1>22 DEF Unlink, Goto, locals, TypeOK, TaskOK, TasksOK, TaskHolds, Obj
<1>23. ASSUME NEW t \in Tasks, Invalidate(t) PROVE TaskOK'
  BY <1>23, AfterDeleteTask DEF Invalidate
<1>24. ASSUME NEW t \in Tasks, ListBucket(t) PROVE TaskOK'
  <2> USE <1>24
  <2> DEFINE R == RefsOf({o \in Objects : o.bucket = req[t].bucket})
  <2>1. R \subseteq Refs
    BY RefsOfType DEF TypeOK
  <2> HIDE DEF R
  <2> QED BY <2>1 DEF ListBucket, R, Goto, TypeOK, TaskOK, TasksOK, TaskHolds, Obj
<1>25. ASSUME NEW t \in Tasks, DropBucket(t) PROVE TaskOK'
  <2>1. CASE Goto(t, "bucket_next") /\ UNCHANGED locals
    BY <1>25, <2>1 DEF DropBucket, Goto, locals, TypeOK, TaskOK, TasksOK,
       TaskHolds, Obj
  <2>2. CASE Return(t, "not_found")
    BY <1>25, <2>2, ReturnTask DEF DropBucket, TypeOK, TaskOK
  <2> QED BY <1>25, <2>1, <2>2 DEF DropBucket
<1>26. ASSUME NEW t \in Tasks, BucketNext(t) PROVE TaskOK'
  <2> USE <1>26
  <2>1. PICK f \in todo[t] :
          /\ todo' = [todo EXCEPT ![t] = @ \ {f}]
          /\ req' = [req EXCEPT ![t] = [@ EXCEPT !.obj = f.obj]]
          /\ path' = [path EXCEPT ![t] = f.path]
          /\ \E n \in Unless("db",
                          \E o \in Objects : Stored(o) /\ files[o].path = f.path,
                          FALSE) : refs' = [refs EXCEPT ![t] = n]
    BY DEF BucketNext
  <2>2. f \in Refs
    BY DEF TypeOK, TasksOK
  <2>3. f.obj \in Objects /\ f.path \in Paths
    BY <2>2 DEF Refs
  <2> DEFINE r == [req[t] EXCEPT !.obj = f.obj]
  <2>4. r \in Requests /\ r.obj = f.obj /\ r.bucket = req[t].bucket
    BY <2>3 DEF TypeOK, TasksOK, Requests
  <2>5. req' = [req EXCEPT ![t] = r]
    BY <2>1
  <2> HIDE DEF r
  <2>6. refs' \in [Tasks -> BOOLEAN]
    BY <2>1 DEF TypeOK, TasksOK, Unless
  <2>7. pc'[t] = "bucket_unlink" /\ req'[t] = r /\ path'[t] = f.path
    BY <2>1, <2>5 DEF BucketNext, TypeOK, TasksOK
  <2>8. TaskHolds(t)'
    BY <2>3, <2>4, <2>7 DEF BucketNext, TypeOK, TaskHolds, Obj
  <2> QED BY <2>1, <2>3, <2>4, <2>5, <2>6, <2>8, AssignTask
       DEF BucketNext, TypeOK, TaskOK, TasksOK
<1>27. ASSUME NEW t \in Tasks, BucketUnlink(t) PROVE TaskOK'
  BY <1>27 DEF BucketUnlink, Goto, locals, TypeOK, TaskOK, TasksOK, TaskHolds,
       Obj
<1>28. ASSUME NEW t \in Tasks, BucketInvalidate(t) PROVE TaskOK'
  BY <1>28 DEF BucketInvalidate, Goto, locals, TypeOK, TaskOK, TasksOK,
       TaskHolds, Obj
<1>29. ASSUME NEW t \in Tasks, RmDir(t) PROVE TaskOK'
  BY <1>29, ReturnTask DEF RmDir, TypeOK, TaskOK
<1>30. ASSUME NEW t \in Tasks, StartStore(t) PROVE TaskOK'
  <2> USE <1>30
  <2>1. PICK o \in Objects, c \in Contents, ttl \in TTLs \union {0} :
          Accept(t, "store", "ensure", o.bucket, o, c,
                 IF ttl = 0 THEN 0 ELSE now + ttl)
    BY DEF StartStore
  <2>2. o.bucket \in Buckets /\ (IF ttl = 0 THEN 0 ELSE now + ttl) \in Nat
    BY ConfigAssumption DEF Objects, TypeOK, StoresOK
  <2> QED BY <2>1, <2>2, AcceptTask DEF AllOps
<1>31. ASSUME NEW t \in Tasks, StartOnObject(t) PROVE TaskOK'
  <2> USE <1>31
  <2>1. PICK o \in Objects :
          \/ Accept(t, "get", "get_meta", o.bucket, o, None, 0)
          \/ Accept(t, "info", "info", o.bucket, o, None, 0)
          \/ Accept(t, "delete", "del_find", o.bucket, o, None, 0)
    BY DEF StartOnObject
  <2>2. o.bucket \in Buckets
    BY DEF Objects
  <2> QED BY <2>1, <2>2, AcceptTask DEF AllOps
<1>32. ASSUME NEW t \in Tasks, StartOnBucket(t) PROVE TaskOK'
  BY <1>32, AcceptTask DEF StartOnBucket, AllOps
<1>33. ASSUME NEW t \in Tasks, Drop(t) PROVE TaskOK'
  BY <1>33, FinishTask DEF Drop, TypeOK, TaskOK, TasksOK
<1>34. ASSUME NEW t \in Tasks, DbError(t) PROVE TaskOK'
  <2>1. CASE Return(t, "error")
    BY <1>34, <2>1, ReturnTask DEF DbError, TypeOK, TaskOK
  <2>2. CASE pc[t] \in {"del_find", "del_count", "del_row"} /\ AfterDelete(t, "error")
    BY <1>34, <2>2, AfterDeleteTask DEF DbError
  <2> QED BY <1>34, <2>1, <2>2 DEF DbError
<1>35. CASE SweepList
  BY <1>35, SMTT(30) DEF SweepList, list_expired_files, locals, Goto,
       TypeOK, TaskOK, TasksOK, TaskHolds, Obj
<1>36. CASE SweepNext
  <2> USE <1>36
  <2>1. PICK o \in expired :
          /\ expired' = expired \ {o}
          /\ req' = [req EXCEPT ![Sweeper] =
                       [NoRequest EXCEPT !.op = "sweep", !.bucket = o.bucket,
                                         !.obj = o]]
    BY DEF SweepNext
  <2>2. o \in Objects /\ o.bucket \in Buckets
    BY DEF TypeOK, TasksOK, Objects
  <2> DEFINE r == [NoRequest EXCEPT !.op = "sweep", !.bucket = o.bucket, !.obj = o]
  <2>3. r \in Requests /\ r.obj = o
    BY <2>2 DEF NoRequest, Requests, AllOps
  <2>4. req' = [req EXCEPT ![Sweeper] = r]
    BY <2>1
  <2> HIDE DEF r
  <2>5. TaskHolds(Sweeper)'
    BY <2>2, <2>3, <2>4 DEF SweepNext, TypeOK, TasksOK, TaskHolds, Obj
  <2> QED BY <2>1, <2>3, <2>4, <2>5, AssignTask
       DEF SweepNext, locals, TypeOK, TaskOK, TasksOK
<1>37. CASE SweepDone
  BY <1>37, FinishTask DEF SweepDone, TypeOK, TaskOK, TasksOK
<1>38. CASE PreloadList
  <2> USE <1>38
  <2>1. PICK S \in SUBSET Objects : todo' = [todo EXCEPT ![Preloader] = RefsOf(S)]
    BY DEF PreloadList
  <2>2. RefsOf(S) \subseteq Refs
    BY RefsOfType DEF TypeOK
  <2> QED BY <2>1, <2>2 DEF PreloadList, Goto, TypeOK, TaskOK, TasksOK,
       TaskHolds, Obj
<1>39. CASE PreloadRead
  <2> USE <1>39
  <2>1. PICK f \in todo[Preloader] :
          \/ /\ disk[f.path] # None
             /\ bytes' = [bytes EXCEPT ![Preloader] = disk[f.path]]
             /\ req' = [req EXCEPT ![Preloader] =
                          [NoRequest EXCEPT !.op = "preload", !.obj = f.obj]]
             /\ pc' = [pc EXCEPT ![Preloader] = "preload_fill"]
             /\ UNCHANGED <<todo, out>>
          \/ /\ todo' = [todo EXCEPT ![Preloader] = @ \ {f}]
             /\ UNCHANGED <<control, bytes>>
    BY DEF PreloadRead
  <2>2. f.obj \in Objects /\ disk[f.path] \in {None} \union Bodies
    BY DEF TypeOK, StoresOK, TasksOK, Refs, Paths, DiskNames
  <2> DEFINE r == [NoRequest EXCEPT !.op = "preload", !.obj = f.obj]
  <2>3. r \in Requests /\ r.obj = f.obj
    BY <2>2 DEF NoRequest, Requests, AllOps
  <2>4. CASE disk[f.path] # None /\ pc' = [pc EXCEPT ![Preloader] = "preload_fill"]
         /\ bytes' = [bytes EXCEPT ![Preloader] = disk[f.path]]
         /\ req' = [req EXCEPT ![Preloader] = r] /\ UNCHANGED <<todo, out>>
    <3> HIDE DEF r
    <3>1. TaskHolds(Preloader)'
      BY <2>2, <2>3, <2>4 DEF PreloadRead, TypeOK, TasksOK, TaskHolds, Obj
    <3> QED BY <2>2, <2>3, <2>4, <3>1, AssignTask
         DEF PreloadRead, TypeOK, TaskOK, TasksOK
  <2>5. CASE /\ todo' = [todo EXCEPT ![Preloader] = @ \ {f}]
             /\ UNCHANGED <<control, bytes>>
    BY <2>5 DEF PreloadRead, control, TypeOK, TaskOK, TasksOK, TaskHolds, Obj
  <2> QED BY <2>1, <2>4, <2>5
<1>40. CASE PreloadFill
  BY <1>40 DEF PreloadFill, Goto, TypeOK, TaskOK, TasksOK, TaskHolds, Obj
<1>41. CASE PreloadDone
  BY <1>41, FinishTask DEF PreloadDone, TypeOK, TaskOK, TasksOK
<1>42. CASE Restart
  BY <1>42 DEF Restart, NoRequest, Requests, TypeOK, TaskOK, TasksOK,
       TaskHolds, Obj
<1>43. CASE Evict
  BY <1>43 DEF Evict, control, locals, TypeOK, TaskOK, TasksOK, TaskHolds, Obj
<1>44. CASE Tick
  BY <1>44 DEF Tick, control, locals, TypeOK, TaskOK, TasksOK, TaskHolds, Obj
<1>45. CASE UNCHANGED vars
  BY <1>45 DEF vars, control, locals, TypeOK, TaskOK, TasksOK, TaskHolds, Obj
<1> QED BY <1>1, <1>2, <1>3, <1>4, <1>5, <1>6, <1>7, <1>8, <1>9, <1>10, <1>11,
     <1>12, <1>13, <1>14, <1>15, <1>16, <1>17, <1>18, <1>19, <1>20, <1>21,
     <1>22, <1>23, <1>24, <1>25, <1>26, <1>27, <1>28, <1>29, <1>30, <1>31,
     <1>32, <1>33, <1>34, <1>35, <1>36, <1>37, <1>38, <1>39, <1>40, <1>41,
     <1>42, <1>43, <1>44, <1>45
     DEF Next, Client, StoreStep, WriteStep, ReadStep, DeleteStep, BucketStep, Sweep,
         Preload, Listen

\* The two names of an upload's files are names on disk.
LEMMA DiskNameType ==
    ASSUME NEW o \in Objects
    PROVE  get_file_path(o) \in DiskNames /\ temp_path(o) \in DiskNames
BY DEF get_file_path, temp_path, Objects, DiskNames

\* Removing files leaves the disk and the open files well typed.
LEMMA UnlinkType ==
    ASSUME StoresOK, NEW names, unlink(names), UNCHANGED <<files, buckets, caches,
    clock>>
    PROVE  StoresOK'
<1>1. CASE UNCHANGED <<disk, handle>>
  BY <1>1 DEF StoresOK, caches, clock
<1>2. CASE /\ disk' = [p \in DiskNames |-> IF p \in names THEN None ELSE disk[p]]
           /\ handle' = Move(names, None)
  BY <1>2 DEF StoresOK, Move, caches, clock
<1> QED BY <1>1, <1>2 DEF unlink

\* Every step leaves the database, the disk, the cache and the clock well typed.
LEMMA StoresStep ==
    ASSUME TypeOK, [Next]_vars
    PROVE  StoresOK'
<1>1. ASSUME UNCHANGED <<store, caches, clock, handle>> PROVE StoresOK'
  BY <1>1 DEF TypeOK, StoresOK, store, caches, clock
<1>2. ASSUME NEW t \in Tasks, EnsureBucket(t) PROVE StoresOK'
  BY <1>2 DEF EnsureBucket, TypeOK, StoresOK, TaskHolds, caches, clock
<1>3. ASSUME NEW t \in Tasks, AliasSave(t) PROVE StoresOK'
  <2>1. AliasRow(t) \in Rows
    BY <1>3 DEF AliasSave, AliasRow, Rows, TypeOK, TasksOK, TaskHolds, Requests
  <2> QED BY <1>3, <2>1 DEF AliasSave, save_file, TypeOK, StoresOK, caches, clock
<1>4. ASSUME NEW t \in Tasks, pc[t] \in UploadLabels PROVE NewRow(t) \in Rows
  BY <1>4 DEF NewRow, get_file_path, Rows, Paths, Objects, TypeOK, TasksOK,
     TaskHolds, Obj, Requests
<1>5. ASSUME NEW t \in Tasks, CreateTemp(t) \/ FillTemp(t) \/ RenameTemp(t)
      PROVE  StoresOK'
  <2>1. /\ Obj(t) \in Objects /\ req[t].content \in Contents
        /\ get_file_path(Obj(t)) \in DiskNames /\ temp_path(Obj(t)) \in DiskNames
    BY <1>5, DiskNameType DEF CreateTemp, FillTemp, RenameTemp, TypeOK, TaskHolds
  <2>2. CASE CreateTemp(t)
    BY <2>1, <2>2, NoneAssumption DEF CreateTemp, Bodies, TypeOK, StoresOK, caches,
       clock
  <2>3. CASE FillTemp(t)
    <3>1. ASSUME NEW S \in Bodies PROVE {req[t].content} \union S \in Bodies
      BY <2>1 DEF Bodies
    <3>2. {} \in Bodies /\ (handle[t] # None => disk[handle[t]] \in Bodies)
      BY DEF Bodies, TypeOK, StoresOK
    <3>3. CASE handle[t] = None
      BY <2>3, <3>3 DEF FillTemp, TypeOK, StoresOK, caches, clock
    <3>4. CASE handle[t] # None
      <4>1. PICK S \in Bodies : disk' = [disk EXCEPT ![handle[t]] = S]
        BY <2>3, <3>1, <3>2, <3>4 DEF FillTemp
      <4> QED BY <2>3, <4>1, NoneAssumption DEF FillTemp, TypeOK, StoresOK, caches,
         clock
    <3> QED BY <3>3, <3>4
  <2>4. CASE RenameTemp(t)
    BY <2>1, <2>4 DEF RenameTemp, TypeOK, StoresOK, caches, clock
  <2> QED BY <1>5, <2>2, <2>3, <2>4
<1>6. ASSUME NEW t \in Tasks, SaveRow(t) PROVE StoresOK'
  BY <1>4, <1>6 DEF SaveRow, save_file, TypeOK, StoresOK, caches, clock
<1>7. ASSUME NEW t \in Tasks, SaveFails(t) PROVE StoresOK'
  BY <1>7, UnlinkType DEF SaveFails, TypeOK
<1>8. ASSUME NEW t \in Tasks, WarmMeta(t) PROVE StoresOK'
  BY <1>4, <1>8 DEF WarmMeta, backend_set, Unless, TypeOK, StoresOK, store, clock
<1>9. ASSUME NEW o \in Objects, NEW v \in Bodies, body' \in set_file_content(o, v)
      PROVE  body' \in [Objects -> {None} \union Bodies]
  BY <1>9 DEF set_file_content, backend_set, Unless, TypeOK, StoresOK
<1>10. ASSUME NEW t \in Tasks, WarmBody(t) PROVE StoresOK'
  BY <1>9, <1>10 DEF WarmBody, Bodies, TypeOK, StoresOK, TaskHolds, store, clock
<1>11. ASSUME NEW t \in Tasks, FillMeta(t) PROVE StoresOK'
  BY <1>11 DEF FillMeta, backend_set, Unless, TypeOK, StoresOK, TaskHolds, store,
     clock
<1>12. ASSUME NEW t \in Tasks, FillBody(t) PROVE StoresOK'
  BY <1>9, <1>12 DEF FillBody, TypeOK, StoresOK, TaskHolds, store, clock
<1>13. ASSUME NEW t \in Tasks, DelRow(t) PROVE StoresOK'
  BY <1>13 DEF DelRow, TypeOK, StoresOK, caches, clock
<1>14. ASSUME NEW t \in Tasks, Unlink(t) \/ BucketUnlink(t) PROVE StoresOK'
  BY <1>14, UnlinkType DEF Unlink, BucketUnlink, TypeOK, StoresOK, caches, clock
<1>15. ASSUME NEW t \in Tasks, Invalidate(t) \/ BucketInvalidate(t) PROVE StoresOK'
  BY <1>15 DEF Invalidate, BucketInvalidate, invalidate_file, TypeOK, StoresOK,
     store, caches, clock
<1>16. ASSUME NEW t \in Tasks, DropBucket(t) PROVE StoresOK'
  BY <1>16 DEF DropBucket, TypeOK, StoresOK, caches, clock
<1>17. ASSUME NEW t \in Tasks, RmDir(t) PROVE StoresOK'
  BY <1>17, UnlinkType DEF RmDir, TypeOK
<1>18. ASSUME NEW t \in Tasks,
              StartStore(t) \/ StartOnObject(t) \/ StartOnBucket(t)
       PROVE  StoresOK'
  BY <1>18 DEF StartStore, StartOnObject, StartOnBucket, Accept, TypeOK, StoresOK,
     store, caches
<1>19. CASE PreloadFill
  BY <1>9, <1>19 DEF PreloadFill, TypeOK, StoresOK, TaskHolds, store, clock
<1>20. CASE Restart
  BY <1>20 DEF Restart, TypeOK, StoresOK, store, caches, clock
<1>21. CASE Evict
  BY <1>21 DEF Evict, TypeOK, StoresOK, store, clock
<1>22. CASE Tick
  BY <1>22 DEF Tick, TypeOK, StoresOK, store, caches
<1>23. ASSUME NEW t \in Tasks,
              \/ Dedup(t) \/ AliasSaveRejected(t) \/ RenameFails(t) \/ GetMeta(t)
              \/ GetRow(t) \/ GetBody(t) \/ ReadDisk(t) \/ ReadFails(t)
              \/ GetInfo(t) \/ DelFind(t) \/ DelCount(t) \/ ListBucket(t)
              \/ BucketNext(t) \/ DbError(t)
       PROVE  StoresOK'
  BY <1>1, <1>23 DEF Dedup, AliasSaveRejected, RenameFails, GetMeta, GetRow, GetBody,
     ReadDisk, ReadFails, GetInfo, DelFind, DelCount, ListBucket, BucketNext, DbError
<1>24. ASSUME NEW t \in Tasks, WriteFails(t) \/ Drop(t) PROVE StoresOK'
  BY <1>24 DEF WriteFails, Drop, TypeOK, StoresOK, store, caches, clock
<1>25. CASE \/ Sweep \/ PreloadList \/ PreloadRead \/ PreloadDone
            \/ UNCHANGED vars
  BY <1>1, <1>25 DEF Sweep, SweepList, SweepNext, SweepDone, PreloadList,
     PreloadRead, PreloadDone, vars
<1> QED BY <1>2, <1>3, <1>5, <1>6, <1>7, <1>8, <1>10, <1>11, <1>12, <1>13, <1>14,
     <1>15, <1>16, <1>17, <1>18, <1>19, <1>20, <1>21, <1>22, <1>23, <1>24, <1>25
     DEF Next, Client, StoreStep, WriteStep, ReadStep, DeleteStep, BucketStep,
     Preload, Listen

\* Every step leaves the history variables well typed.
LEMMA GhostsStep ==
    ASSUME TypeOK, [Next]_vars
    PROVE  GhostsOK'
<1>1. ASSUME UNCHANGED ghosts PROVE GhostsOK'
  BY <1>1 DEF TypeOK, GhostsOK, ghosts
<1>2. ASSUME NEW o \in Objects, NoteSaved(o) PROVE GhostsOK'
  BY <1>2 DEF NoteSaved, TypeOK, GhostsOK
<1>3. ASSUME NEW t \in Tasks, AliasSave(t) \/ SaveRow(t) PROVE GhostsOK'
  BY <1>2, <1>3 DEF AliasSave, SaveRow, save_file, TypeOK, TaskHolds
<1>4. ASSUME NEW t \in Tasks, StartStore(t) PROVE GhostsOK'
  BY <1>4 DEF StartStore, Accept, TypeOK, GhostsOK
<1>5. ASSUME NEW t \in Tasks, StartOnObject(t) \/ StartOnBucket(t) PROVE GhostsOK'
  BY <1>1, <1>5 DEF StartOnObject, StartOnBucket, Accept, ghosts
<1>6. ASSUME NEW t \in Tasks, since' = [since EXCEPT ![t] = {}],
             UNCHANGED <<sent, renewed>>
      PROVE  GhostsOK'
  BY <1>6 DEF TypeOK, GhostsOK
<1>7. ASSUME NEW t \in Tasks,
             DelCount(t) \/ Unlink(t) \/ BucketNext(t) \/ BucketUnlink(t) \/ Drop(t)
      PROVE  GhostsOK'
  BY <1>6, <1>7 DEF DelCount, Unlink, BucketNext, BucketUnlink, Drop
<1>8. CASE SweepList \/ SweepDone \/ Restart
  BY <1>8 DEF SweepList, SweepDone, Restart, TypeOK, GhostsOK
<1>9. ASSUME NEW t \in Tasks,
             \/ EnsureBucket(t) \/ Dedup(t) \/ AliasSaveRejected(t) \/ WriteStep(t)
             \/ SaveFails(t) \/ WarmMeta(t) \/ WarmBody(t)
             \/ ReadStep(t) \/ DelFind(t) \/ DelRow(t) \/ Invalidate(t)
             \/ ListBucket(t) \/ DropBucket(t) \/ BucketInvalidate(t) \/ RmDir(t)
             \/ DbError(t)
      PROVE  GhostsOK'
  BY <1>1, <1>9 DEF EnsureBucket, Dedup, AliasSaveRejected, WriteStep, CreateTemp,
     FillTemp, RenameTemp, RenameFails, WriteFails, SaveFails, WarmMeta, WarmBody,
     ReadStep, GetMeta, GetRow, FillMeta, GetBody, ReadDisk, ReadFails, FillBody,
     GetInfo, DelFind, DelRow, Invalidate, ListBucket, DropBucket, BucketInvalidate,
     RmDir, DbError
<1>10. CASE SweepNext \/ Preload \/ Evict \/ Tick \/ UNCHANGED vars
  BY <1>1, <1>10 DEF SweepNext, Preload, PreloadList, PreloadRead, PreloadFill,
     PreloadDone, Evict, Tick, vars
<1> QED BY <1>3, <1>4, <1>5, <1>7, <1>8, <1>9, <1>10
     DEF Next, Client, StoreStep, DeleteStep, BucketStep, Sweep, Listen

\* The initial state is well typed.
LEMMA InitType == Init => TypeOK
<1> SUFFICES ASSUME Init PROVE TypeOK
  OBVIOUS
<1>1. StoresOK /\ GhostsOK
  BY DEF Init, StoresOK, GhostsOK
<1>2. TasksOK
  BY DEF Init, TasksOK, NoRequest, Requests, Answers, Bodies
<1>3. \A t \in Tasks : TaskHolds(t)
  BY DEF Init, TaskHolds
<1> QED BY <1>1, <1>2, <1>3 DEF TypeOK

\* Type correctness: in every reachable state every store and every handler's
\* local holds a value of its type, and a handler about to use a row, a path or
\* bytes has them, for every interleaving of get_file, store_file, delete_file,
\* delete_bucket, the sweep and the preloader.
THEOREM TypeCorrect == Spec => []TypeOK
<1>1. Init => TypeOK
  BY InitType
<1>2. TypeOK /\ [Next]_vars => TypeOK'
  BY StoresStep, GhostsStep, TaskStep DEF TypeOK, TaskOK
<1> QED BY <1>1, <1>2, PTL DEF Spec

=============================================================================
