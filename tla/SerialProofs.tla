---------------------------- MODULE SerialProofs ----------------------------
(***************************************************************************)
(* What the storage manager guarantees when requests do not overlap.       *)
(*                                                                         *)
(* First, with deduplication and with file-system errors, dropped requests *)
(* and restarts at every step: no row ever loses its bytes.  Then, without *)
(* deduplication and without faults: rows, bytes and cache agree whenever  *)
(* nothing is in flight, and every step is a step of ObjectMap.            *)
(***************************************************************************)
EXTENDS StorageRefinement, OwnBytesProofs

USE DEF Tasks, Labels, ObjectLabels, UploadLabels, ReadLabels, DeleteLabels,
        BucketLabels

-----------------------------------------------------------------------------
(* One task at a time.                                                     *)

Alone == \A t, u \in Tasks : pc[t] # "idle" /\ pc[u] # "idle" => t = u

\* A step of task t.
StepOf(t) ==
    \/ t \in Clients /\ Client(t)
    \/ t \in Clients \union {Sweeper} /\ (DeleteStep(t) \/ DbError(t))
    \/ t = Sweeper /\ Sweep
    \/ t = Preloader /\ Preload

Quiet(t) == \A x \in Tasks \ {t} : pc[x] = "idle" /\ pc'[x] = "idle"

\* A step is one of a task, or of the environment.
LEMMA WhoSteps ==
    ASSUME [Next]_vars
    PROVE  \/ \E t \in Tasks : StepOf(t)
           \/ Restart \/ Evict \/ Tick \/ UNCHANGED vars
BY DEF Next, StepOf, Listen

\* A task that steps was in flight, or nothing was; it moves nobody else.
LEMMA MovesOnlyItself ==
    ASSUME TypeOK, ~Overlap, NEW t \in Tasks, StepOf(t)
    PROVE  /\ pc[t] # "idle" \/ AllIdle
           /\ \A x \in Tasks \ {t} : pc'[x] = pc[x]
<1> DEFINE Others == \A x \in Tasks \ {t} : pc'[x] = pc[x]
           Started == pc[t] # "idle" \/ AllIdle
<1>1. ASSUME NEW label, pc' = [pc EXCEPT ![t] = label] PROVE Others
  BY <1>1 DEF TypeOK, TasksOK
<1>2. ASSUME NEW label, Goto(t, label) PROVE Others
  BY <1>1, <1>2 DEF Goto
<1>3. ASSUME Finish(t) PROVE Others
  BY <1>1, <1>3 DEF Finish
<1>4. ASSUME NEW answer, AfterDelete(t, answer) PROVE Others
  BY <1>2, <1>3, <1>4 DEF AfterDelete, Return, Respond
<1>5. CASE StartStore(t) \/ StartOnObject(t) \/ StartOnBucket(t)
  <2>1. PICK op, label, b, o, c, e : Accept(t, op, label, b, o, c, e)
    BY <1>5 DEF StartStore, StartOnObject, StartOnBucket
  <2> QED BY <1>1, <2>1 DEF Accept, MayStart
<1>6. CASE StoreStep(t)
  BY <1>2, <1>3, <1>6 DEF StoreStep, EnsureBucket, Dedup, AliasSave,
     AliasSaveRejected, WriteStep, CreateTemp, FillTemp, RenameTemp, RenameFails,
     WriteFails, SaveRow, SaveFails, WarmMeta, WarmBody, Return, Respond
<1>7. CASE ReadStep(t)
  BY <1>2, <1>3, <1>7 DEF ReadStep, GetMeta, GetRow, FillMeta, GetBody, ReadDisk,
     ReadFails, FillBody, GetInfo, AfterRow, Return, Respond
<1>8. CASE DeleteStep(t) \/ DbError(t)
  BY <1>2, <1>3, <1>4, <1>8 DEF DeleteStep, DelFind, DelCount, DelRow, Unlink,
     Invalidate, DbError, Return, Respond
<1>9. CASE BucketStep(t)
  BY <1>1, <1>2, <1>3, <1>9 DEF BucketStep, ListBucket, DropBucket, BucketNext,
     BucketUnlink, BucketInvalidate, RmDir, Return, Respond
<1>10. CASE Drop(t)
  BY <1>3, <1>10 DEF Drop
<1>11. CASE t = Sweeper /\ Sweep
  BY <1>1, <1>2, <1>3, <1>11 DEF Sweep, SweepList, SweepNext, SweepDone, MayStart
<1>12. CASE t = Preloader /\ Preload
  BY <1>1, <1>2, <1>3, <1>12 DEF Preload, PreloadList, PreloadRead, PreloadFill,
     PreloadDone, MayStart, control
<1> QED BY <1>5, <1>6, <1>7, <1>8, <1>9, <1>10, <1>11, <1>12 DEF StepOf, Client

\* While a task steps, every other one is idle.
LEMMA QuietStep ==
    ASSUME TypeOK, Alone, ~Overlap, NEW t \in Tasks, StepOf(t)
    PROVE  Quiet(t)
BY MovesOnlyItself DEF Alone, AllIdle, Quiet

\* Requests that do not start beside each other never run beside each other.
LEMMA AloneStep ==
    ASSUME TypeOK, Alone, ~Overlap, [Next]_vars
    PROVE  Alone'
<1>1. ASSUME NEW t \in Tasks, StepOf(t) PROVE Alone'
  BY <1>1, QuietStep DEF Quiet, Alone
<1>2. CASE Restart
  BY <1>2 DEF Restart, Alone
<1>3. CASE Evict \/ Tick \/ UNCHANGED vars
  BY <1>3 DEF Evict, Tick, control, vars, Alone
<1> QED BY <1>1, <1>2, <1>3, WhoSteps

-----------------------------------------------------------------------------
(* No row loses its bytes.                                                 *)
(*                                                                         *)
(* NoDangling alone is not inductive: an upload relies on the file it      *)
(* found (alias_save) or wrote (save) until its row is saved, a deletion   *)
(* on nobody else pointing at the path it counted.                         *)

BackedTask(t) ==
    /\ pc[t] \notin BucketLabels
    /\ pc[t] = "ensure" /\ req[t].op = "store" => req[t].bucket = Obj(t).bucket
    /\ pc[t] \in UploadLabels => Obj(t).bucket \in buckets
    /\ pc[t] = "alias_save" => disk[row[t].path] # None
    /\ pc[t] = "save" => disk[get_file_path(Obj(t))] # None
    /\ pc[t] = "del_row" /\ ~refs[t] =>
         \A o \in Objects \ {Obj(t)} : Stored(o) => files[o].path # path[t]
    /\ pc[t] = "unlink" /\ ~refs[t] =>
         \A o \in Objects : Stored(o) => files[o].path # path[t]

Backed == Alone /\ NoDangling /\ \A t \in Tasks : BackedTask(t)

\* A path of some object that is a temporary name is one of the same object.
LEMMA PathIsNotTemp ==
    ASSUME PrivateTempNames, NEW o \in Objects, NEW p \in Paths, p = temp_path(o)
    PROVE  p = get_file_path(o)
<1>1. PICK b \in Buckets, k \in Keys : p = <<b, k>>
  BY DEF Paths
<1>2. b = o.bucket /\ k = TempName[o.key] /\ o.key \in Keys
  BY <1>1 DEF temp_path, Objects
<1>3. k = o.key
  BY <1>1, <1>2 DEF PrivateTempNames
<1> QED BY <1>1, <1>2, <1>3 DEF get_file_path

\* A step that takes nothing from the disk and adds no row loses no bytes.
LEMMA BackedRows ==
    ASSUME TypeOK, NoDangling,
           \A o \in Objects : files'[o] # None => files'[o] = files[o],
           \A n \in DiskNames : disk[n] # None => disk'[n] # None
    PROVE  NoDangling'
<1> SUFFICES ASSUME NEW o \in Objects, files'[o] # None
             PROVE  disk'[files'[o].path] # None
  BY DEF NoDangling, Stored
<1>1. files'[o] = files[o] /\ files[o] # None /\ files[o].path \in Paths
  BY DEF TypeOK, StoresOK, Rows
<1>2. files[o].path \in DiskNames
  BY <1>1 DEF Paths, DiskNames
<1> QED BY <1>1, <1>2 DEF NoDangling, Stored

\* A task that goes on to a step that relies on nothing.
LEMMA BackedFree ==
    ASSUME TypeOK, NEW t \in Tasks, NEW label,
           pc' = [pc EXCEPT ![t] = label],
           label \notin BucketLabels \union UploadLabels
                          \union {"ensure", "del_row", "unlink"}
    PROVE  BackedTask(t)'
BY DEF BackedTask, TypeOK, TasksOK

\* A finished task relies on nothing.
LEMMA BackedFinish ==
    ASSUME TypeOK, NEW t \in Tasks, Finish(t) PROVE BackedTask(t)'
BY BackedFree DEF Finish

\* A step of the task in flight leaves every row its bytes, and leaves the task
\* what it relies on.
LEMMA BackedStep ==
    ASSUME TypeOK, TypeOK', Backed, NEW t \in Tasks, StepOf(t), ~Overlap,
           PrivateTempNames, "db" \notin Faults, "delete_bucket" \notin Ops
    PROVE  NoDangling' /\ BackedTask(t)'
<1> DEFINE Goal == NoDangling' /\ BackedTask(t)'
<1>1. ASSUME UNCHANGED <<files, disk>> PROVE NoDangling'
  BY <1>1 DEF Backed, NoDangling, Stored
<1>2. ASSUME NEW answer, AfterDelete(t, answer) PROVE BackedTask(t)'
  BY <1>2, BackedFree, BackedFinish DEF AfterDelete, Return, Respond, Goto
<1>3. BackedTask(t)
  BY DEF Backed
<1>4. pc[t] \in UploadLabels => /\ Obj(t) \in Objects
                                /\ get_file_path(Obj(t)) \in DiskNames
                                /\ temp_path(Obj(t)) \in DiskNames
  BY DiskNameType DEF TypeOK, TaskHolds
<1>5. CASE StartStore(t)
  <2>1. PICK o \in Objects :
          \E c, e : Accept(t, "store", "ensure", o.bucket, o, c, e)
    BY <1>5 DEF StartStore
  <2>2. BackedTask(t)'
    BY <2>1 DEF Accept, BackedTask, Obj, TypeOK, TasksOK
  <2> QED BY <1>1, <2>1, <2>2 DEF Accept, store
<1>6. CASE StartOnObject(t) \/ StartOnBucket(t)
  <2>1. PICK op \in {"get", "info", "delete", "create_bucket"},
             label \in {"get_meta", "info", "del_find", "ensure"} :
          \E b, o : Accept(t, op, label, b, o, None, 0)
    BY <1>6 DEF StartOnObject, StartOnBucket, Accept
  <2>2. BackedTask(t)'
    BY <2>1 DEF Accept, BackedTask, TypeOK, TasksOK
  <2> QED BY <1>1, <2>1, <2>2 DEF Accept, store
<1>7. CASE EnsureBucket(t)
  <2>1. NoDangling'
    BY <1>1, <1>7 DEF EnsureBucket
  <2>2. CASE req[t].op = "store" /\ Goto(t, "dedup")
    BY <1>3, <1>7, <2>1, <2>2 DEF EnsureBucket, Goto, BackedTask, Obj, TypeOK, TasksOK
  <2> QED BY <1>7, <2>1, <2>2, BackedFinish DEF EnsureBucket, Return, Respond
<1>8. CASE Dedup(t)
  <2>1. NoDangling'
    BY <1>1, <1>8 DEF Dedup, store
  <2>2. CASE Goto(t, "create")
    BY <1>3, <1>8, <2>1, <2>2 DEF Dedup, store, Goto, BackedTask, Obj, TypeOK, TasksOK
  <2>3. ASSUME Goto(t, "alias_save"), NEW o \in Objects, Stored(o),
               row' = [row EXCEPT ![t] = files[o]]
        PROVE  BackedTask(t)'
    BY <1>3, <1>8, <2>3 DEF Dedup, store, Goto, Backed, NoDangling, BackedTask, Obj,
       TypeOK, TasksOK
  <2> QED BY <1>8, <2>1, <2>2, <2>3, BackedFinish DEF Dedup, Return, Respond
<1>9. CASE AliasSave(t)
  <2>1. Obj(t) \in Objects /\ files' = [files EXCEPT ![Obj(t)] = AliasRow(t)]
        /\ AliasRow(t).path = row[t].path /\ disk' = disk
        /\ disk[row[t].path] # None
    BY <1>3, <1>4, <1>9 DEF AliasSave, save_file, AliasRow, BackedTask
  <2>2. NoDangling'
    BY <2>1 DEF Backed, NoDangling, Stored, TypeOK, StoresOK
  <2> QED BY <1>9, <2>2, BackedFinish DEF AliasSave, Return, Respond
<1>10. CASE AliasSaveRejected(t) \/ RenameFails(t) \/ WriteFails(t) \/ WarmBody(t)
            \/ ReadFails(t) \/ FillBody(t)
  BY <1>1, <1>10, BackedFinish DEF AliasSaveRejected, RenameFails, WriteFails, WarmBody,
     ReadFails, FillBody, Return, Respond, store
<1>11. CASE SaveFails(t)
  BY <1>3, <1>11 DEF SaveFails, BackedTask
<1>12. CASE CreateTemp(t)
  <2>1. \A n \in DiskNames : disk[n] # None => disk'[n] # None
    BY <1>4, <1>12, NoneAssumption DEF CreateTemp, TypeOK, StoresOK, Bodies
  <2>2. NoDangling'
    BY <1>12, <2>1, BackedRows DEF CreateTemp, Backed
  <2> QED BY <1>3, <1>12, <2>2 DEF CreateTemp, Goto, BackedTask, Obj, TypeOK, TasksOK
<1>13. CASE FillTemp(t)
  <2>1. \A n \in DiskNames : disk[n] # None => disk'[n] # None
    <3>1. CASE disk' = disk
      BY <3>1
    <3>2. ASSUME handle[t] # None, NEW rest \in {{}, disk[handle[t]]},
                 disk' = [disk EXCEPT ![handle[t]] = {req[t].content} \union rest]
          PROVE  \A n \in DiskNames : disk[n] # None => disk'[n] # None
      <4>1. handle[t] \in DiskNames /\ disk[handle[t]] \in Bodies
        BY <3>2 DEF TypeOK, StoresOK
      <4>2. req[t].content \in Contents
        BY <1>13 DEF FillTemp, TypeOK, TaskHolds
      <4>3. {req[t].content} \union rest \in Bodies
        BY <3>2, <4>1, <4>2 DEF Bodies
      <4> QED BY <3>2, <4>1, <4>3, NoneAssumption DEF TypeOK, StoresOK
    <3> QED BY <1>13, <3>1, <3>2 DEF FillTemp
  <2>2. NoDangling'
    BY <1>13, <2>1, BackedRows DEF FillTemp, Backed
  <2> QED BY <1>3, <1>13, <2>2 DEF FillTemp, Goto, BackedTask, Obj, TypeOK, TasksOK
<1>14. CASE RenameTemp(t)
  <2> DEFINE p == get_file_path(Obj(t))
             temp == temp_path(Obj(t))
  <2>1. /\ disk[temp] # None /\ files' = files /\ buckets' = buckets
        /\ disk' = [disk EXCEPT ![temp] = None, ![p] = disk[temp]]
        /\ Goto(t, "save") /\ Obj(t) \in Objects
    BY <1>4, <1>14 DEF RenameTemp
  <2>2. disk'[p] # None
    BY <1>4, <1>14, <2>1 DEF RenameTemp, TypeOK, StoresOK
  <2>3. ASSUME NEW o \in Objects, Stored(o) PROVE disk'[files[o].path] # None
    <3>1. files[o].path \in Paths /\ files[o].path \in DiskNames
          /\ disk[files[o].path] # None
      BY <2>3 DEF Backed, NoDangling, Stored, TypeOK, StoresOK, Rows, Paths, DiskNames
    <3>2. CASE files[o].path = temp
      BY <2>1, <2>2, <3>1, <3>2, PathIsNotTemp
    <3>3. CASE files[o].path # temp
      BY <2>1, <2>2, <3>1, <3>3 DEF TypeOK, StoresOK
    <3> QED BY <3>2, <3>3
  <2>4. NoDangling'
    BY <2>1, <2>3 DEF NoDangling, Stored
  <2>5. BackedTask(t)'
    BY <1>3, <1>14, <2>1, <2>2 DEF Goto, RenameTemp, BackedTask, Obj, TypeOK, TasksOK
  <2> QED BY <2>4, <2>5
<1>15. CASE SaveRow(t)
  <2>1. Obj(t) \in Objects /\ files' = [files EXCEPT ![Obj(t)] = NewRow(t)]
        /\ NewRow(t).path = get_file_path(Obj(t)) /\ disk' = disk
        /\ disk[get_file_path(Obj(t))] # None
    BY <1>3, <1>4, <1>15 DEF SaveRow, save_file, NewRow, BackedTask
  <2>2. NoDangling'
    BY <2>1 DEF Backed, NoDangling, Stored, TypeOK, StoresOK
  <2> QED BY <1>3, <1>15, <2>2 DEF SaveRow, Goto, BackedTask, Obj, TypeOK, TasksOK
<1>16. CASE WarmMeta(t)
  <2>1. NoDangling'
    BY <1>1, <1>16 DEF WarmMeta, store
  <2> QED BY <1>3, <1>16, <2>1 DEF WarmMeta, store, Goto, BackedTask, Obj, TypeOK, TasksOK
<1>17. CASE GetMeta(t) \/ GetRow(t) \/ FillMeta(t) \/ GetBody(t) \/ ReadDisk(t)
            \/ GetInfo(t)
  <2>1. NoDangling'
    BY <1>1, <1>17 DEF GetMeta, GetRow, FillMeta, GetBody, ReadDisk, GetInfo, store
  <2>2. \/ Finish(t)
        \/ \E label \in ReadLabels \union {"del_find"} : Goto(t, label)
    BY <1>17 DEF GetMeta, GetRow, FillMeta, GetBody, ReadDisk, GetInfo, AfterRow,
       Return, Respond
  <2> QED BY <2>1, <2>2, BackedFree, BackedFinish DEF Goto
<1>18. CASE DelFind(t)
  BY <1>1, <1>2, <1>18, BackedFree DEF DelFind, Goto, store
<1>19. CASE DelCount(t)
  <2>1. NoDangling'
    BY <1>1, <1>19 DEF DelCount, store
  <2>2. BackedTask(t)'
    BY <1>3, <1>19 DEF DelCount, Goto, store, BackedTask, Obj, Stored, TypeOK, TasksOK
  <2> QED BY <2>1, <2>2
<1>20. CASE DelRow(t)
  <2>1. Obj(t) \in Objects /\ files' = [files EXCEPT ![Obj(t)] = None] /\ disk' = disk
    BY <1>20 DEF DelRow, TypeOK, TaskHolds
  <2>2. NoDangling'
    BY <2>1, BackedRows DEF Backed, TypeOK, StoresOK
  <2>3. BackedTask(t)'
    BY <1>3, <1>20, <2>1 DEF DelRow, Goto, locals, BackedTask, Obj, Stored, TypeOK,
       TasksOK, StoresOK
  <2> QED BY <2>2, <2>3
<1>21. CASE Unlink(t)
  <2>1. files' = files
    BY <1>21 DEF Unlink
  <2>2. CASE disk' = disk
    BY <1>1, <1>21, <2>1, <2>2, BackedFree DEF Unlink, Goto
  <2>3. CASE /\ ~refs[t]
             /\ disk' = [p \in DiskNames |-> IF p \in {path[t]} THEN None ELSE disk[p]]
    <3>1. ASSUME NEW o \in Objects, Stored(o) PROVE disk'[files[o].path] # None
      <4>1. files[o].path \in DiskNames /\ disk[files[o].path] # None
        BY <3>1 DEF Backed, NoDangling, Stored, TypeOK, StoresOK, Rows, Paths, DiskNames
      <4>2. files[o].path # path[t]
        BY <1>3, <1>21, <2>3, <3>1 DEF Unlink, BackedTask
      <4> QED BY <2>3, <4>1, <4>2
    <3> QED BY <1>21, <2>1, <3>1, BackedFree DEF NoDangling, Stored, Unlink, Goto
  <2> QED BY <1>21, <2>2, <2>3 DEF Unlink, unlink
<1>22. CASE Invalidate(t)
  BY <1>1, <1>2, <1>22 DEF Invalidate, store
<1>23. CASE DbError(t) \/ BucketStep(t)
  BY <1>3, <1>23 DEF DbError, BucketStep, ListBucket, DropBucket, BucketNext,
     BucketUnlink, BucketInvalidate, RmDir, BackedTask
<1>24. CASE Drop(t)
  BY <1>1, <1>24, BackedFinish DEF Drop, store
<1>25. CASE t = Sweeper /\ Sweep
  <2>1. UNCHANGED <<files, disk>>
    BY <1>25 DEF Sweep, SweepList, SweepNext, SweepDone, store
  <2> QED BY <1>1, <1>25, <2>1, BackedFree, BackedFinish DEF Sweep, SweepList, SweepNext,
          SweepDone, Goto
<1>26. CASE t = Preloader /\ Preload
  <2>1. UNCHANGED <<files, disk>>
    BY <1>26 DEF Preload, PreloadList, PreloadRead, PreloadFill, PreloadDone, store
  <2>2. \/ Finish(t)
        \/ \E label \in {"preload_read", "preload_fill"} :
             pc' = [pc EXCEPT ![t] = label]
    BY <1>26 DEF Preload, PreloadList, PreloadRead, PreloadFill, PreloadDone, Goto,
       control, TypeOK, TasksOK
  <2> QED BY <1>1, <2>1, <2>2, BackedFree, BackedFinish
<1> QED BY <1>5, <1>6, <1>7, <1>8, <1>9, <1>10, <1>11, <1>12, <1>13, <1>14, <1>15,
       <1>16, <1>17, <1>18, <1>19, <1>20, <1>21, <1>22, <1>23, <1>24, <1>25, <1>26
       DEF StepOf, Client, StoreStep, WriteStep, ReadStep, DeleteStep

\* One request at a time, with a database that answers and no bucket deletion: no
\* row ever points at bytes that are not there.  Deduplication may be on, the file
\* system and the cache may fail, clients may hang up and the process may restart
\* at any step: the order "bytes before row" of store_file and "row before bytes"
\* of delete_file, with its reference count, is enough.
THEOREM RowsKeepTheirBytes ==
    ASSUME ~Overlap, PrivateTempNames, "db" \notin Faults, "delete_bucket" \notin Ops
    PROVE  Spec => []NoDangling
<1>1. Init => Backed
  BY DEF Init, Backed, Alone, NoDangling, Stored, BackedTask
<1>2. TypeOK /\ TypeOK' /\ Backed /\ [Next]_vars => Backed'
  <2> SUFFICES ASSUME TypeOK, TypeOK', Backed, [Next]_vars PROVE Backed'
    OBVIOUS
  <2>1. Alone'
    BY AloneStep DEF Backed
  <2>2. ASSUME NEW t \in Tasks, StepOf(t) PROVE NoDangling' /\ \A x \in Tasks : BackedTask(x)'
    <3>1. NoDangling' /\ BackedTask(t)'
      BY <2>2, BackedStep
    <3>2. ASSUME NEW x \in Tasks, x # t PROVE BackedTask(x)'
      <4>1. pc'[x] = "idle"
        BY <2>2, <3>2, QuietStep DEF Quiet, Backed
      <4> QED BY <4>1 DEF BackedTask
    <3> QED BY <3>1, <3>2
  <2>3. CASE Restart
    BY <2>1, <2>3 DEF Restart, store, Backed, NoDangling, Stored, BackedTask
  <2>4. CASE Evict \/ Tick \/ UNCHANGED vars
    BY <2>1, <2>4 DEF Evict, Tick, vars, store, control, locals, Backed, NoDangling, Stored,
       BackedTask, Obj
  <2> QED BY <2>1, <2>2, <2>3, <2>4, WhoSteps DEF Backed
<1>3. Backed => NoDangling
  BY DEF Backed
<1> QED BY <1>1, <1>2, <1>3, TypeCorrect, PTL DEF Spec

-----------------------------------------------------------------------------
(* Without deduplication and without faults: rows, bytes and cache agree.  *)
(*                                                                         *)
(* The properties speak of states at rest.  The invariant says which       *)
(* objects disagree while a task is at each of its steps, and what the     *)
(* task needs to know to make them agree again.                            *)

BucketTail == {"bucket_next", "bucket_unlink", "bucket_invalidate"}

\* The objects whose file, cached row and cached body task t is replacing or
\* removing.
Writing(t, o) ==
    \/ pc[t] \in {"fill", "rename", "save", "unlink"} /\ Obj(t) = o
    \/ pc[t] \in BucketTail /\ o.bucket = req[t].bucket
Filling(t, o) == pc[t] \in {"fill", "rename"} /\ Obj(t) = o
MetaLags(t, o) ==
    \/ pc[t] \in {"warm_meta", "unlink", "invalidate", "bucket_unlink",
                  "bucket_invalidate"} /\ Obj(t) = o
    \/ pc[t] \in BucketTail /\ \E f \in todo[t] : f.obj = o
BodyLags(t, o) == MetaLags(t, o) \/ (pc[t] = "warm_body" /\ Obj(t) = o)

DiskAgrees(o) ==
    disk[get_file_path(o)] = IF Stored(o) THEN {files[o].hash} ELSE None
TempGone(o) == temp_path(o) # get_file_path(o) => disk[temp_path(o)] = None
MetaAgrees(o) == meta[o] # None => meta[o] = files[o]
BodyAgrees(o) == body[o] # None => Stored(o) /\ body[o] = {files[o].hash}

\* Every object agrees, except for what task t is about to set right.
Agree(t) ==
    \A o \in Objects :
        /\ DiskAgrees(o) \/ Writing(t, o)
        /\ TempGone(o) \/ Filling(t, o)
        /\ MetaAgrees(o) \/ MetaLags(t, o)
        /\ BodyAgrees(o) \/ BodyLags(t, o)

\* What a task relies on: an upload on the file it writes and on its bucket, a
\* reader on its copy of the row, a deletion on the row it found, delete_bucket on
\* its listing, the sweep and the preloader on the rows they visit.
UploadRelies(t) ==
    /\ pc[t] = "ensure" /\ req[t].op = "store" => req[t].bucket = Obj(t).bucket
    /\ pc[t] \in UploadLabels => Obj(t).bucket \in buckets
    /\ pc[t] = "fill" =>
         handle[t] = temp_path(Obj(t)) /\ disk[temp_path(Obj(t))] = {}
    /\ pc[t] = "rename" => disk[temp_path(Obj(t))] = {req[t].content}
    /\ pc[t] = "save" => disk[get_file_path(Obj(t))] = {req[t].content}
    /\ pc[t] \in {"warm_meta", "warm_body"} => files[Obj(t)] = NewRow(t)

ReaderRelies(t) ==
    /\ pc[t] = "info" => req[t].op = "info"
    /\ pc[t] \in {"fill_meta", "get_body", "read_disk", "fill_body"}
         => row[t] = files[Obj(t)]
    /\ pc[t] \in {"fill_body", "preload_fill"}
         => Stored(Obj(t)) /\ bytes[t] = {files[Obj(t)].hash}
    /\ pc[t] \in {"preload_read", "preload_fill"}
         => \A f \in todo[t] : Stored(f.obj)

DeletionRelies(t) ==
    /\ pc[t] \in DeleteLabels => req[t].op \in {"delete", "get", "info", "sweep"}
    /\ pc[t] \in {"del_find", "del_count", "del_row"} /\ req[t].op # "delete"
         => (Stored(Obj(t)) => Expired(files[Obj(t)]))
    /\ pc[t] \in {"del_count", "del_row"} => Stored(Obj(t))
    /\ pc[t] \in {"del_count", "del_row", "unlink"} => path[t] = get_file_path(Obj(t))
    /\ pc[t] \in {"del_row", "unlink"} => ~refs[t]
    /\ pc[t] \in {"unlink", "invalidate"} => ~Stored(Obj(t))

SweepRelies(t) ==
    t = Sweeper /\ pc[t] # "idle" => \A o \in expired : Stored(o) => Due(files[o])

BucketRelies(t) ==
    /\ pc[t] \in BucketTail \union {"drop_bucket"} =>
         \A f \in todo[t] : f.obj.bucket = req[t].bucket
    /\ pc[t] = "drop_bucket" =>
         \A o \in Objects : o.bucket = req[t].bucket /\ Stored(o) =>
           \E f \in todo[t] : f.obj = o
    /\ pc[t] \in BucketTail =>
         \A o \in Objects : o.bucket = req[t].bucket => ~Stored(o)
    /\ pc[t] \in {"bucket_unlink", "bucket_invalidate"} =>
         Obj(t).bucket = req[t].bucket
    /\ pc[t] = "bucket_unlink" => ~refs[t] /\ path[t] = get_file_path(Obj(t))

Relies(t) ==
    /\ UploadRelies(t) /\ ReaderRelies(t) /\ DeletionRelies(t)
    /\ SweepRelies(t) /\ BucketRelies(t)

\* The invariant: some task is the only one in flight, everything agrees but for
\* what it is about to set right, and it has what it relies on.
Coherent ==
    \E t \in Tasks :
        /\ \A x \in Tasks \ {t} : pc[x] = "idle"
        /\ Agree(t) /\ Relies(t)

\* The instance the coherence theorems are about.
Sequential ==
    /\ ~Overlap /\ ~EnableDeduplication /\ Faults = {} /\ Cacheable = Contents
    /\ PrivateTempNames

\* Neither name of an object is a name of another one.
LEMMA NamesApart ==
    ASSUME PrivateTempNames, NEW o \in Objects, NEW p \in Objects, o # p
    PROVE  /\ get_file_path(o) # get_file_path(p) /\ get_file_path(o) # temp_path(p)
           /\ temp_path(o) # get_file_path(p) /\ temp_path(o) # temp_path(p)
BY NamesPrivate DEF Names

\* delete_bucket goes on to the next listed object, for the same bucket.
LEMMA NextListed ==
    ASSUME TypeOK, NEW t \in Tasks, BucketNext(t)
    PROVE  \E f \in todo[t] :
             /\ todo' = [todo EXCEPT ![t] = @ \ {f}]
             /\ path'[t] = f.path /\ f.obj \in Objects
             /\ req' = [req EXCEPT ![t] = req'[t]]
             /\ req'[t].obj = f.obj /\ req'[t].bucket = req[t].bucket
             /\ req'[t].op = req[t].op /\ req'[t].content = req[t].content
             /\ req'[t].expires = req[t].expires
<1>1. PICK f \in todo[t] :
        /\ todo' = [todo EXCEPT ![t] = @ \ {f}]
        /\ req' = [req EXCEPT ![t] = [@ EXCEPT !.obj = f.obj]]
        /\ path' = [path EXCEPT ![t] = f.path]
  BY DEF BucketNext
<1>2. req[t] \in Requests /\ req'[t] = [req[t] EXCEPT !.obj = f.obj]
      /\ path'[t] = f.path /\ f.obj \in Objects
  BY <1>1 DEF TypeOK, TasksOK, Refs
<1>3. /\ req'[t].obj = f.obj /\ req'[t].bucket = req[t].bucket
      /\ req'[t].op = req[t].op /\ req'[t].content = req[t].content
      /\ req'[t].expires = req[t].expires
  BY <1>2 DEF Requests
<1>4. req' = [req EXCEPT ![t] = req'[t]]
  BY <1>1, <1>2 DEF TypeOK, TasksOK
<1> QED BY <1>1, <1>2, <1>3, <1>4

\* The files agree with the rows after every step of the task in flight.
LEMMA DiskStep ==
    ASSUME TypeOK, OwnBytes, Sequential, NEW t \in Tasks, Agree(t), Relies(t), StepOf(t)
    PROVE  \A o \in Objects : /\ DiskAgrees(o)' \/ Writing(t, o)'
                              /\ TempGone(o)' \/ Filling(t, o)'
<1> SUFFICES ASSUME NEW o \in Objects
             PROVE  /\ DiskAgrees(o)' \/ Writing(t, o)'
                    /\ TempGone(o)' \/ Filling(t, o)'
  OBVIOUS
<1> DEFINE Goal == /\ DiskAgrees(o)' \/ Writing(t, o)'
                   /\ TempGone(o)' \/ Filling(t, o)'
<1>1. /\ DiskAgrees(o) \/ Writing(t, o)
      /\ TempGone(o) \/ Filling(t, o)
  BY DEF Agree
<1>2. /\ get_file_path(o) \in DiskNames /\ temp_path(o) \in DiskNames
      /\ disk \in [DiskNames -> {None} \union Bodies]
      /\ files \in [Objects -> Rows \union {None}]
  BY DiskNameType DEF TypeOK, StoresOK
<1>3. pc[t] \in ObjectLabels =>
        /\ Obj(t) \in Objects
        /\ get_file_path(Obj(t)) \in DiskNames /\ temp_path(Obj(t)) \in DiskNames
        /\ o # Obj(t) =>
             /\ get_file_path(o) # get_file_path(Obj(t))
             /\ get_file_path(o) # temp_path(Obj(t))
             /\ temp_path(o) # get_file_path(Obj(t))
             /\ temp_path(o) # temp_path(Obj(t))
  BY DiskNameType, NamesApart DEF TypeOK, TaskHolds, Sequential
<1>4. ASSUME UNCHANGED <<files, disk>>,
             pc[t] \notin {"fill", "rename", "save", "unlink"} \union BucketTail
      PROVE  Goal
  BY <1>1, <1>4 DEF DiskAgrees, TempGone, Writing, Filling, Stored
<1>6. CASE StartStore(t) \/ StartOnObject(t) \/ StartOnBucket(t)
  BY <1>4, <1>6 DEF StartStore, StartOnObject, StartOnBucket, Accept, MayStart, store,
     BucketTail
<1>7. CASE EnsureBucket(t) \/ Dedup(t) \/ WarmMeta(t) \/ WarmBody(t) \/ ReadStep(t)
           \/ DelFind(t) \/ DelCount(t) \/ Invalidate(t) \/ ListBucket(t)
  BY <1>4, <1>7 DEF EnsureBucket, Dedup, WarmMeta, WarmBody, ReadStep, GetMeta, GetRow,
     FillMeta, GetBody, ReadDisk, ReadFails, FillBody, GetInfo, DelFind, DelCount,
     Invalidate, ListBucket, store, BucketTail
<1>8. CASE AliasSave(t) \/ AliasSaveRejected(t)
  BY <1>8 DEF AliasSave, AliasSaveRejected, OwnBytes, OwnTask
<1>9. CASE WriteFails(t) \/ SaveFails(t) \/ DbError(t) \/ Drop(t)
  BY <1>9 DEF WriteFails, SaveFails, DbError, Drop, Sequential, Relies, UploadRelies
<1>10. CASE CreateTemp(t)
  BY <1>1, <1>2, <1>3, <1>10 DEF CreateTemp, Goto, DiskAgrees, TempGone, Writing,
     Filling, BucketTail, Stored, Obj, TypeOK, TasksOK
<1>11. CASE FillTemp(t)
  <2>1. handle[t] = temp_path(Obj(t)) /\ handle[t] # None
    BY <1>3, <1>11, NoneAssumption DEF FillTemp, Relies, UploadRelies
  <2>2. PICK v : disk' = [disk EXCEPT ![temp_path(Obj(t))] = v]
    BY <1>11, <2>1 DEF FillTemp
  <2> QED BY <1>1, <1>2, <1>3, <1>11, <2>2 DEF FillTemp, Goto, DiskAgrees, TempGone,
     Writing, Filling, BucketTail, Stored, Obj, TypeOK, TasksOK
<1>12. CASE RenameTemp(t)
  BY <1>1, <1>2, <1>3, <1>12 DEF RenameTemp, Goto, DiskAgrees, TempGone, Writing,
     Filling, BucketTail, Stored, Obj, TypeOK, TasksOK
<1>13. CASE RenameFails(t)
  BY <1>3, <1>13, NoneAssumption DEF RenameFails, Relies, UploadRelies, TypeOK, TaskHolds,
     Bodies
<1>14. CASE SaveRow(t)
  <2>1. /\ files' = [files EXCEPT ![Obj(t)] = NewRow(t)] /\ disk' = disk
        /\ NewRow(t).hash = req[t].content /\ NewRow(t) # None
        /\ disk[get_file_path(Obj(t))] = {req[t].content}
    BY <1>3, <1>14, NoneAssumption DEF SaveRow, save_file, NewRow, Relies, UploadRelies,
       Rows, Paths, Objects, get_file_path, TypeOK, TaskHolds, TasksOK, Requests
  <2> QED BY <1>1, <1>2, <1>3, <1>14, <2>1 DEF SaveRow, DiskAgrees, TempGone, Writing,
     Filling, BucketTail, Stored
<1>15. CASE DelRow(t)
  BY <1>1, <1>2, <1>3, <1>15 DEF DelRow, Goto, DiskAgrees, TempGone, Writing,
     Filling, BucketTail, Stored, Obj, TypeOK, TasksOK
<1>16. CASE Unlink(t)
  <2>1. /\ disk' = [p \in DiskNames |-> IF p \in {path[t]} THEN None ELSE disk[p]]
        /\ path[t] = get_file_path(Obj(t)) /\ ~Stored(Obj(t)) /\ files' = files
    BY <1>16 DEF Unlink, unlink, Sequential, Relies, DeletionRelies
  <2> QED BY <1>1, <1>2, <1>3, <1>16, <2>1 DEF Unlink, DiskAgrees, TempGone, Writing,
     Filling, BucketTail, Stored
<1>17. CASE DropBucket(t)
  <2>1. CASE req[t].bucket \notin buckets
    BY <1>4, <1>17, <2>1 DEF DropBucket, BucketTail
  <2>2. CASE req[t].bucket \in buckets
    BY <1>1, <1>2, <1>17, <2>2 DEF DropBucket, Goto, DiskAgrees, TempGone, Writing,
       Filling, BucketTail, Stored, TypeOK, TasksOK
  <2> QED BY <2>1, <2>2
<1>18. CASE BucketNext(t) \/ BucketInvalidate(t)
  <2>1. req'[t].bucket = req[t].bucket /\ pc'[t] \in BucketTail /\ pc[t] \in BucketTail
        /\ files' = files /\ disk' = disk
    BY <1>18, NextListed DEF BucketNext, BucketInvalidate, Goto, store, BucketTail,
       TypeOK, TasksOK
  <2> QED BY <1>1, <2>1 DEF DiskAgrees, TempGone, Writing, Filling, BucketTail, Stored
<1>19. CASE BucketUnlink(t)
  <2>1. /\ disk' = [p \in DiskNames |-> IF p \in {path[t]} THEN None ELSE disk[p]]
        /\ path[t] = get_file_path(Obj(t)) /\ Obj(t).bucket = req[t].bucket
        /\ files' = files
    BY <1>19 DEF BucketUnlink, unlink, Sequential, Relies, BucketRelies
  <2> QED BY <1>1, <1>2, <1>3, <1>19, <2>1 DEF BucketUnlink, Goto, DiskAgrees, TempGone,
     Writing, Filling, BucketTail, Stored, TypeOK, TasksOK
<1>20. CASE RmDir(t)
  <2>1. /\ disk' = [p \in DiskNames |->
                      IF p \in {q \in DiskNames : q[1] = req[t].bucket} THEN None
                      ELSE disk[p]]
        /\ files' = files
        /\ o.bucket = req[t].bucket => ~Stored(o)
    BY <1>20 DEF RmDir, unlink, Sequential, Relies, BucketRelies, BucketTail
  <2>2. get_file_path(o)[1] = o.bucket /\ temp_path(o)[1] = o.bucket
    BY DEF get_file_path, temp_path
  <2> QED BY <1>1, <1>2, <1>20, <2>1, <2>2 DEF RmDir, DiskAgrees, TempGone, Writing,
     Filling, BucketTail, Stored
<1>21. CASE (t = Sweeper /\ Sweep) \/ (t = Preloader /\ Preload)
  BY <1>4, <1>21 DEF Sweep, SweepList, SweepNext, SweepDone, Preload, PreloadList,
     PreloadRead, PreloadFill, PreloadDone, MayStart, store, BucketTail
<1> QED BY <1>6, <1>7, <1>8, <1>9, <1>10, <1>11, <1>12, <1>13, <1>14, <1>15, <1>16,
       <1>17, <1>18, <1>19, <1>20, <1>21
       DEF StepOf, Client, StoreStep, WriteStep, DeleteStep, BucketStep

\* The cache agrees with the rows after every step of the task in flight.
LEMMA CacheStep ==
    ASSUME TypeOK, OwnBytes, Sequential, NEW t \in Tasks, Agree(t), Relies(t), StepOf(t)
    PROVE  \A o \in Objects : /\ MetaAgrees(o)' \/ MetaLags(t, o)'
                              /\ BodyAgrees(o)' \/ BodyLags(t, o)'
<1> SUFFICES ASSUME NEW o \in Objects
             PROVE  /\ MetaAgrees(o)' \/ MetaLags(t, o)'
                    /\ BodyAgrees(o)' \/ BodyLags(t, o)'
  OBVIOUS
<1> DEFINE Goal == /\ MetaAgrees(o)' \/ MetaLags(t, o)'
                   /\ BodyAgrees(o)' \/ BodyLags(t, o)'
           Lagging == {"warm_meta", "warm_body", "unlink", "invalidate"} \union BucketTail
<1>1. /\ MetaAgrees(o) \/ MetaLags(t, o)
      /\ BodyAgrees(o) \/ BodyLags(t, o)
  BY DEF Agree
<1>2. /\ meta \in [Objects -> Rows \union {None}]
      /\ body \in [Objects -> {None} \union Bodies]
      /\ files \in [Objects -> Rows \union {None}]
  BY DEF TypeOK, StoresOK
<1>3. pc[t] \in ObjectLabels => Obj(t) \in Objects
  BY DEF TypeOK, TaskHolds
<1>4. ASSUME UNCHANGED <<files, meta, body>>, pc[t] \notin Lagging PROVE Goal
  BY <1>1, <1>4 DEF MetaAgrees, BodyAgrees, MetaLags, BodyLags, BucketTail, Stored
<1>5. ASSUME NEW v \in Bodies PROVE set_file_content(Obj(t), v) = {[body EXCEPT ![Obj(t)] = v]}
  BY DEF set_file_content, backend_set, Unless, Sequential, Bodies
<1>6. CASE StartStore(t) \/ StartOnObject(t) \/ StartOnBucket(t)
  BY <1>4, <1>6 DEF StartStore, StartOnObject, StartOnBucket, Accept, MayStart, store,
     caches, BucketTail
<1>7. CASE EnsureBucket(t) \/ Dedup(t) \/ DelFind(t) \/ DelCount(t) \/ ListBucket(t)
           \/ CreateTemp(t) \/ FillTemp(t) \/ RenameTemp(t) \/ RenameFails(t)
           \/ GetMeta(t) \/ GetRow(t) \/ GetBody(t) \/ ReadDisk(t) \/ ReadFails(t)
           \/ GetInfo(t)
  BY <1>4, <1>7 DEF EnsureBucket, Dedup, DelFind, DelCount, ListBucket, CreateTemp,
     FillTemp, RenameTemp, RenameFails, GetMeta, GetRow, GetBody, ReadDisk, ReadFails,
     GetInfo, store, caches, BucketTail
<1>8. CASE AliasSave(t) \/ AliasSaveRejected(t)
  BY <1>8 DEF AliasSave, AliasSaveRejected, OwnBytes, OwnTask
<1>9. CASE WriteFails(t) \/ SaveFails(t) \/ DbError(t) \/ Drop(t)
  BY <1>9 DEF WriteFails, SaveFails, DbError, Drop, Sequential, Relies, UploadRelies
<1>10. CASE SaveRow(t)
  BY <1>1, <1>2, <1>3, <1>10 DEF SaveRow, save_file, caches, locals, Goto, MetaAgrees,
     BodyAgrees, MetaLags, BodyLags, BucketTail, Stored, Obj, TypeOK, TasksOK
<1>11. CASE WarmMeta(t)
  <2>1. meta' = [meta EXCEPT ![Obj(t)] = files[Obj(t)]] /\ files' = files /\ body' = body
    BY <1>11 DEF WarmMeta, backend_set, Unless, store, Sequential, Relies, UploadRelies
  <2> QED BY <1>1, <1>2, <1>3, <1>11, <2>1 DEF WarmMeta, Goto, MetaAgrees, BodyAgrees,
     MetaLags, BodyLags, BucketTail, Stored, Obj, TypeOK, TasksOK
<1>12. CASE WarmBody(t)
  <2>1. {req[t].content} \in Bodies /\ files[Obj(t)] \in Rows
        /\ files[Obj(t)].hash = req[t].content
    BY <1>2, <1>3, <1>12 DEF WarmBody, Relies, UploadRelies, NewRow, Rows, Paths, Objects,
       get_file_path, Bodies, TypeOK, TaskHolds, TasksOK, Requests
  <2>2. body' = [body EXCEPT ![Obj(t)] = {files[Obj(t)].hash}]
        /\ files' = files /\ meta' = meta
    BY <1>5, <1>12, <2>1 DEF WarmBody, store
  <2>3. Stored(Obj(t))
    BY <2>1, NoneAssumption DEF Stored
  <2> QED BY <1>1, <1>2, <1>3, <1>12, <2>2, <2>3 DEF WarmBody, MetaAgrees, BodyAgrees,
     MetaLags, BodyLags, BucketTail, Stored
<1>13. CASE FillMeta(t)
  <2>1. meta' = [meta EXCEPT ![Obj(t)] = files[Obj(t)]] /\ files' = files /\ body' = body
    BY <1>13 DEF FillMeta, backend_set, Unless, store, Sequential, Relies, ReaderRelies
  <2> QED BY <1>1, <1>2, <1>3, <1>13, <2>1 DEF FillMeta, MetaAgrees, BodyAgrees,
     MetaLags, BodyLags, BucketTail, Stored
<1>14. CASE FillBody(t) \/ (t = Preloader /\ PreloadFill)
  <2>1. bytes[t] \in Bodies /\ Stored(Obj(t)) /\ bytes[t] = {files[Obj(t)].hash}
    BY <1>14 DEF FillBody, PreloadFill, Relies, ReaderRelies, TypeOK, TaskHolds
  <2>2. body' = [body EXCEPT ![Obj(t)] = {files[Obj(t)].hash}]
        /\ files' = files /\ meta' = meta
    BY <1>5, <1>14, <2>1 DEF FillBody, PreloadFill, store
  <2> QED BY <1>1, <1>2, <1>3, <1>14, <2>1, <2>2 DEF FillBody, PreloadFill, MetaAgrees,
     BodyAgrees, MetaLags, BodyLags, BucketTail, Stored
<1>15. CASE DelRow(t)
  BY <1>1, <1>2, <1>3, <1>15 DEF DelRow, caches, locals, Goto, MetaAgrees, BodyAgrees,
     MetaLags, BodyLags, BucketTail, Stored, Obj, TypeOK, TasksOK
<1>16. CASE Unlink(t)
  BY <1>1, <1>16 DEF Unlink, caches, locals, Goto, MetaAgrees, BodyAgrees,
     MetaLags, BodyLags, BucketTail, Stored, Obj, TypeOK, TasksOK
<1>17. CASE Invalidate(t)
  <2>1. /\ meta' = [meta EXCEPT ![Obj(t)] = None] /\ body' = [body EXCEPT ![Obj(t)] = None]
        /\ files' = files
    BY <1>17 DEF Invalidate, invalidate_file, store, Sequential
  <2> QED BY <1>1, <1>2, <1>3, <1>17, <2>1 DEF Invalidate, MetaAgrees, BodyAgrees,
     MetaLags, BodyLags, BucketTail, Stored
<1>18. CASE DropBucket(t)
  <2>1. CASE req[t].bucket \notin buckets
    BY <1>4, <1>18, <2>1 DEF DropBucket, caches, BucketTail
  <2>2. CASE req[t].bucket \in buckets
    <3>1. /\ files' = [x \in Objects |->
                         IF x.bucket = req[t].bucket THEN None ELSE files[x]]
          /\ meta' = meta /\ body' = body /\ todo' = todo /\ pc'[t] = "bucket_next"
          /\ pc[t] = "drop_bucket"
      BY <1>18, <2>2 DEF DropBucket, Goto, caches, locals, TypeOK, TasksOK
    <3>2. CASE o.bucket = req[t].bucket /\ Stored(o)
      <4>1. \E f \in todo[t] : f.obj = o
        BY <3>1, <3>2 DEF Relies, BucketRelies
      <4> QED BY <3>1, <4>1 DEF MetaLags, BodyLags, BucketTail
    <3>3. CASE ~(o.bucket = req[t].bucket /\ Stored(o))
      BY <1>1, <3>1, <3>3 DEF MetaAgrees, BodyAgrees, MetaLags, BodyLags, BucketTail,
         Stored
    <3> QED BY <3>2, <3>3
  <2> QED BY <2>1, <2>2
<1>19. CASE BucketNext(t)
  <2>1. PICK f \in todo[t] : todo' = [todo EXCEPT ![t] = @ \ {f}] /\ req'[t].obj = f.obj
    BY <1>19, NextListed
  <2>2. todo'[t] = todo[t] \ {f} /\ pc'[t] = "bucket_unlink" /\ pc[t] = "bucket_next"
        /\ UNCHANGED <<files, meta, body>>
    BY <1>19, <2>1 DEF BucketNext, store, caches, TypeOK, TasksOK
  <2> QED BY <1>1, <2>1, <2>2 DEF MetaAgrees, BodyAgrees, MetaLags, BodyLags, BucketTail,
     Stored, Obj
<1>20. CASE BucketUnlink(t)
  BY <1>1, <1>20 DEF BucketUnlink, caches, locals, Goto, MetaAgrees, BodyAgrees,
     MetaLags, BodyLags, BucketTail, Stored, Obj, TypeOK, TasksOK
<1>21. CASE BucketInvalidate(t)
  <2>1. /\ meta' = [meta EXCEPT ![Obj(t)] = None] /\ body' = [body EXCEPT ![Obj(t)] = None]
        /\ files' = files
    BY <1>21 DEF BucketInvalidate, invalidate_file, store, Sequential
  <2> QED BY <1>1, <1>2, <1>3, <1>21, <2>1 DEF BucketInvalidate, locals, Goto,
     MetaAgrees, BodyAgrees, MetaLags, BodyLags, BucketTail, Stored, Obj, TypeOK, TasksOK
<1>22. CASE RmDir(t)
  BY <1>1, <1>22 DEF RmDir, caches, MetaAgrees, BodyAgrees, MetaLags, BodyLags,
     BucketTail, Stored
<1>23. CASE \/ t = Sweeper /\ Sweep
            \/ t = Preloader /\ (PreloadList \/ PreloadRead \/ PreloadDone)
  BY <1>4, <1>23 DEF Sweep, SweepList, SweepNext, SweepDone, PreloadList,
     PreloadRead, PreloadDone, MayStart, store, caches, BucketTail
<1> QED BY <1>6, <1>7, <1>8, <1>9, <1>10, <1>11, <1>12, <1>13, <1>14, <1>15, <1>16,
       <1>17, <1>18, <1>19, <1>20, <1>21, <1>22, <1>23
       DEF StepOf, Client, StoreStep, WriteStep, ReadStep, DeleteStep, BucketStep, Preload

\* What the sweep has listed stays gone or due while the sweep runs.
LEMMA SweepStep ==
    ASSUME TypeOK, NEW t \in Tasks, Relies(t), StepOf(t), Sequential
    PROVE  SweepRelies(t)'
<1> SUFFICES ASSUME t = Sweeper PROVE SweepRelies(t)'
  BY DEF SweepRelies
<1>1. DeleteStep(t) \/ DbError(t) \/ Sweep
  BY TasksAssumption DEF StepOf
<1>2. CASE DeleteStep(t)
  <2>1. /\ expired' = expired /\ now' = now /\ pc[t] # "idle"
        /\ \A o \in Objects : files'[o] = files[o] \/ files'[o] = None
    BY <1>2 DEF DeleteStep, DelFind, DelCount, DelRow, Unlink, Invalidate, store, clock,
       TypeOK, StoresOK
  <2> QED BY <2>1 DEF Relies, SweepRelies, Stored, Due, TypeOK, TasksOK
<1>3. CASE Sweep
  <2>1. CASE SweepList
    BY <2>1 DEF SweepList, list_expired_files, store, clock, SweepRelies, Stored, Due
  <2>2. CASE SweepNext
    BY <2>2 DEF SweepNext, store, clock, Relies, SweepRelies, Stored, Due
  <2>3. CASE SweepDone
    BY <2>3 DEF SweepDone, Finish, SweepRelies, TypeOK, TasksOK
  <2> QED BY <1>3, <2>1, <2>2, <2>3 DEF Sweep
<1> QED BY <1>1, <1>2, <1>3 DEF DbError, Sequential

\* A task at one of these steps relies on nothing.
LEMMA ReliesFree ==
    ASSUME NEW t \in Tasks, SweepRelies(t)',
           pc'[t] \in {"idle", "get_meta", "get_row", "list_bucket", "sweep_next"}
    PROVE  Relies(t)'
BY DEF Relies, UploadRelies, ReaderRelies, DeletionRelies, BucketRelies, BucketTail

\* Every step leaves the task in flight what it relies on.
LEMMA ReliesStep ==
    ASSUME TypeOK, OwnBytes, Sequential, NEW t \in Tasks, Agree(t), Relies(t), StepOf(t)
    PROVE  Relies(t)'
<1> USE DEF BucketTail
<1>1. SweepRelies(t)'
  BY SweepStep
<1>2. UploadRelies(t) /\ ReaderRelies(t) /\ DeletionRelies(t) /\ BucketRelies(t)
  BY DEF Relies
<1>3. pc[t] \in ObjectLabels =>
        /\ Obj(t) \in Objects
        /\ get_file_path(Obj(t)) \in DiskNames /\ temp_path(Obj(t)) \in DiskNames
        /\ Stored(Obj(t)) =>
             files[Obj(t)] \in Rows /\ files[Obj(t)].path = get_file_path(Obj(t))
  BY DiskNameType DEF TypeOK, TaskHolds, StoresOK, Stored, OwnBytes, OwnRows
<1>4. /\ pc \in [Tasks -> Labels] /\ req \in [Tasks -> Requests]
      /\ todo \in [Tasks -> SUBSET Refs] /\ path \in [Tasks -> Paths \union {None}]
      /\ refs \in [Tasks -> BOOLEAN] /\ row \in [Tasks -> Rows \union {None}]
      /\ bytes \in [Tasks -> {None} \union Bodies]
      /\ files \in [Objects -> Rows \union {None}]
      /\ disk \in [DiskNames -> {None} \union Bodies]
      /\ handle \in [Tasks -> DiskNames \union {None}]
  BY DEF TypeOK, TasksOK, StoresOK
<1>5. ASSUME Finish(t) PROVE Relies(t)'
  BY <1>1, <1>4, <1>5, ReliesFree DEF Finish
<1>6. ASSUME NEW label \in {"get_meta", "get_row", "list_bucket", "sweep_next"},
             pc' = [pc EXCEPT ![t] = label]
      PROVE  Relies(t)'
  BY <1>1, <1>4, <1>6, ReliesFree
<1>7. ASSUME NEW answer, AfterDelete(t, answer) PROVE Relies(t)'
  BY <1>5, <1>6, <1>7 DEF AfterDelete, Return, Respond, Goto
<1>8. ASSUME pc'[t] \in UploadLabels \union {"ensure"}, UploadRelies(t)' PROVE Relies(t)'
  BY <1>1, <1>8 DEF Relies, ReaderRelies, DeletionRelies, BucketRelies
<1>9. ASSUME pc'[t] \in {"info", "fill_meta", "get_body", "read_disk", "fill_body",
                         "preload_read", "preload_fill"}, ReaderRelies(t)'
      PROVE  Relies(t)'
  BY <1>1, <1>9 DEF Relies, UploadRelies, DeletionRelies, BucketRelies
<1>10. ASSUME pc'[t] \in DeleteLabels, DeletionRelies(t)' PROVE Relies(t)'
  BY <1>1, <1>10 DEF Relies, UploadRelies, ReaderRelies, BucketRelies
<1>11. ASSUME pc'[t] \in BucketLabels, BucketRelies(t)' PROVE Relies(t)'
  BY <1>1, <1>11 DEF Relies, UploadRelies, ReaderRelies, DeletionRelies
<1>12. CASE StartStore(t)
  <2>1. PICK o \in Objects :
          \E c, e : Accept(t, "store", "ensure", o.bucket, o, c, e)
    BY <1>12 DEF StartStore
  <2> QED BY <1>4, <1>8, <2>1 DEF Accept, UploadRelies, Obj
<1>13. CASE StartOnObject(t) \/ StartOnBucket(t)
  <2>1. PICK op, label, b, o :
          /\ Accept(t, op, label, b, o, None, 0)
          /\ \/ label \in {"get_meta", "list_bucket"}
             \/ op = "info" /\ label = "info"
             \/ op = "delete" /\ label = "del_find"
             \/ op = "create_bucket" /\ label = "ensure"
    BY <1>13 DEF StartOnObject, StartOnBucket
  <2>2. pc'[t] = label /\ req'[t].op = op /\ pc' = [pc EXCEPT ![t] = label]
    BY <1>4, <2>1 DEF Accept
  <2>3. CASE label = "del_find" /\ op = "delete"
    BY <1>10, <2>2, <2>3 DEF DeletionRelies
  <2>4. CASE label = "ensure" /\ op = "create_bucket"
    BY <1>8, <2>2, <2>4 DEF UploadRelies
  <2>5. CASE label = "info" /\ op = "info"
    BY <1>9, <2>2, <2>5 DEF ReaderRelies
  <2> QED BY <1>6, <2>1, <2>2, <2>3, <2>4, <2>5
<1>14. CASE EnsureBucket(t)
  <2>1. CASE req[t].op = "store" /\ Goto(t, "dedup")
    BY <1>2, <1>4, <1>8, <1>14, <2>1 DEF EnsureBucket, Goto, UploadRelies, Obj
  <2> QED BY <1>5, <1>14, <2>1 DEF EnsureBucket, Return, Respond
<1>15. CASE Dedup(t)
  BY <1>2, <1>4, <1>8, <1>15 DEF Dedup, store, Goto, UploadRelies, Obj, Sequential
<1>16. CASE AliasSave(t) \/ AliasSaveRejected(t)
  BY <1>16 DEF AliasSave, AliasSaveRejected, OwnBytes, OwnTask
<1>17. CASE WriteFails(t) \/ SaveFails(t) \/ DbError(t) \/ Drop(t)
  BY <1>2, <1>17 DEF WriteFails, SaveFails, DbError, Drop, Sequential, UploadRelies
<1>18. CASE CreateTemp(t)
  BY <1>2, <1>3, <1>4, <1>8, <1>18 DEF CreateTemp, Goto, UploadRelies, Obj
<1>19. CASE FillTemp(t)
  <2>1. handle[t] = temp_path(Obj(t)) /\ handle[t] # None /\ disk[handle[t]] = {}
    BY <1>2, <1>3, <1>19, NoneAssumption DEF FillTemp, UploadRelies
  <2>2. disk' = [disk EXCEPT ![temp_path(Obj(t))] = {req[t].content}]
    BY <1>19, <2>1 DEF FillTemp
  <2> QED BY <1>2, <1>3, <1>4, <1>8, <1>19, <2>2 DEF FillTemp, Goto, UploadRelies, Obj
<1>20. CASE RenameTemp(t)
  BY <1>2, <1>3, <1>4, <1>8, <1>20 DEF RenameTemp, Goto, UploadRelies, Obj
<1>21. CASE RenameFails(t) \/ ReadFails(t) \/ FillBody(t) \/ WarmBody(t)
  BY <1>5, <1>21 DEF RenameFails, ReadFails, FillBody, WarmBody, Return, Respond
<1>22. CASE SaveRow(t)
  BY <1>2, <1>3, <1>4, <1>8, <1>22 DEF SaveRow, save_file, NewRow, Goto, UploadRelies, Obj
<1>23. CASE WarmMeta(t)
  BY <1>2, <1>4, <1>8, <1>23 DEF WarmMeta, store, NewRow, Goto, UploadRelies, Obj
<1>24. ASSUME NEW r, r = files[Obj(t)], pc[t] \in {"get_meta", "fill_meta"},
              AfterRow(t, r, "get_body"), files' = files, now' = now, row'[t] = r
       PROVE  Relies(t)'
  <2>1. req' = req /\ req[t].op = "get"
    BY <1>24 DEF AfterRow, Goto, TypeOK, TaskHolds
  <2>2. CASE Expired(r)
    BY <1>4, <1>10, <1>24, <2>1, <2>2 DEF AfterRow, Goto, DeletionRelies, Expired, Obj
  <2>3. CASE ~Expired(r)
    BY <1>4, <1>9, <1>24, <2>1, <2>3 DEF AfterRow, Goto, ReaderRelies, Obj
  <2> QED BY <2>2, <2>3
<1>25. CASE GetMeta(t)
  <2>1. CASE Goto(t, "get_row")
    BY <1>6, <2>1 DEF Goto
  <2>2. CASE /\ meta[Obj(t)] # None /\ AfterRow(t, meta[Obj(t)], "get_body")
             /\ row' = [row EXCEPT ![t] = meta[Obj(t)]]
    <3>1. meta[Obj(t)] = files[Obj(t)]
      BY <1>3, <1>25, <2>2 DEF GetMeta, Agree, MetaAgrees, MetaLags
    <3> QED BY <1>4, <1>24, <1>25, <2>2, <3>1 DEF GetMeta, store, clock
  <2> QED BY <1>25, <2>1, <2>2 DEF GetMeta, backend_get, Unless, Sequential
<1>26. CASE GetRow(t)
  <2>1. CASE Stored(Obj(t))
    BY <1>4, <1>9, <1>26, <2>1 DEF GetRow, Goto, store, ReaderRelies, Obj
  <2> QED BY <1>5, <1>26, <2>1 DEF GetRow, Return, Respond
<1>27. CASE FillMeta(t)
  BY <1>2, <1>24, <1>27 DEF FillMeta, ReaderRelies, locals, store, clock
<1>28. CASE GetBody(t)
  <2>1. CASE Goto(t, "read_disk") /\ UNCHANGED locals
    BY <1>2, <1>4, <1>9, <1>28, <2>1 DEF GetBody, Goto, store, locals, ReaderRelies, Obj
  <2> QED BY <1>5, <1>28, <2>1 DEF GetBody, Respond
<1>29. CASE ReadDisk(t)
  <2>1. row[t] = files[Obj(t)] /\ row[t] \in Rows /\ Stored(Obj(t))
    BY <1>2, <1>29, NoneAssumption DEF ReadDisk, ReaderRelies, TypeOK, TaskHolds, Stored
  <2>2. disk[row[t].path] = {files[Obj(t)].hash}
    BY <1>3, <1>29, <2>1 DEF ReadDisk, Agree, DiskAgrees, Writing
  <2>3. disk[row[t].path] # None
    BY <2>1, <2>2, NoneAssumption DEF Rows, Bodies
  <2> QED BY <1>4, <1>9, <1>29, <2>1, <2>2, <2>3 DEF ReadDisk, Goto, store, ReaderRelies,
     Stored, Obj
<1>30. CASE GetInfo(t)
  <2>1. CASE Stored(Obj(t)) /\ Expired(files[Obj(t)]) /\ Goto(t, "del_find")
    <3>1. /\ pc'[t] = "del_find" /\ req' = req /\ files' = files /\ now' = now
          /\ req[t].op = "info"
      BY <1>2, <1>4, <1>30, <2>1 DEF GetInfo, Goto, store, clock, ReaderRelies
    <3> QED BY <1>10, <2>1, <3>1 DEF DeletionRelies, Expired, Stored, Obj
  <2> QED BY <1>5, <1>30, <2>1 DEF GetInfo, Return, Respond
<1>31. CASE DelFind(t)
  <2>1. CASE Stored(Obj(t))
    <3>1. /\ pc'[t] = "del_count" /\ req' = req /\ files' = files /\ now' = now
          /\ path'[t] = get_file_path(Obj(t))
      BY <1>3, <1>4, <1>31, <2>1 DEF DelFind, Goto, store, clock
    <3> QED BY <1>2, <1>10, <1>31, <2>1, <3>1 DEF DelFind, DeletionRelies, Expired, Stored,
       Obj
  <2> QED BY <1>7, <1>31, <2>1 DEF DelFind
<1>32. CASE DelCount(t)
  <2>1. path[t] = get_file_path(Obj(t))
    BY <1>2, <1>32 DEF DelCount, DeletionRelies
  <2>2. ~\E o \in Objects \ {Obj(t)} : Stored(o) /\ files[o].path = path[t]
    BY <1>3, <1>32, <2>1, NamesApart DEF DelCount, OwnBytes, OwnRows, Sequential
  <2>3. /\ pc'[t] = "del_row" /\ req' = req /\ files' = files /\ now' = now
        /\ path' = path /\ ~refs'[t]
    BY <1>4, <1>32, <2>2 DEF DelCount, Goto, store, clock
  <2> QED BY <1>2, <1>10, <1>32, <2>3 DEF DelCount, DeletionRelies, Expired, Stored, Obj
<1>33. CASE DelRow(t)
  BY <1>2, <1>3, <1>4, <1>10, <1>33 DEF DelRow, Goto, locals, DeletionRelies, Stored, Obj
<1>34. CASE Unlink(t)
  BY <1>2, <1>4, <1>10, <1>34 DEF Unlink, Goto, locals, DeletionRelies, Stored, Obj
<1>35. CASE Invalidate(t)
  BY <1>7, <1>35 DEF Invalidate
<1>36. CASE ListBucket(t)
  <2> DEFINE L == {o \in Objects : o.bucket = req[t].bucket}
  <2>1. /\ pc'[t] = "drop_bucket" /\ req' = req /\ files' = files
        /\ todo'[t] = RefsOf(L)
    BY <1>4, <1>36 DEF ListBucket, Goto, store
  <2>2. \A f \in RefsOf(L) : f.obj.bucket = req[t].bucket
    BY DEF RefsOf
  <2>3. ASSUME NEW o \in L, Stored(o) PROVE \E f \in RefsOf(L) : f.obj = o
    <3>1. [obj |-> o, path |-> files[o].path] \in RefsOf(L)
      BY <2>3 DEF RefsOf
    <3> QED BY <3>1
  <2>4. /\ \A f \in todo'[t] : f.obj.bucket = req'[t].bucket
        /\ \A o \in Objects : o.bucket = req'[t].bucket /\ Stored(o)' =>
             \E f \in todo'[t] : f.obj = o
    BY <2>1, <2>2, <2>3 DEF Stored
  <2> QED BY <1>11, <2>1, <2>4 DEF BucketRelies
<1>37. CASE DropBucket(t)
  <2>1. CASE Return(t, "not_found")
    BY <1>5, <2>1 DEF Return, Respond
  <2>2. CASE req[t].bucket \in buckets
    BY <1>2, <1>4, <1>11, <1>37, <2>2 DEF DropBucket, Goto, locals, BucketRelies, Stored
  <2> QED BY <1>37, <2>1, <2>2 DEF DropBucket
<1>38. CASE BucketNext(t)
  <2>1. PICK f \in todo[t] :
          /\ todo' = [todo EXCEPT ![t] = @ \ {f}] /\ f.obj \in Objects
          /\ path'[t] = f.path /\ req'[t].obj = f.obj
          /\ req'[t].bucket = req[t].bucket
    BY <1>38, NextListed
  <2>2. f.path = get_file_path(f.obj) /\ f.obj.bucket = req[t].bucket
    BY <1>2, <1>38 DEF BucketNext, BucketRelies, OwnBytes, OwnTask
  <2>3. ASSUME NEW o \in Objects, Stored(o) PROVE files[o].path # f.path
    <3>1. o # f.obj
      BY <1>2, <1>38, <2>2, <2>3 DEF BucketNext, BucketRelies
    <3> QED BY <2>1, <2>2, <2>3, <3>1, NamesApart DEF OwnBytes, OwnRows, Sequential
  <2>4. /\ todo'[t] = todo[t] \ {f} /\ pc'[t] = "bucket_unlink" /\ files' = files
        /\ pc[t] = "bucket_next"
    BY <1>4, <1>38, <2>1 DEF BucketNext, store
  <2>5. ~refs'[t]
    <3>1. PICK g \in todo[t] :
            /\ todo' = [todo EXCEPT ![t] = @ \ {g}]
            /\ path' = [path EXCEPT ![t] = g.path]
            /\ \E n \in Unless("db", \E o \in Objects : Stored(o) /\ files[o].path = g.path,
                               FALSE) :
                 refs' = [refs EXCEPT ![t] = n]
      BY <1>38 DEF BucketNext
    <3>2. g.path = f.path
      BY <1>4, <2>1, <3>1
    <3>3. ~\E o \in Objects : Stored(o) /\ files[o].path = g.path
      BY <2>3, <3>2
    <3> QED BY <1>4, <3>1, <3>3 DEF Unless, Sequential
  <2> QED BY <1>2, <1>11, <2>1, <2>2, <2>4, <2>5 DEF BucketRelies, Stored, Obj
<1>39. CASE BucketUnlink(t) \/ BucketInvalidate(t)
  BY <1>2, <1>4, <1>11, <1>39 DEF BucketUnlink, BucketInvalidate, Goto, locals, store,
     BucketRelies, Stored, Obj
<1>40. CASE RmDir(t)
  BY <1>5, <1>40 DEF RmDir, Return, Respond
<1>41. CASE t = Sweeper /\ Sweep
  <2>1. CASE SweepList \/ SweepDone
    BY <1>5, <1>6, <1>41, <2>1 DEF SweepList, SweepDone, Goto
  <2>2. CASE SweepNext
    <3>1. PICK o \in expired : req'[t] = [NoRequest EXCEPT !.op = "sweep",
                                            !.bucket = o.bucket, !.obj = o]
      BY <1>4, <1>41, <2>2 DEF SweepNext
    <3>2. req'[t].op = "sweep" /\ req'[t].obj = o
      BY <3>1 DEF NoRequest
    <3>3. /\ pc'[t] = "del_find" /\ pc[t] = "sweep_next" /\ files' = files /\ now' = now
      BY <1>4, <1>41, <2>2 DEF SweepNext, store, clock
    <3>4. Stored(o) => Due(files[o])
      BY <1>41, <3>3 DEF Relies, SweepRelies
    <3>5. Stored(o) => Expired(files[o])
      <4>1. o \in Objects
        BY DEF TypeOK, TasksOK
      <4> QED BY <1>4, <3>4, <4>1 DEF Due, Expired, Stored, Rows, TypeOK, StoresOK
    <3> QED BY <1>10, <3>2, <3>3, <3>5 DEF DeletionRelies, Expired, Stored, Obj
  <2> QED BY <1>41, <2>1, <2>2 DEF Sweep
<1>42. CASE t = Preloader /\ Preload
  <2>1. CASE PreloadList
    <3>1. PICK S \in SUBSET {o \in Objects : Stored(o)} :
            todo' = [todo EXCEPT ![t] = RefsOf(S)]
      BY <1>42, <2>1 DEF PreloadList
    <3>2. \A f \in RefsOf(S) : Stored(f.obj)
      BY DEF RefsOf
    <3> QED BY <1>4, <1>9, <1>42, <2>1, <3>1, <3>2 DEF PreloadList, Goto, store,
       ReaderRelies, Stored
  <2>2. CASE PreloadRead
    <3>1. PICK f \in todo[t] :
             \/ /\ disk[f.path] # None
                /\ bytes' = [bytes EXCEPT ![t] = disk[f.path]]
                /\ req' = [req EXCEPT ![t] =
                             [NoRequest EXCEPT !.op = "preload", !.obj = f.obj]]
                /\ pc' = [pc EXCEPT ![t] = "preload_fill"]
                /\ UNCHANGED todo
             \/ /\ todo' = [todo EXCEPT ![t] = @ \ {f}]
                /\ UNCHANGED control
      BY <1>42, <2>2 DEF PreloadRead
    <3>2. /\ f.obj \in Objects /\ Stored(f.obj) /\ f.path = get_file_path(f.obj)
          /\ pc[t] = "preload_read" /\ files' = files
      BY <1>2, <1>4, <1>42, <2>2 DEF PreloadRead, ReaderRelies, Refs, OwnBytes, OwnTask, store
    <3>3. disk[f.path] = {files[f.obj].hash}
      BY <3>2 DEF Agree, DiskAgrees, Writing
    <3>4. CASE /\ bytes'[t] = disk[f.path] /\ req'[t].obj = f.obj
               /\ pc'[t] = "preload_fill" /\ todo' = todo
      BY <1>2, <1>9, <3>2, <3>3, <3>4 DEF ReaderRelies, Stored, Obj
    <3>5. CASE todo' = [todo EXCEPT ![t] = @ \ {f}] /\ UNCHANGED control
      BY <1>2, <1>4, <1>9, <3>2, <3>5 DEF ReaderRelies, Stored, control
    <3> QED BY <1>4, <3>1, <3>4, <3>5 DEF NoRequest
  <2>3. CASE PreloadFill
    BY <1>2, <1>4, <1>9, <1>42, <2>3 DEF PreloadFill, Goto, store, ReaderRelies, Stored
  <2>4. CASE PreloadDone
    BY <1>5, <1>42, <2>4 DEF PreloadDone
  <2> QED BY <1>42, <2>1, <2>2, <2>3, <2>4 DEF Preload
<1> QED BY <1>12, <1>13, <1>14, <1>15, <1>16, <1>17, <1>18, <1>19, <1>20, <1>21, <1>22,
       <1>23, <1>25, <1>26, <1>27, <1>28, <1>29, <1>30, <1>31, <1>32, <1>33, <1>34, <1>35,
       <1>36, <1>37, <1>38, <1>39, <1>40, <1>41, <1>42
       DEF StepOf, Client, StoreStep, WriteStep, ReadStep, DeleteStep, BucketStep

\* Evictions only take cache entries away, and time only lets rows expire.
LEMMA EnvironmentStep ==
    ASSUME TypeOK, NEW t \in Tasks, Agree(t), Relies(t), Evict \/ Tick \/ UNCHANGED vars
    PROVE  Agree(t)' /\ Relies(t)'
<1>1. UNCHANGED <<store, handle, control, locals, expired>>
  BY DEF Evict, Tick, vars
<1>2. Agree(t)'
  <2> SUFFICES ASSUME NEW o \in Objects
               PROVE  /\ DiskAgrees(o)' \/ Writing(t, o)'
                      /\ TempGone(o)' \/ Filling(t, o)'
                      /\ MetaAgrees(o)' \/ MetaLags(t, o)'
                      /\ BodyAgrees(o)' \/ BodyLags(t, o)'
    BY DEF Agree
  <2>1. /\ DiskAgrees(o)' \/ Writing(t, o)'
        /\ TempGone(o)' \/ Filling(t, o)'
    BY <1>1 DEF Agree, DiskAgrees, TempGone, Writing, Filling, Stored, Obj, store, control
  <2>2. /\ meta'[o] = meta[o] \/ meta'[o] = None
        /\ body'[o] = body[o] \/ body'[o] = None
    BY DEF Evict, Tick, vars, caches, TypeOK, StoresOK
  <2>3. /\ MetaAgrees(o) \/ MetaLags(t, o)
        /\ BodyAgrees(o) \/ BodyLags(t, o)
    BY DEF Agree
  <2>4. (MetaLags(t, o) => MetaLags(t, o)') /\ (BodyLags(t, o) => BodyLags(t, o)')
    BY <1>1 DEF MetaLags, BodyLags, Obj, control, locals
  <2>5. files' = files
    BY <1>1 DEF store
  <2> QED BY <2>1, <2>2, <2>3, <2>4, <2>5 DEF MetaAgrees, BodyAgrees, Stored
<1>3. UploadRelies(t)' /\ ReaderRelies(t)' /\ BucketRelies(t)'
  BY <1>1 DEF Relies, UploadRelies, ReaderRelies, BucketRelies, NewRow, Stored, Obj, store,
     control, locals
<1>4. now \in Nat /\ now' \in Nat /\ now <= now'
  BY DEF Evict, Tick, vars, clock, TypeOK, StoresOK
<1>5. ASSUME NEW r \in Rows PROVE (Expired(r) => Expired(r)') /\ (Due(r) => Due(r)')
  BY <1>4 DEF Expired, Due, Rows
<1>6. DeletionRelies(t)'
  <2>1. Stored(Obj(t)) /\ pc[t] \in DeleteLabels => files[Obj(t)] \in Rows
    BY DEF TypeOK, TaskHolds, StoresOK, Stored
  <2> QED BY <1>1, <1>5, <2>1 DEF Relies, DeletionRelies, Stored, Obj, store, control, locals
<1>7. SweepRelies(t)'
  <2>1. \A o \in expired : Stored(o) => files[o] \in Rows
    BY DEF TypeOK, TasksOK, StoresOK, Stored
  <2> QED BY <1>1, <1>5, <2>1 DEF Relies, SweepRelies, Stored, store, control
<1> QED BY <1>2, <1>3, <1>6, <1>7 DEF Relies

\* A task that steps is the one in flight, and everything agrees but for it.
LEMMA CoherentFor ==
    ASSUME TypeOK, Coherent, Sequential, NEW u \in Tasks, StepOf(u)
    PROVE  Agree(u) /\ Relies(u) /\ Quiet(u)
<1>1. PICK t \in Tasks : /\ \A x \in Tasks \ {t} : pc[x] = "idle"
                         /\ Agree(t) /\ Relies(t)
  BY DEF Coherent
<1>2. Quiet(u)
  BY <1>1, MovesOnlyItself DEF AllIdle, Sequential, Quiet
<1>3. CASE u = t
  BY <1>1, <1>2, <1>3
<1>4. CASE u # t
  <2>1. AllIdle
    BY <1>1, <1>4, MovesOnlyItself DEF Sequential
  <2>2. Agree(u)
    BY <1>1, <2>1 DEF AllIdle, Agree, Writing, Filling, MetaLags, BodyLags, BucketTail
  <2>3. Relies(u)
    BY <2>1 DEF AllIdle, Relies, UploadRelies, ReaderRelies, DeletionRelies,
       SweepRelies, BucketRelies, BucketTail
  <2> QED BY <1>2, <2>2, <2>3
<1> QED BY <1>3, <1>4

\* One request at a time, without deduplication and faults, everything agrees but for
\* what the task in flight is about to set right.
LEMMA CoherentAlways ==
    ASSUME Sequential PROVE Spec => []Coherent
<1>1. Init => Coherent
  <2> SUFFICES ASSUME Init PROVE Coherent
    OBVIOUS
  <2>1. Agree(Preloader)
    BY DiskNameType DEF Init, Agree, DiskAgrees, TempGone, MetaAgrees, BodyAgrees, Stored
  <2>2. Relies(Preloader)
    BY DEF Init, Relies, UploadRelies, ReaderRelies, DeletionRelies, SweepRelies,
       BucketRelies, BucketTail
  <2> QED BY <2>1, <2>2 DEF Init, Coherent
<1>2. TypeOK /\ OwnBytes /\ Coherent /\ [Next]_vars => Coherent'
  <2> SUFFICES ASSUME TypeOK, OwnBytes, Coherent, [Next]_vars PROVE Coherent'
    OBVIOUS
  <2>1. PICK t \in Tasks : /\ \A x \in Tasks \ {t} : pc[x] = "idle"
                           /\ Agree(t) /\ Relies(t)
    BY DEF Coherent
  <2>2. ASSUME NEW u \in Tasks, StepOf(u) PROVE Coherent'
    <3>1. Agree(u) /\ Relies(u) /\ Quiet(u)
      BY <2>2, CoherentFor
    <3>2. Agree(u)' /\ Relies(u)'
      BY <2>2, <3>1, DiskStep, CacheStep, ReliesStep DEF Agree
    <3> QED BY <3>1, <3>2 DEF Coherent, Quiet
  <2>3. CASE Restart
    BY <2>3 DEF Restart, Sequential
  <2>4. CASE Evict \/ Tick \/ UNCHANGED vars
    <3>1. Agree(t)' /\ Relies(t)'
      BY <2>1, <2>4, EnvironmentStep
    <3>2. pc' = pc
      BY <2>4 DEF Evict, Tick, vars, control
    <3> QED BY <2>1, <3>1, <3>2 DEF Coherent
  <2> QED BY <2>2, <2>3, <2>4, WhoSteps
<1>3. Spec => []OwnBytes
  BY OwnBytesAlways DEF Sequential
<1> QED BY <1>1, <1>2, <1>3, TypeCorrect, PTL DEF Spec

\* Whatever task may be in flight, at rest every object agrees.
LEMMA AgreeAtRest ==
    ASSUME Coherent, AllIdle, NEW o \in Objects
    PROVE  DiskAgrees(o) /\ TempGone(o) /\ MetaAgrees(o) /\ BodyAgrees(o)
<1>1. PICK t \in Tasks : Agree(t)
  BY DEF Coherent
<1> QED BY <1>1 DEF AllIdle, Agree, Writing, Filling, MetaLags, BodyLags, BucketTail

\* At rest the bytes of every row are those whose digest the row records: the order
\* of store_file (bytes, then row) and of delete_file (row, then bytes) leaves no
\* object half replaced, for any requests, one after another.
THEOREM BytesMatchRows ==
    ASSUME Sequential PROVE Spec => []IntegrityAtRest
<1>1. OwnBytes /\ Coherent => IntegrityAtRest
  BY AgreeAtRest DEF IntegrityAtRest, OwnBytes, OwnRows, DiskAgrees
<1>2. Spec => []OwnBytes
  BY OwnBytesAlways DEF Sequential
<1> QED BY <1>1, <1>2, CoherentAlways, PTL

\* At rest every file under base_path is the file of a row: temporary files are
\* renamed, delete_file unlinks and delete_bucket removes the whole directory.
THEOREM NoFileWithoutRow ==
    ASSUME Sequential PROVE Spec => []NoOrphansAtRest
<1>1. OwnBytes /\ Coherent => NoOrphansAtRest
  <2> SUFFICES ASSUME OwnBytes, Coherent, AllIdle, NEW p \in DiskNames, disk[p] # None
               PROVE  \E o \in Objects : Stored(o) /\ files[o].path = p
    BY DEF NoOrphansAtRest
  <2>1. PICK o \in Objects : p \in {get_file_path(o), temp_path(o)}
    <3>1. PICK b \in Buckets, k \in Keys : p = <<b, k>> \/ p = <<b, TempName[k]>>
      BY DEF DiskNames
    <3>2. [bucket |-> b, key |-> k] \in Objects
      BY DEF Objects
    <3> QED BY <3>1, <3>2 DEF get_file_path, temp_path
  <2>2. DiskAgrees(o) /\ TempGone(o)
    BY AgreeAtRest
  <2>3. p = get_file_path(o)
    BY <2>1, <2>2 DEF TempGone
  <2>4. Stored(o)
    BY <2>2, <2>3 DEF DiskAgrees
  <2> QED BY <2>3, <2>4 DEF OwnBytes, OwnRows
<1>2. Spec => []OwnBytes
  BY OwnBytesAlways DEF Sequential
<1> QED BY <1>1, <1>2, CoherentAlways, PTL

\* At rest a cached row is the row of the table and a cached body its content:
\* what store_file warms, get_file and the preloader fill and delete_file and
\* delete_bucket invalidate leaves no stale entry, whatever is evicted meanwhile.
THEOREM CacheMatchesRows ==
    ASSUME Sequential PROVE Spec => []CacheCoherentAtRest
<1>1. Coherent => CacheCoherentAtRest
  BY AgreeAtRest DEF CacheCoherentAtRest, MetaAgrees, BodyAgrees
<1> QED BY <1>1, CoherentAlways, PTL

\* get_file and get_file_info delete a row only when it has expired: the copy of the
\* row they judge by, cached or read, is the row they delete.
THEOREM ReapsOnlyDead ==
    ASSUME Sequential PROVE Spec => []ReadersReapOnlyDead
<1>1. Coherent => ReadersReapOnlyDead
  <2> SUFFICES ASSUME Coherent, NEW t \in Clients, pc[t] = "del_row",
                      req[t].op \in {"get", "info"}, Stored(Obj(t))
               PROVE  Expired(files[Obj(t)])
    BY DEF ReadersReapOnlyDead
  <2>1. PICK u \in Tasks : /\ \A x \in Tasks \ {u} : pc[x] = "idle"
                           /\ Relies(u)
    BY DEF Coherent
  <2>2. u = t
    BY <2>1
  <2> QED BY <2>1, <2>2 DEF Relies, DeletionRelies
<1> QED BY <1>1, CoherentAlways, PTL

-----------------------------------------------------------------------------
(* Every step is a step of ObjectMap.                                      *)

\* What a client's request looks like at each step, and when it was made.  A reader
\* that has passed the expiry check holds a row that was alive when it was asked for.
HistTask(t) ==
    /\ asked[t] \in Nat /\ asked[t] <= now
    /\ pc[t] = "idle" => req[t] = NoRequest /\ asked[t] = 0
    /\ pc[t] \notin {"sweep_next", "preload_read", "preload_fill"}
    /\ pc[t] \in BucketLabels => req[t].op = "delete_bucket"
    /\ pc[t] \in DeleteLabels => req[t].op # "sweep"
    /\ pc[t] \in UploadLabels => req[t].bucket = Obj(t).bucket
    /\ pc[t] \in {"get_body", "read_disk", "fill_body"}
         => row[t].expires = 0 \/ row[t].expires > asked[t]

\* The sweep deletes on nobody's request.
SweepAsks == pc[Sweeper] \in DeleteLabels => req[Sweeper].op = "sweep"

Hist ==
    /\ asked \in [Clients -> Nat] /\ \A t \in Clients : HistTask(t)
    /\ SweepAsks

\* The history variable's part of HNext.
Asking == asked' = [t \in Clients |-> IF pc'[t] = "idle" THEN 0
                                      ELSE IF pc[t] = "idle" THEN now ELSE asked[t]]

\* A task changes nobody else's request.
LEMMA RequestsApart ==
    ASSUME TypeOK, NEW t \in Tasks, StepOf(t)
    PROVE  \A x \in Tasks \ {t} : req'[x] = req[x]
<1> DEFINE Goal == \A x \in Tasks \ {t} : req'[x] = req[x]
<1>1. ASSUME NEW r, req' = [req EXCEPT ![t] = r] PROVE Goal
  BY <1>1 DEF TypeOK, TasksOK
<1>2. ASSUME NEW label, Goto(t, label) PROVE Goal
  BY <1>2 DEF Goto
<1>3. ASSUME Finish(t) PROVE Goal
  BY <1>1, <1>3 DEF Finish
<1>4. ASSUME NEW answer, AfterDelete(t, answer) PROVE Goal
  BY <1>2, <1>3, <1>4 DEF AfterDelete, Return, Respond
<1>5. CASE StartStore(t) \/ StartOnObject(t) \/ StartOnBucket(t)
  <2>1. PICK op, label, b, o, c, e : Accept(t, op, label, b, o, c, e)
    BY <1>5 DEF StartStore, StartOnObject, StartOnBucket
  <2> QED BY <1>1, <2>1 DEF Accept
<1>6. CASE StoreStep(t)
  BY <1>2, <1>3, <1>6 DEF StoreStep, EnsureBucket, Dedup, AliasSave,
     AliasSaveRejected, WriteStep, CreateTemp, FillTemp, RenameTemp, RenameFails,
     WriteFails, SaveRow, SaveFails, WarmMeta, WarmBody, Return, Respond
<1>7. CASE ReadStep(t)
  BY <1>2, <1>3, <1>7 DEF ReadStep, GetMeta, GetRow, FillMeta, GetBody, ReadDisk,
     ReadFails, FillBody, GetInfo, AfterRow, Return, Respond
<1>8. CASE DeleteStep(t) \/ DbError(t)
  BY <1>2, <1>3, <1>4, <1>8 DEF DeleteStep, DelFind, DelCount, DelRow, Unlink,
     Invalidate, DbError, Return, Respond
<1>9. CASE BucketNext(t)
  BY <1>1, <1>9, NextListed
<1>10. CASE BucketStep(t) /\ ~BucketNext(t)
  BY <1>2, <1>3, <1>10 DEF BucketStep, ListBucket, DropBucket,
     BucketUnlink, BucketInvalidate, RmDir, Return, Respond
<1>11. CASE Drop(t)
  BY <1>3, <1>11 DEF Drop
<1>12. CASE t = Sweeper /\ Sweep
  BY <1>1, <1>2, <1>3, <1>12 DEF Sweep, SweepList, SweepNext, SweepDone
<1>13. CASE t = Preloader /\ Preload
  BY <1>1, <1>2, <1>3, <1>13 DEF Preload, PreloadList, PreloadRead, PreloadFill,
     PreloadDone, control
<1> QED BY <1>5, <1>6, <1>7, <1>8, <1>9, <1>10, <1>11, <1>12, <1>13 DEF StepOf, Client

\* A finished request leaves no trace.
LEMMA HistFinish ==
    ASSUME TypeOK, NEW t \in Clients, Finish(t), Asking, now' \in Nat
    PROVE  HistTask(t)'
BY DEF Finish, Asking, HistTask, TypeOK, TasksOK

\* A request that goes on to a step that relies on nothing new.
LEMMA HistGoto ==
    ASSUME TypeOK, Hist, NEW t \in Clients, Relies(t), pc[t] # "idle",
           NEW label, Goto(t, label), Asking, now' = now,
           \/ label \in ReadLabels \ {"get_body", "read_disk", "fill_body"}
           \/ label \in UploadLabels /\ pc[t] \in UploadLabels
           \/ label \in DeleteLabels /\ pc[t] \in DeleteLabels \union ReadLabels
           \/ label \in BucketLabels /\ pc[t] \in BucketLabels
           \/ label \in {"read_disk", "fill_body"} /\ row' = row
                /\ pc[t] \in {"get_body", "read_disk"}
    PROVE  HistTask(t)'
<1>1. HistTask(t) /\ pc'[t] = label /\ req' = req /\ asked'[t] = asked[t]
  BY DEF Hist, Goto, Asking, TypeOK, TasksOK
<1>2. pc[t] \in ReadLabels => req[t].op # "sweep"
  BY DEF Relies, ReaderRelies, TypeOK, TaskHolds
<1> QED BY <1>1, <1>2 DEF HistTask, Obj

\* Every step of a client keeps the account of its request.
LEMMA HistStep ==
    ASSUME TypeOK, TypeOK', Sequential, Hist, NEW t \in Clients, Agree(t), Relies(t), StepOf(t),
           Asking
    PROVE  HistTask(t)'
<1>1. HistTask(t) /\ t \in Tasks /\ now \in Nat /\ now' \in Nat
  BY DEF Hist, TypeOK, StoresOK
<1>2. ASSUME Finish(t) PROVE HistTask(t)'
  BY <1>1, <1>2, HistFinish
<1>3. ASSUME NEW answer, AfterDelete(t, answer), pc[t] \in DeleteLabels PROVE HistTask(t)'
  BY <1>1, <1>2, <1>3 DEF AfterDelete, Return, Respond, HistTask
<1>4. CASE StartStore(t) \/ StartOnObject(t) \/ StartOnBucket(t)
  <2>1. PICK op, label, b, o, c, e :
          /\ Accept(t, op, label, b, o, c, e)
          /\ \/ label \in {"ensure", "get_meta", "info"}
             \/ label = "del_find" /\ op = "delete"
             \/ label = "list_bucket" /\ op = "delete_bucket"
    BY <1>4 DEF StartStore, StartOnObject, StartOnBucket
  <2>2. /\ pc'[t] = label /\ pc[t] = "idle" /\ now' = now /\ req'[t].op = op
        /\ asked'[t] = now
    BY <1>1, <2>1 DEF Accept, MayStart, Asking, TypeOK, TasksOK
  <2> QED BY <1>1, <2>1, <2>2 DEF HistTask
<1>5. CASE EnsureBucket(t)
  <2>1. CASE Goto(t, "dedup") /\ req[t].op = "store"
    <3>1. /\ pc'[t] = "dedup" /\ req' = req /\ asked'[t] = asked[t] /\ now' = now
          /\ req[t].bucket = Obj(t).bucket
      BY <1>5, <2>1 DEF EnsureBucket, Goto, Asking, clock, Relies, UploadRelies, TypeOK,
         TasksOK
    <3> QED BY <1>1, <3>1 DEF HistTask, Obj
  <2> QED BY <1>2, <1>5, <2>1 DEF EnsureBucket, Return, Respond
<1>6. CASE Dedup(t) \/ CreateTemp(t) \/ FillTemp(t) \/ RenameTemp(t) \/ SaveRow(t)
           \/ WarmMeta(t)
  <2>1. /\ pc[t] \in UploadLabels /\ now' = now
        /\ \E label \in UploadLabels : Goto(t, label)
    BY <1>6 DEF Dedup, CreateTemp, FillTemp, RenameTemp, SaveRow, WarmMeta, clock,
       Sequential
  <2> QED BY <2>1, HistGoto
<1>7. CASE AliasSave(t) \/ AliasSaveRejected(t) \/ RenameFails(t) \/ WriteFails(t)
           \/ SaveFails(t) \/ WarmBody(t) \/ ReadFails(t) \/ FillBody(t) \/ RmDir(t)
           \/ Drop(t)
  BY <1>2, <1>7 DEF AliasSave, AliasSaveRejected, RenameFails, WriteFails, SaveFails,
     WarmBody, ReadFails, FillBody, RmDir, Drop, Return, Respond
<1>8. ASSUME NEW r \in Rows, AfterRow(t, r, "get_body"), row'[t] = r, now' = now,
             pc[t] \in {"get_meta", "fill_meta"}
      PROVE  HistTask(t)'
  <2>1. CASE Expired(r)
    BY <1>8, <2>1, HistGoto DEF AfterRow
  <2>2. CASE ~Expired(r)
    <3>1. /\ pc'[t] = "get_body" /\ req' = req /\ asked'[t] = asked[t]
          /\ asked[t] \in Nat /\ asked[t] <= now
      BY <1>1, <1>8, <2>2 DEF AfterRow, Goto, Asking, HistTask, TypeOK, TasksOK
    <3>2. r.expires = 0 \/ r.expires > asked[t]
      BY <1>1, <2>2, <3>1 DEF Expired, Rows
    <3> QED BY <1>1, <1>8, <3>1, <3>2 DEF HistTask
  <2> QED BY <2>1, <2>2
<1>9. CASE GetMeta(t)
  <2>1. now' = now /\ pc[t] = "get_meta" /\ Obj(t) \in Objects
    BY <1>9 DEF GetMeta, clock, TypeOK, TaskHolds
  <2>2. CASE Goto(t, "get_row")
    BY <2>1, <2>2, HistGoto
  <2>3. ASSUME NEW r \in Rows, AfterRow(t, r, "get_body"), row' = [row EXCEPT ![t] = r]
        PROVE  HistTask(t)'
    BY <1>1, <1>8, <2>1, <2>3 DEF TypeOK, TasksOK
  <2>4. meta[Obj(t)] # None => meta[Obj(t)] \in Rows
    BY <2>1 DEF TypeOK, StoresOK
  <2> QED BY <1>9, <2>2, <2>3, <2>4 DEF GetMeta, backend_get, Unless, Sequential
<1>10. CASE GetRow(t) \/ GetInfo(t)
  <2>1. now' = now /\ pc[t] \in {"get_row", "info"}
    BY <1>10 DEF GetRow, GetInfo, clock
  <2> QED BY <1>2, <1>10, <2>1, HistGoto DEF GetRow, GetInfo, Return, Respond
<1>11. CASE FillMeta(t)
  BY <1>8, <1>11 DEF FillMeta, clock, locals, TypeOK, TaskHolds
<1>12. CASE GetBody(t)
  BY <1>2, <1>12, HistGoto DEF GetBody, clock, locals, Respond
<1>13. CASE ReadDisk(t)
  BY <1>13, HistGoto DEF ReadDisk, clock
<1>14. CASE DelFind(t)
  BY <1>3, <1>14, HistGoto DEF DelFind, clock
<1>15. CASE DelCount(t) \/ DelRow(t) \/ Unlink(t)
  BY <1>15, HistGoto DEF DelCount, DelRow, Unlink, clock
<1>16. CASE Invalidate(t)
  BY <1>3, <1>16 DEF Invalidate
<1>17. CASE ListBucket(t) \/ BucketUnlink(t) \/ BucketInvalidate(t)
  BY <1>17, HistGoto DEF ListBucket, BucketUnlink, BucketInvalidate, clock
<1>18. CASE DropBucket(t)
  BY <1>2, <1>18, HistGoto DEF DropBucket, clock, Return, Respond
<1>19. CASE BucketNext(t)
  <2>1. /\ pc'[t] = "bucket_unlink" /\ pc[t] = "bucket_next" /\ req'[t].op = req[t].op
        /\ now' = now /\ asked'[t] = asked[t]
    BY <1>1, <1>19, NextListed DEF BucketNext, clock, Asking, TypeOK, TasksOK
  <2> QED BY <1>1, <2>1 DEF HistTask
<1>20. CASE DbError(t)
  BY <1>20 DEF DbError, Sequential
<1> QED BY <1>4, <1>5, <1>6, <1>7, <1>9, <1>10, <1>11, <1>12, <1>13, <1>14, <1>15,
       <1>16, <1>17, <1>18, <1>19, <1>20, TasksAssumption
       DEF StepOf, Client, StoreStep, WriteStep, ReadStep, DeleteStep, BucketStep

\* The abstract state.
MapObjects == [o \in Objects |-> VersionOf(files[o])]
MapCalls == [t \in Clients |-> CallOf(t)]
MapAnswer == [out EXCEPT !.obj = About(out.op, @)]

\* Only the call of the client that steps can change.
LEMMA CallsApart ==
    ASSUME TypeOK, Hist, NEW t \in Tasks, StepOf(t), Quiet(t), Asking
    PROVE  /\ t \notin Clients => MapCalls' = MapCalls
           /\ t \in Clients => MapCalls' = [MapCalls EXCEPT ![t] = CallOf(t)']
<1>1. ASSUME NEW x \in Clients, x # t PROVE CallOf(x)' = CallOf(x)
  <2>1. /\ pc[x] = "idle" /\ pc'[x] = "idle" /\ req'[x] = req[x]
        /\ asked'[x] = 0 /\ asked[x] = 0
    BY <1>1, RequestsApart DEF Quiet, Asking, Hist, HistTask
  <2> QED BY <2>1 DEF CallOf, Effected, About
<1> QED BY <1>1 DEF MapCalls

\* The steps of the map, on the abstract state.
LEMMA MapInvoke ==
    ASSUME NEW t \in Clients, MapCalls[t] = Map!NoCall,
           MapCalls' = [MapCalls EXCEPT ![t] = MapCalls'[t]],
           MapCalls'[t] \in Map!Calls, MapCalls'[t].since = now, ~MapCalls'[t].done,
           UNCHANGED <<MapObjects, buckets, now, MapAnswer>>
    PROVE  Map!Next
BY DEF Map!Next, Map!Invoke, MapObjects, MapCalls, MapAnswer

\* What a step must do to the mapped variables to be EnsureBucket of ObjectMap.
LEMMA MapEnsure ==
    ASSUME NEW t \in Clients, MapCalls[t].op = "store", ~MapCalls[t].done,
           buckets' = buckets \union {MapCalls[t].bucket},
           UNCHANGED <<MapObjects, now, MapCalls, MapAnswer>>
    PROVE  Map!Next
BY DEF Map!Next, Map!EnsureBucket, Map!Pending, MapObjects, MapCalls, MapAnswer

\* To be Put: the version asked for replaces what the map held.
LEMMA MapPut ==
    ASSUME NEW t \in Clients, MapCalls[t].op = "store", ~MapCalls[t].done,
           MapCalls[t].bucket \in buckets,
           MapObjects' = [MapObjects EXCEPT ![MapCalls[t].obj] =
                            [content |-> MapCalls[t].content,
                             expires |-> MapCalls[t].expires]],
           MapCalls' = [MapCalls EXCEPT ![t].done = TRUE],
           UNCHANGED <<buckets, now, MapAnswer>>
    PROVE  Map!Next
BY DEF Map!Next, Map!Put, Map!Pending, Map!Done, MapObjects, MapCalls, MapAnswer

\* To be Delete: the object asked for goes.
LEMMA MapDelete ==
    ASSUME NEW t \in Clients, MapCalls[t].op = "delete", ~MapCalls[t].done,
           MapObjects[MapCalls[t].obj] # None,
           MapObjects' = [MapObjects EXCEPT ![MapCalls[t].obj] = None],
           MapCalls' = [MapCalls EXCEPT ![t].done = TRUE],
           UNCHANGED <<buckets, now, MapAnswer>>
    PROVE  Map!Next
BY DEF Map!Next, Map!Delete, Map!Pending, Map!Present, Map!Done, MapObjects, MapCalls,
   MapAnswer

\* To be DeleteBucket: the bucket goes with every object in it.
LEMMA MapDeleteBucket ==
    ASSUME NEW t \in Clients, MapCalls[t].op = "delete_bucket", ~MapCalls[t].done,
           MapCalls[t].bucket \in buckets,
           buckets' = buckets \ {MapCalls[t].bucket},
           MapObjects' = [o \in Objects |-> IF o.bucket = MapCalls[t].bucket THEN None
                                            ELSE MapObjects[o]],
           MapCalls' = [MapCalls EXCEPT ![t].done = TRUE],
           UNCHANGED <<now, MapAnswer>>
    PROVE  Map!Next
BY DEF Map!Next, Map!DeleteBucket, Map!Pending, Map!Done, Map!Objects, MapObjects,
   MapCalls, MapAnswer, Objects

\* To be Expire: an object goes whose time is over.
LEMMA MapExpire ==
    ASSUME NEW o \in Objects, MapObjects[o] # None, MapObjects[o].expires # 0,
           MapObjects[o].expires <= now,
           MapObjects' = [MapObjects EXCEPT ![o] = None],
           UNCHANGED <<MapCalls, buckets, now, MapAnswer>>
    PROVE  Map!Next
BY DEF Map!Next, Map!Expire, Map!Present, Map!Gone, Map!Objects, MapObjects, MapCalls,
   MapAnswer, Objects

\* A version that was alive when it was asked for.
Alive(t) ==
    /\ MapObjects[MapCalls[t].obj] # None
    /\ \/ MapObjects[MapCalls[t].obj].expires = 0
       \/ ~(MapObjects[MapCalls[t].obj].expires <= MapCalls[t].since)

\* To be Reply: the answer is one the map may give at this moment.
LEMMA MapReply ==
    ASSUME NEW t \in Clients, NEW status, NEW data,
           MapAnswer' = [op |-> MapCalls[t].op, obj |-> MapCalls[t].obj,
                         status |-> status, data |-> data],
           MapCalls' = [MapCalls EXCEPT ![t] = Map!NoCall],
           UNCHANGED <<MapObjects, now>>,
           \/ MapCalls[t].done /\ status = "ok" /\ data = {} /\ UNCHANGED buckets
           \/ /\ MapCalls[t].op = "create_bucket" /\ ~MapCalls[t].done
              /\ status = "ok" /\ data = {}
              /\ buckets' = buckets \union {MapCalls[t].bucket}
           \/ /\ MapCalls[t].op = "get" /\ ~MapCalls[t].done /\ Alive(t)
              /\ status = "bytes" /\ data = {MapObjects[MapCalls[t].obj].content}
              /\ UNCHANGED buckets
           \/ /\ MapCalls[t].op = "info" /\ ~MapCalls[t].done /\ Alive(t)
              /\ status = "ok" /\ data = {MapObjects[MapCalls[t].obj].content}
              /\ UNCHANGED buckets
           \/ /\ MapCalls[t].op \in {"get", "info", "delete"} /\ ~MapCalls[t].done
              /\ MapObjects[MapCalls[t].obj] = None
              /\ status = "not_found" /\ data = {} /\ UNCHANGED buckets
           \/ /\ MapCalls[t].op = "delete_bucket" /\ ~MapCalls[t].done
              /\ MapCalls[t].bucket \notin buckets
              /\ status = "not_found" /\ data = {} /\ UNCHANGED buckets
    PROVE  Map!Next
<1>1. Map!Answer(t, status, data)
  BY DEF Map!Answer, MapObjects, MapCalls, MapAnswer
<1>2. Alive(t) => Map!Live(t)
  BY DEF Alive, Map!Live, Map!Present, Map!Gone, MapObjects, MapCalls
<1>3. Map!Reply(t)
  BY <1>1, <1>2 DEF Map!Reply, Map!Pending, Map!Present, MapObjects, MapCalls
<1> QED BY <1>3 DEF Map!Next

\* To be Tick.
LEMMA MapTick ==
    ASSUME now' = now + 1, UNCHANGED <<MapObjects, buckets, MapCalls, MapAnswer>>
    PROVE  Map!Next
BY DEF Map!Next, Map!Tick, MapObjects, MapCalls, MapAnswer

\* And to be invisible.
LEMMA MapStutters ==
    ASSUME UNCHANGED <<MapObjects, buckets, now, MapCalls, MapAnswer>>
    PROVE  UNCHANGED Map!mapVars
BY DEF Map!mapVars, MapObjects, MapCalls, MapAnswer

\* A row is a version, and no row is none.
LEMMA VersionOfRow ==
    ASSUME TypeOK, NEW o \in Objects
    PROVE  /\ MapObjects[o] = VersionOf(files[o])
           /\ ~Stored(o) => MapObjects[o] = None
           /\ Stored(o) => /\ MapObjects[o] # None
                           /\ MapObjects[o].content = files[o].hash
                           /\ MapObjects[o].expires = files[o].expires
<1>1. MapObjects[o] = VersionOf(files[o])
  BY DEF MapObjects
<1>2. Stored(o) => [content |-> files[o].hash, expires |-> files[o].expires] # None
  BY VersionAssumption DEF TypeOK, StoresOK, Stored, Rows
<1> QED BY <1>1, <1>2 DEF VersionOf, Stored

\* A client's call on the abstract state.
LEMMA CallFields ==
    ASSUME NEW t \in Clients
    PROVE  /\ MapCalls[t] = CallOf(t)
           /\ MapCalls[t].op = req[t].op /\ MapCalls[t].bucket = req[t].bucket
           /\ MapCalls[t].obj = About(req[t].op, req[t].obj)
           /\ MapCalls[t].content = req[t].content
           /\ MapCalls[t].expires = req[t].expires
           /\ MapCalls[t].since = asked[t] /\ MapCalls[t].done = Effected(t)
BY DEF MapCalls, CallOf

\* A handler that answers ends its call with that answer.
LEMMA RespondMaps ==
    ASSUME TypeOK, Hist, NEW t \in Clients, StepOf(t), Quiet(t), Asking,
           NEW status, NEW data, Respond(t, status, data), UNCHANGED <<files, now>>
    PROVE  /\ MapAnswer' = [op |-> MapCalls[t].op, obj |-> MapCalls[t].obj,
                            status |-> status, data |-> data]
           /\ MapCalls' = [MapCalls EXCEPT ![t] = Map!NoCall]
           /\ UNCHANGED <<MapObjects, now>>
<1>1. pc'[t] = "idle" /\ req'[t] = NoRequest /\ asked'[t] = 0
  BY DEF Respond, Finish, Asking, TypeOK, TasksOK
<1>2. CallOf(t)' = Map!NoCall
  BY <1>1 DEF CallOf, NoRequest, Effected, About, Map!NoCall
<1>3. MapCalls' = [MapCalls EXCEPT ![t] = Map!NoCall]
  BY <1>2, CallsApart
<1>4. out' = [op |-> req[t].op, obj |-> req[t].obj, status |-> status, data |-> data]
  BY DEF Respond
<1>5. MapAnswer' = [out' EXCEPT !.obj = About(out'.op, out'.obj)]
  BY DEF MapAnswer, About
<1>6. MapAnswer' = [op |-> req[t].op, obj |-> About(req[t].op, req[t].obj),
                    status |-> status, data |-> data]
  BY <1>4, <1>5
<1> QED BY <1>3, <1>6, CallFields DEF MapObjects, VersionOf

\* A handler that goes on, short of or past the moment of its effect, is invisible.
LEMMA GotoStutters ==
    ASSUME TypeOK, Hist, NEW t \in Clients, StepOf(t), Quiet(t), Asking,
           NEW label, Goto(t, label), pc[t] # "idle", label # "idle",
           Effected(t)' = Effected(t), UNCHANGED <<files, buckets, now>>
    PROVE  UNCHANGED Map!mapVars
<1>1. req' = req /\ asked'[t] = asked[t] /\ out' = out
  BY DEF Goto, Asking, TypeOK, TasksOK
<1>2. CallOf(t)' = CallOf(t)
  BY <1>1 DEF CallOf, About
<1>3. MapCalls' = MapCalls
  BY <1>2, CallsApart DEF MapCalls
<1> QED BY <1>1, <1>3, MapStutters DEF MapObjects, VersionOf, MapAnswer, About

\* An arriving request is a call of the map.
LEMMA StartMaps ==
    ASSUME TypeOK, Hist, NEW t \in Clients, StepOf(t), Quiet(t), Asking,
           StartStore(t) \/ StartOnObject(t) \/ StartOnBucket(t)
    PROVE  Map!Next
<1> DEFINE Shape(op, label, b, o, c, e) ==
             /\ Accept(t, op, label, b, o, c, e)
             /\ e \in Nat /\ (e = 0 \/ (op = "store" /\ e > now))
             /\ \/ /\ op = "store" /\ label = "ensure" /\ o \in Objects
                   /\ b = o.bucket /\ c \in Contents
                \/ /\ <<op, label>> \in {<<"get", "get_meta">>, <<"info", "info">>,
                                         <<"delete", "del_find">>}
                   /\ o \in Objects /\ b = o.bucket /\ c = None
                \/ /\ <<op, label>> \in {<<"create_bucket", "ensure">>,
                                         <<"delete_bucket", "list_bucket">>}
                   /\ b \in Buckets /\ o = None /\ c = None
<1>1. now \in Nat /\ t \in Tasks
  BY DEF TypeOK, StoresOK
<1>2. \E op, label, b, o, c, e : Shape(op, label, b, o, c, e)
  <2>1. CASE StartStore(t)
    <3>1. PICK o \in Objects, c \in Contents, ttl \in TTLs \union {0} :
            Accept(t, "store", "ensure", o.bucket, o, c,
                   IF ttl = 0 THEN 0 ELSE now + ttl)
      BY <2>1 DEF StartStore
    <3>2. CASE ttl = 0
      <4>1. Shape("store", "ensure", o.bucket, o, c, 0)
        BY <1>1, <3>1, <3>2
      <4> QED BY <4>1
    <3>3. CASE ttl # 0
      <4>1. ttl \in Nat /\ now + ttl \in Nat /\ now + ttl > now
        BY <1>1, <3>3, ConfigAssumption
      <4>2. Shape("store", "ensure", o.bucket, o, c, now + ttl)
        BY <3>1, <3>3, <4>1
      <4> QED BY <4>2
    <3> QED BY <3>2, <3>3
  <2>2. CASE StartOnObject(t)
    <3>1. PICK o \in Objects :
            \/ Accept(t, "get", "get_meta", o.bucket, o, None, 0)
            \/ Accept(t, "info", "info", o.bucket, o, None, 0)
            \/ Accept(t, "delete", "del_find", o.bucket, o, None, 0)
      BY <2>2 DEF StartOnObject
    <3>2. \/ Shape("get", "get_meta", o.bucket, o, None, 0)
          \/ Shape("info", "info", o.bucket, o, None, 0)
          \/ Shape("delete", "del_find", o.bucket, o, None, 0)
      BY <3>1
    <3> HIDE DEF Shape
    <3> QED BY <3>2
  <2>3. CASE StartOnBucket(t)
    <3>1. PICK b \in Buckets :
            \/ Accept(t, "create_bucket", "ensure", b, None, None, 0)
            \/ Accept(t, "delete_bucket", "list_bucket", b, None, None, 0)
      BY <2>3 DEF StartOnBucket
    <3>2. \/ Shape("create_bucket", "ensure", b, None, None, 0)
          \/ Shape("delete_bucket", "list_bucket", b, None, None, 0)
      BY <3>1
    <3> HIDE DEF Shape
    <3> QED BY <3>2
  <2> QED BY <2>1, <2>2, <2>3
<1>3. PICK op, label, b, o, c, e : Shape(op, label, b, o, c, e)
  BY <1>2
<1>4. /\ req'[t] = [op |-> op, bucket |-> b, obj |-> o, content |-> c, expires |-> e]
      /\ pc[t] = "idle" /\ pc'[t] = label /\ asked'[t] = now
      /\ UNCHANGED <<files, buckets, now, out>>
  BY <1>1, <1>3 DEF Accept, MayStart, Asking, store, TypeOK, TasksOK
<1>5. MapCalls[t] = Map!NoCall
  <2>1. req[t] = NoRequest /\ asked[t] = 0
    BY <1>4 DEF Hist, HistTask
  <2>2. CallOf(t) = Map!NoCall
    BY <2>1 DEF CallOf, NoRequest, Effected, About, Map!NoCall
  <2> QED BY <2>2 DEF MapCalls
<1>6. About(op, o) = o
  BY <1>3 DEF About
<1>7. Effected(t)' = FALSE
  BY <1>3, <1>4 DEF Effected
<1>8. CallOf(t)' = [op |-> op, bucket |-> b, obj |-> o, content |-> c, expires |-> e,
                    since |-> now, done |-> FALSE]
  <2>1. CallOf(t)' = [op |-> req'[t].op, bucket |-> req'[t].bucket,
                      obj |-> About(req'[t].op, req'[t].obj),
                      content |-> req'[t].content, expires |-> req'[t].expires,
                      since |-> asked'[t], done |-> Effected(t)']
    BY DEF CallOf, About
  <2>2. CallOf(t)' = [op |-> op, bucket |-> b, obj |-> About(op, o), content |-> c,
                      expires |-> e, since |-> now, done |-> Effected(t)']
    BY <1>4, <2>1
  <2> QED BY <1>6, <1>7, <2>2, Zenon
<1>9. b \in Buckets /\ (o \in Objects => o # None) /\ (c \in Contents => c # None)
  BY <1>3, NoneAssumption DEF Objects
<1>10. CallOf(t)' \in Map!Calls
  <2> DEFINE call == [op |-> op, bucket |-> b, obj |-> o, content |-> c, expires |-> e,
                      since |-> now, done |-> FALSE]
  <2>1. call \in [op: Map!ObjectOps \union Map!BucketOps, bucket: Buckets,
                  obj: Map!Objects \union {None}, content: Contents \union {None},
                  expires: Nat, since: Nat, done: BOOLEAN]
    BY <1>1, <1>3, <1>9 DEF Map!ObjectOps, Map!BucketOps, Map!Objects, Objects
  <2>2. /\ call.op \in Map!ObjectOps => call.obj # None /\ call.bucket = call.obj.bucket
        /\ call.op \in Map!BucketOps => call.obj = None
        /\ (call.op = "store") = (call.content # None)
        /\ call.expires = 0 \/ (call.op = "store" /\ call.expires > call.since)
    BY <1>3, <1>9 DEF Map!ObjectOps, Map!BucketOps
  <2> QED BY <1>8, <2>1, <2>2 DEF Map!Calls
<1>11. MapCalls' = [MapCalls EXCEPT ![t] = CallOf(t)'] /\ MapCalls'[t] = CallOf(t)'
  BY CallsApart DEF MapCalls
<1>12. UNCHANGED <<MapObjects, MapAnswer>>
  BY <1>4 DEF MapObjects, VersionOf, MapAnswer, About
<1>13. MapCalls'[t].since = now /\ ~MapCalls'[t].done
  BY <1>8, <1>11
<1> QED BY <1>4, <1>5, <1>10, <1>11, <1>12, <1>13, MapInvoke

\* What it is to change the last field of a call.
LEMMA SetDone ==
    ASSUME NEW A, NEW B, NEW C, NEW D, NEW E, NEW F, NEW G, NEW yes,
           NEW r \in [op: A, bucket: B, obj: C, content: D, expires: E, since: F, done: G]
    PROVE  [r EXCEPT !.done = yes] =
             [op |-> r.op, bucket |-> r.bucket, obj |-> r.obj, content |-> r.content,
              expires |-> r.expires, since |-> r.since, done |-> yes]
OBVIOUS

\* The one moment of an upload, a deletion, a bucket deletion: the call is done.
LEMMA EffectMaps ==
    ASSUME TypeOK, Hist, NEW t \in Clients, StepOf(t), Quiet(t), Asking,
           NEW label, Goto(t, label), label # "idle", pc[t] # "idle",
           Effected(t) = FALSE, Effected(t)' = TRUE
    PROVE  MapCalls' = [MapCalls EXCEPT ![t].done = TRUE] /\ MapAnswer' = MapAnswer
<1>1. req' = req /\ asked'[t] = asked[t] /\ out' = out
  BY DEF Goto, Asking, TypeOK, TasksOK
<1>2. CallOf(t)' = [CallOf(t) EXCEPT !.done = TRUE]
  <2>1. CallOf(t)' = [op |-> req'[t].op, bucket |-> req'[t].bucket,
                      obj |-> About(req'[t].op, req'[t].obj),
                      content |-> req'[t].content, expires |-> req'[t].expires,
                      since |-> asked'[t], done |-> Effected(t)']
    BY DEF CallOf, About
  <2>2. CallOf(t)' = [op |-> req[t].op, bucket |-> req[t].bucket,
                      obj |-> About(req[t].op, req[t].obj),
                      content |-> req[t].content, expires |-> req[t].expires,
                      since |-> asked[t], done |-> TRUE]
    BY <1>1, <2>1, Zenon
  <2>3. PICK yes : yes = TRUE
    OBVIOUS
  <2>4. CallOf(t) \in [op: {req[t].op}, bucket: {req[t].bucket},
                       obj: {About(req[t].op, req[t].obj)}, content: {req[t].content},
                       expires: {req[t].expires}, since: {asked[t]}, done: BOOLEAN]
    BY DEF CallOf, Effected
  <2>5. /\ CallOf(t).op = req[t].op /\ CallOf(t).bucket = req[t].bucket
        /\ CallOf(t).obj = About(req[t].op, req[t].obj)
        /\ CallOf(t).content = req[t].content
        /\ CallOf(t).expires = req[t].expires /\ CallOf(t).since = asked[t]
    BY DEF CallOf
  <2>6. [CallOf(t) EXCEPT !.done = yes] =
          [op |-> req[t].op, bucket |-> req[t].bucket,
           obj |-> About(req[t].op, req[t].obj), content |-> req[t].content,
           expires |-> req[t].expires, since |-> asked[t], done |-> yes]
    BY <2>4, <2>5, SetDone
  <2> QED BY <2>2, <2>3, <2>6, Zenon
<1>3. MapCalls' = [MapCalls EXCEPT ![t] = CallOf(t)'] /\ MapCalls[t] = CallOf(t)
  BY CallsApart, CallFields
<1> QED BY <1>1, <1>2, <1>3 DEF MapAnswer, About

\* Every step of a handler is a step of the map, or invisible.
LEMMA ClientMaps ==
    ASSUME TypeOK, OwnBytes, Sequential, Hist, NEW t \in Clients, Agree(t), Relies(t),
           StepOf(t), Quiet(t), Asking
    PROVE  Map!Next \/ UNCHANGED Map!mapVars
<1> USE DEF BucketTail
<1> DEFINE Past == {"warm_meta", "warm_body", "unlink", "invalidate"} \union BucketTail
<1>1. /\ HistTask(t) /\ t \in Tasks /\ pc \in [Tasks -> Labels]
      /\ (pc[t] \in ObjectLabels => Obj(t) \in Objects)
      /\ files \in [Objects -> Rows \union {None}]
  BY DEF Hist, TypeOK, TasksOK, TaskHolds, StoresOK
<1>2. UploadRelies(t) /\ ReaderRelies(t) /\ DeletionRelies(t) /\ BucketRelies(t)
  BY DEF Relies
<1>3. ASSUME NEW label, Goto(t, label), pc[t] # "idle", label # "idle",
             UNCHANGED <<files, buckets, now>>,
             \/ pc[t] \notin Past /\ label \notin Past
             \/ pc[t] \in {"warm_meta", "warm_body"} /\ label \in {"warm_meta", "warm_body"}
             \/ pc[t] \in {"unlink", "invalidate"} /\ label \in {"unlink", "invalidate"}
             \/ pc[t] \in BucketTail /\ label \in BucketTail
      PROVE  UNCHANGED Map!mapVars
  <2>1. pc'[t] = label /\ req' = req
    BY <1>1, <1>3 DEF Goto
  <2>2. Effected(t)' = Effected(t)
    BY <1>3, <2>1 DEF Effected
  <2> QED BY <1>3, <2>2, GotoStutters
<1>4. ASSUME NEW data, NEW status, Respond(t, status, data), UNCHANGED <<files, now>>,
             \/ Effected(t) /\ status = "ok" /\ data = {} /\ UNCHANGED buckets
             \/ /\ req[t].op = "create_bucket" /\ ~Effected(t)
                /\ status = "ok" /\ data = {}
                /\ buckets' = buckets \union {req[t].bucket}
             \/ /\ Obj(t) \in Objects /\ Stored(Obj(t)) /\ ~Effected(t)
                /\ \/ req[t].op = "get" /\ status = "bytes"
                   \/ req[t].op = "info" /\ status = "ok"
                /\ data = {files[Obj(t)].hash} /\ UNCHANGED buckets
                /\ \/ files[Obj(t)].expires = 0
                   \/ ~(files[Obj(t)].expires <= asked[t])
             \/ /\ Obj(t) \in Objects /\ ~Stored(Obj(t)) /\ ~Effected(t)
                /\ req[t].op \in {"get", "info", "delete"}
                /\ status = "not_found" /\ data = {} /\ UNCHANGED buckets
             \/ /\ req[t].op = "delete_bucket" /\ ~Effected(t)
                /\ req[t].bucket \notin buckets
                /\ status = "not_found" /\ data = {} /\ UNCHANGED buckets
      PROVE  Map!Next
  <2>1. /\ MapAnswer' = [op |-> MapCalls[t].op, obj |-> MapCalls[t].obj,
                         status |-> status, data |-> data]
        /\ MapCalls' = [MapCalls EXCEPT ![t] = Map!NoCall]
        /\ UNCHANGED <<MapObjects, now>>
    BY <1>4, RespondMaps
  <2>2. /\ MapCalls[t].op = req[t].op /\ MapCalls[t].bucket = req[t].bucket
        /\ (req[t].op # "delete_bucket" => MapCalls[t].obj = Obj(t))
        /\ MapCalls[t].since = asked[t] /\ (MapCalls[t].done <=> Effected(t))
    BY CallFields DEF About, Obj
  <2>3. Obj(t) \in Objects =>
          /\ ~Stored(Obj(t)) => MapObjects[Obj(t)] = None
          /\ Stored(Obj(t)) => /\ MapObjects[Obj(t)] # None
                               /\ MapObjects[Obj(t)].content = files[Obj(t)].hash
                               /\ MapObjects[Obj(t)].expires = files[Obj(t)].expires
    BY VersionOfRow
  <2> QED BY <1>4, <2>1, <2>2, <2>3, MapReply DEF Alive
<1>5. ASSUME NEW answer \in {"ok", "not_found"}, AfterDelete(t, answer),
             pc[t] \in {"del_find", "invalidate"}, UNCHANGED <<files, buckets, now>>,
             ~Stored(Obj(t)), (answer = "ok") = (pc[t] = "invalidate")
      PROVE  Map!Next
  <2>1. CASE req[t].op = "delete" /\ Return(t, answer) /\ answer = "ok"
    <3>1. Effected(t)
      BY <1>5, <2>1 DEF Effected
    <3> QED BY <1>4, <1>5, <2>1, <3>1 DEF Return
  <2>2. CASE req[t].op = "delete" /\ Return(t, answer) /\ answer = "not_found"
    <3>1. ~Effected(t)
      BY <1>5, <2>2 DEF Effected
    <3> QED BY <1>1, <1>4, <1>5, <2>2, <3>1 DEF Return
  <2>3. CASE req[t].op \in {"get", "info"} /\ Return(t, "not_found")
    <3>1. ~Effected(t)
      BY <2>3 DEF Effected
    <3> QED BY <1>1, <1>4, <1>5, <2>3, <3>1 DEF Return
  <2> QED BY <1>1, <1>5, <2>1, <2>2, <2>3 DEF AfterDelete, HistTask
<1>6. CASE StartStore(t) \/ StartOnObject(t) \/ StartOnBucket(t)
  BY <1>6, StartMaps
<1>7. CASE EnsureBucket(t)
  <2>1. ~Effected(t) /\ Effected(t) = FALSE
    BY <1>7 DEF EnsureBucket, Effected
  <2>2. CASE req[t].op = "store" /\ Goto(t, "dedup")
    <3>1. pc'[t] = "dedup" /\ req' = req /\ out' = out /\ asked'[t] = asked[t]
      BY <1>1, <1>7, <2>2 DEF EnsureBucket, Goto, Asking
    <3>2. Effected(t)' = Effected(t)
      BY <1>7, <3>1 DEF EnsureBucket, Effected
    <3>3. CallOf(t)' = CallOf(t)
      BY <3>1, <3>2 DEF CallOf, About
    <3>4. MapCalls' = MapCalls
      BY <3>3, CallsApart DEF MapCalls
    <3>5. UNCHANGED <<MapObjects, now, MapAnswer>> /\ buckets' = buckets \union {req[t].bucket}
      BY <1>7, <3>1 DEF EnsureBucket, clock, MapObjects, VersionOf, MapAnswer, About
    <3> QED BY <2>1, <2>2, <3>4, <3>5, CallFields, MapEnsure
  <2>3. CASE req[t].op = "create_bucket" /\ Return(t, "ok")
    BY <1>4, <1>7, <2>1, <2>3 DEF EnsureBucket, Return, clock
  <2> QED BY <1>7, <2>2, <2>3 DEF EnsureBucket
<1>8. CASE Dedup(t) \/ CreateTemp(t) \/ FillTemp(t) \/ RenameTemp(t) \/ WarmMeta(t)
  BY <1>3, <1>8 DEF Dedup, CreateTemp, FillTemp, RenameTemp, WarmMeta, store, clock,
     Sequential
<1>9. CASE AliasSave(t) \/ AliasSaveRejected(t)
  BY <1>9 DEF AliasSave, AliasSaveRejected, OwnBytes, OwnTask
<1>10. CASE WriteFails(t) \/ SaveFails(t) \/ ReadFails(t) \/ DbError(t) \/ Drop(t)
  BY <1>2, <1>10 DEF WriteFails, SaveFails, ReadFails, DbError, Drop, Sequential,
     UploadRelies
<1>11. CASE RenameFails(t)
  BY <1>1, <1>2, <1>11, NoneAssumption DEF RenameFails, UploadRelies, TypeOK, TaskHolds,
     Bodies
<1>12. CASE SaveRow(t)
  <2>1. /\ pc[t] = "save" /\ Goto(t, "warm_meta") /\ req[t].op = "store"
        /\ files' = [files EXCEPT ![Obj(t)] = NewRow(t)] /\ Obj(t) \in Objects
        /\ req[t].bucket \in buckets /\ UNCHANGED <<buckets, now>>
    BY <1>1, <1>2, <1>12 DEF SaveRow, save_file, clock, UploadRelies, HistTask, TypeOK,
       TaskHolds
  <2>2. pc'[t] = "warm_meta" /\ req' = req
    BY <1>1, <2>1 DEF Goto
  <2>3. Effected(t) = FALSE /\ Effected(t)' = TRUE
    BY <2>1, <2>2 DEF Effected
  <2>4. MapCalls' = [MapCalls EXCEPT ![t].done = TRUE] /\ MapAnswer' = MapAnswer
    BY <2>1, <2>3, EffectMaps
  <2>5. NewRow(t) # None
    BY <1>1, <2>1, NoneAssumption DEF NewRow, Rows, Paths, Objects, get_file_path, TypeOK,
       TaskHolds, TasksOK, Requests
  <2>6. VersionOf(NewRow(t)) = [content |-> req[t].content, expires |-> req[t].expires]
    BY <2>5 DEF VersionOf, NewRow
  <2>7. MapObjects' = [MapObjects EXCEPT ![Obj(t)] =
                         [content |-> req[t].content, expires |-> req[t].expires]]
    BY <1>1, <2>1, <2>6 DEF MapObjects, VersionOf
  <2>8. /\ MapCalls[t].op = "store" /\ ~MapCalls[t].done
        /\ MapCalls[t].bucket = req[t].bucket /\ MapCalls[t].obj = Obj(t)
        /\ MapCalls[t].content = req[t].content /\ MapCalls[t].expires = req[t].expires
    BY <2>1, <2>3, CallFields DEF About, Obj
  <2> QED BY <2>1, <2>4, <2>7, <2>8, MapPut
<1>13. CASE WarmBody(t)
  <2>1. Effected(t)
    BY <1>13 DEF WarmBody, Effected, TypeOK, TaskHolds
  <2> QED BY <1>4, <1>13, <2>1 DEF WarmBody, Return, store, clock
<1>14. CASE GetMeta(t) \/ FillMeta(t) \/ ReadDisk(t)
  BY <1>3, <1>14 DEF GetMeta, FillMeta, ReadDisk, AfterRow, store, clock
<1>15. CASE GetRow(t)
  <2>1. ~Effected(t) /\ req[t].op = "get" /\ Obj(t) \in Objects
    BY <1>1, <1>15 DEF GetRow, Effected, TypeOK, TaskHolds
  <2>2. CASE ~Stored(Obj(t))
    BY <1>4, <1>15, <2>1, <2>2 DEF GetRow, Return, store, clock
  <2> QED BY <1>3, <1>15, <2>2 DEF GetRow, store, clock
<1>16. ASSUME NEW data, pc[t] \in {"get_body", "fill_body"}, Respond(t, "bytes", data),
              data = {files[Obj(t)].hash}, UNCHANGED <<files, buckets, now>>
       PROVE  Map!Next
  <2>1. /\ req[t].op = "get" /\ Obj(t) \in Objects /\ Stored(Obj(t)) /\ ~Effected(t)
        /\ row[t] = files[Obj(t)] /\ row[t] \in Rows
    BY <1>1, <1>2, <1>16, NoneAssumption DEF ReaderRelies, Stored, Effected, TypeOK, TaskHolds
  <2>2. files[Obj(t)].expires = 0 \/ ~(files[Obj(t)].expires <= asked[t])
    BY <1>1, <1>16, <2>1 DEF HistTask, Rows
  <2> QED BY <1>4, <1>16, <2>1, <2>2
<1>17. CASE GetBody(t)
  <2>1. CASE Goto(t, "read_disk")
    BY <1>3, <1>17, <2>1 DEF GetBody, store, clock
  <2>2. CASE body[Obj(t)] # None /\ Respond(t, "bytes", body[Obj(t)])
    <3>1. body[Obj(t)] = {files[Obj(t)].hash}
      BY <1>1, <1>17, <2>2 DEF GetBody, Agree, BodyAgrees, BodyLags, MetaLags
    <3> QED BY <1>16, <1>17, <2>2, <3>1 DEF GetBody, store, clock
  <2> QED BY <1>17, <2>1, <2>2 DEF GetBody, backend_get, Unless, Sequential
<1>18. CASE FillBody(t)
  BY <1>2, <1>16, <1>18 DEF FillBody, ReaderRelies, store, clock
<1>19. CASE GetInfo(t)
  <2>1. ~Effected(t) /\ req[t].op = "info" /\ Obj(t) \in Objects
    BY <1>1, <1>2, <1>19 DEF GetInfo, ReaderRelies, Effected
  <2>2. CASE Stored(Obj(t)) /\ Expired(files[Obj(t)])
    BY <1>3, <1>19, <2>2 DEF GetInfo, store, clock
  <2>3. CASE Stored(Obj(t)) /\ ~Expired(files[Obj(t)])
    <3>1. files[Obj(t)].expires = 0 \/ ~(files[Obj(t)].expires <= asked[t])
      BY <1>1, <2>1, <2>3 DEF Expired, HistTask, Rows, Stored, TypeOK, StoresOK
    <3> QED BY <1>4, <1>19, <2>1, <2>3, <3>1 DEF GetInfo, store, clock
  <2>4. CASE ~Stored(Obj(t))
    BY <1>4, <1>19, <2>1, <2>4 DEF GetInfo, Return, store, clock
  <2> QED BY <2>2, <2>3, <2>4
<1>20. CASE DelFind(t)
  <2>1. CASE Stored(Obj(t))
    BY <1>3, <1>20, <2>1 DEF DelFind, store, clock
  <2> QED BY <1>5, <1>20, <2>1 DEF DelFind, store, clock
<1>21. CASE DelCount(t) \/ Unlink(t)
  BY <1>3, <1>21 DEF DelCount, Unlink, store, clock
<1>22. CASE DelRow(t)
  <2>1. /\ pc[t] = "del_row" /\ Goto(t, "unlink") /\ Obj(t) \in Objects
        /\ Stored(Obj(t)) /\ files' = [files EXCEPT ![Obj(t)] = None]
        /\ UNCHANGED <<buckets, now>>
    BY <1>1, <1>2, <1>22 DEF DelRow, clock, DeletionRelies
  <2>2. pc'[t] = "unlink" /\ req' = req
    BY <1>1, <2>1 DEF Goto
  <2>3. MapObjects' = [MapObjects EXCEPT ![Obj(t)] = None]
    BY <1>1, <2>1 DEF MapObjects, VersionOf
  <2>4. MapObjects[Obj(t)] # None /\ MapObjects[Obj(t)].expires = files[Obj(t)].expires
    BY <2>1, VersionOfRow
  <2>5. CASE req[t].op = "delete"
    <3>1. Effected(t) = FALSE /\ Effected(t)' = TRUE
      BY <2>1, <2>2, <2>5 DEF Effected
    <3>2. MapCalls' = [MapCalls EXCEPT ![t].done = TRUE] /\ MapAnswer' = MapAnswer
      BY <2>1, <3>1, EffectMaps
    <3>3. MapCalls[t].op = "delete" /\ ~MapCalls[t].done /\ MapCalls[t].obj = Obj(t)
      BY <2>5, <3>1, CallFields DEF About, Obj
    <3> QED BY <2>1, <2>3, <2>4, <3>2, <3>3, MapDelete
  <2>6. CASE req[t].op # "delete"
    <3>1. files[Obj(t)].expires # 0 /\ files[Obj(t)].expires <= now
      BY <1>2, <2>1, <2>6 DEF DeletionRelies, Expired
    <3>2. req[t].op \in {"get", "info"}
      BY <1>1, <1>2, <2>1, <2>6 DEF DeletionRelies, HistTask
    <3>3. /\ Effected(t)' = Effected(t) /\ asked'[t] = asked[t] /\ out' = out
      BY <1>1, <2>1, <2>2, <3>2 DEF Effected, Asking, Goto
    <3>4. CallOf(t)' = CallOf(t)
      BY <2>2, <3>3 DEF CallOf, About
    <3>5. MapCalls' = MapCalls
      BY <3>4, CallsApart DEF MapCalls
    <3>6. MapAnswer' = MapAnswer
      BY <3>3 DEF MapAnswer, About
    <3> QED BY <2>1, <2>3, <2>4, <3>1, <3>5, <3>6, MapExpire
  <2> QED BY <2>5, <2>6
<1>23. CASE Invalidate(t)
  BY <1>2, <1>5, <1>23 DEF Invalidate, DeletionRelies, store, clock
<1>24. CASE ListBucket(t) \/ BucketUnlink(t) \/ BucketInvalidate(t)
  BY <1>3, <1>24 DEF ListBucket, BucketUnlink, BucketInvalidate, store, clock
<1>25. CASE DropBucket(t)
  <2>1. pc[t] = "drop_bucket" /\ req[t].op = "delete_bucket" /\ Effected(t) = FALSE
    BY <1>1, <1>25 DEF DropBucket, HistTask, Effected
  <2>2. CASE req[t].bucket \notin buckets
    BY <1>4, <1>25, <2>1, <2>2 DEF DropBucket, Return, clock
  <2>3. CASE req[t].bucket \in buckets
    <3>1. /\ Goto(t, "bucket_next") /\ now' = now
          /\ buckets' = buckets \ {req[t].bucket}
          /\ files' = [o \in Objects |->
                         IF o.bucket = req[t].bucket THEN None ELSE files[o]]
      BY <1>25, <2>3 DEF DropBucket, clock
    <3>2. pc'[t] = "bucket_next" /\ req' = req
      BY <1>1, <3>1 DEF Goto
    <3>3. Effected(t)' = TRUE
      BY <2>1, <3>2 DEF Effected
    <3>4. MapCalls' = [MapCalls EXCEPT ![t].done = TRUE] /\ MapAnswer' = MapAnswer
      BY <2>1, <3>1, <3>3, EffectMaps
    <3>5. MapObjects' = [o \in Objects |-> IF o.bucket = req[t].bucket THEN None
                                           ELSE MapObjects[o]]
      BY <3>1 DEF MapObjects, VersionOf
    <3>6. /\ MapCalls[t].op = "delete_bucket" /\ ~MapCalls[t].done
          /\ MapCalls[t].bucket = req[t].bucket
      BY <2>1, CallFields
    <3> QED BY <2>3, <3>1, <3>4, <3>5, <3>6, MapDeleteBucket
  <2> QED BY <2>2, <2>3
<1>26. CASE BucketNext(t)
  <2>1. /\ req'[t].bucket = req[t].bucket /\ req'[t].op = req[t].op
        /\ req'[t].content = req[t].content /\ req'[t].expires = req[t].expires
    BY <1>1, <1>26, NextListed
  <2>2. /\ pc[t] = "bucket_next" /\ pc'[t] = "bucket_unlink" /\ req[t].op = "delete_bucket"
        /\ asked'[t] = asked[t] /\ UNCHANGED <<files, buckets, now, out>>
    BY <1>1, <1>26 DEF BucketNext, HistTask, Asking, store, clock
  <2>3. About(req'[t].op, req'[t].obj) = About(req[t].op, req[t].obj)
    BY <2>1, <2>2 DEF About
  <2>4. Effected(t)' = TRUE /\ Effected(t) = TRUE
    BY <2>1, <2>2 DEF Effected
  <2>5. CallOf(t)' = CallOf(t)
    BY <2>1, <2>2, <2>3, <2>4 DEF CallOf, About
  <2>6. MapCalls' = MapCalls
    BY <2>5, CallsApart DEF MapCalls
  <2> QED BY <2>2, <2>6, MapStutters DEF MapObjects, VersionOf, MapAnswer, About
<1>27. CASE RmDir(t)
  <2>1. Effected(t)
    BY <1>1, <1>27 DEF RmDir, HistTask, Effected
  <2> QED BY <1>4, <1>27, <2>1 DEF RmDir, Return, clock
<1> QED BY <1>6, <1>7, <1>8, <1>9, <1>10, <1>11, <1>12, <1>13, <1>14, <1>15, <1>17, <1>18,
       <1>19, <1>20, <1>21, <1>22, <1>23, <1>24, <1>25, <1>26, <1>27, TasksAssumption
       DEF StepOf, Client, StoreStep, WriteStep, ReadStep, DeleteStep, BucketStep

\* The sweep and the preloader change nothing the map shows, but for objects whose
\* time is over.
LEMMA BackgroundMaps ==
    ASSUME TypeOK, OwnBytes, Sequential, Hist, NEW t \in {Sweeper, Preloader}, Relies(t),
           StepOf(t), Quiet(t), Asking
    PROVE  Map!Next \/ UNCHANGED Map!mapVars
<1>1. t \in Tasks /\ t \notin Clients /\ MapCalls' = MapCalls
  BY CallsApart, TasksAssumption
<1>2. ASSUME UNCHANGED <<files, buckets, now, out>> PROVE UNCHANGED Map!mapVars
  BY <1>1, <1>2, MapStutters DEF MapObjects, VersionOf, MapAnswer, About
<1>3. CASE t = Preloader
  <2>1. Preload
    BY <1>1, <1>3, TasksAssumption DEF StepOf
  <2> QED BY <1>2, <2>1 DEF Preload, PreloadList, PreloadRead, PreloadFill, PreloadDone,
             Goto, control, store, clock
<1>4. CASE t = Sweeper
  <2>1. DeleteStep(t) \/ Sweep
    BY <1>1, <1>4, TasksAssumption DEF StepOf, DbError, Sequential
  <2>2. CASE Sweep
    BY <1>2, <2>2 DEF Sweep, SweepList, SweepNext, SweepDone, Goto, store, clock
  <2>3. CASE DelFind(t) \/ DelCount(t) \/ Unlink(t) \/ Invalidate(t)
    <3>1. req[t].op = "sweep"
      BY <1>4, <2>3 DEF Hist, SweepAsks, DelFind, DelCount, Unlink, Invalidate
    <3>2. out' = out
      BY <2>3, <3>1 DEF DelFind, DelCount, Unlink, Invalidate, AfterDelete, Goto
    <3> QED BY <1>2, <2>3, <3>2 DEF DelFind, DelCount, Unlink, Invalidate, store, clock
  <2>4. CASE DelRow(t)
    <3>1. /\ Obj(t) \in Objects /\ Stored(Obj(t)) /\ Expired(files[Obj(t)])
          /\ files' = [files EXCEPT ![Obj(t)] = None] /\ UNCHANGED <<buckets, now, out>>
      BY <1>1, <1>4, <2>4 DEF DelRow, Goto, clock, Relies, DeletionRelies, Hist, SweepAsks,
         TypeOK, TaskHolds
    <3>2. MapObjects' = [MapObjects EXCEPT ![Obj(t)] = None]
      BY <3>1 DEF MapObjects, VersionOf, TypeOK, StoresOK
    <3>3. /\ MapObjects[Obj(t)] # None /\ MapObjects[Obj(t)].expires # 0
          /\ MapObjects[Obj(t)].expires <= now
      BY <3>1, VersionOfRow DEF Expired
    <3> QED BY <1>1, <3>1, <3>2, <3>3, MapExpire DEF MapAnswer, About
  <2> QED BY <2>1, <2>2, <2>3, <2>4 DEF DeleteStep
<1> QED BY <1>3, <1>4

\* Evictions and stuttering are invisible, and time passes for both.
LEMMA EnvironmentMaps ==
    ASSUME TypeOK, Hist, Asking \/ asked' = asked, Evict \/ Tick \/ UNCHANGED vars
    PROVE  /\ Map!Next \/ UNCHANGED Map!mapVars
           /\ Hist'
<1>1. UNCHANGED <<files, buckets, out, pc, req, row>>
  BY DEF Evict, Tick, vars, store, control, locals
<1>2. asked' = asked
  <2> SUFFICES ASSUME Asking PROVE asked' = asked
    OBVIOUS
  <2>1. \A t \in Clients : pc[t] = "idle" => asked[t] = 0
    BY DEF Hist, HistTask
  <2>2. asked = [t \in Clients |-> asked[t]]
    BY DEF Hist
  <2>3. asked' = [t \in Clients |-> IF pc[t] = "idle" THEN 0 ELSE asked[t]]
    BY <1>1 DEF Asking
  <2> QED BY <2>1, <2>2, <2>3
<1>3. now \in Nat /\ (now' = now \/ now' = now + 1)
  BY DEF Evict, Tick, vars, clock, TypeOK, StoresOK
<1>4. UNCHANGED <<MapObjects, MapCalls, MapAnswer>>
  <2>1. UNCHANGED <<MapObjects, MapAnswer>>
    BY <1>1 DEF MapObjects, VersionOf, MapAnswer, About
  <2>2. ASSUME NEW t \in Clients PROVE CallOf(t)' = CallOf(t)
    BY <1>1, <1>2 DEF CallOf, Effected, About
  <2> QED BY <2>1, <2>2 DEF MapCalls
<1>5. Hist'
  BY <1>1, <1>2, <1>3 DEF Hist, HistTask, SweepAsks, Obj
<1>6. CASE now' = now
  BY <1>1, <1>4, <1>5, <1>6, MapStutters
<1>7. CASE now' = now + 1
  BY <1>1, <1>4, <1>5, <1>7, MapTick
<1> QED BY <1>3, <1>6, <1>7

\* Every step keeps the account of every request.
LEMMA HistNext ==
    ASSUME TypeOK, TypeOK', Sequential, Hist, NEW t \in Tasks, Agree(t), Relies(t),
           StepOf(t), Quiet(t), Asking
    PROVE  Hist'
<1>1. asked' \in [Clients -> Nat] /\ now' \in Nat
  BY DEF Asking, Hist, TypeOK, StoresOK
<1>2. ASSUME NEW x \in Clients PROVE HistTask(x)'
  <2>1. CASE x = t
    BY <2>1, HistStep
  <2>2. CASE x # t
    <3>1. /\ pc[x] = "idle" /\ pc'[x] = "idle" /\ req'[x] = req[x] /\ asked'[x] = 0
          /\ req[x] = NoRequest
      BY <2>2, RequestsApart DEF Quiet, Asking, Hist, HistTask
    <3> QED BY <1>1, <3>1 DEF HistTask
  <2> QED BY <2>1, <2>2
<1>3. SweepAsks'
  <2>1. CASE t # Sweeper
    BY <2>1 DEF Quiet, SweepAsks
  <2>2. CASE t = Sweeper /\ Sweep
    <3>1. CASE SweepNext
      <4>1. PICK o \in expired :
              req' = [req EXCEPT ![Sweeper] = [NoRequest EXCEPT !.op = "sweep",
                                                  !.bucket = o.bucket, !.obj = o]]
        BY <3>1 DEF SweepNext
      <4>2. req'[Sweeper] = [NoRequest EXCEPT !.op = "sweep", !.bucket = o.bucket, !.obj = o]
        BY <4>1 DEF TypeOK, TasksOK
      <4>3. req'[Sweeper].op = "sweep"
        BY <4>2 DEF NoRequest
      <4> QED BY <4>3 DEF SweepAsks
    <3>2. CASE SweepList \/ SweepDone
      BY <2>2, <3>2 DEF SweepList, SweepDone, Goto, Finish, SweepAsks, TypeOK, TasksOK
    <3> QED BY <2>2, <3>1, <3>2 DEF Sweep
  <2>3. CASE t = Sweeper /\ DeleteStep(t)
    <3>1. req[t].op = "sweep"
      BY <2>3 DEF DeleteStep, DelFind, DelCount, DelRow, Unlink, Invalidate, Hist, SweepAsks
    <3>2. req' = req
      BY <2>3, <3>1 DEF DeleteStep, DelFind, DelCount, DelRow, Unlink, Invalidate,
         AfterDelete, Goto
    <3> QED BY <2>3, <3>1, <3>2 DEF SweepAsks
  <2> QED BY <2>1, <2>2, <2>3, TasksAssumption DEF StepOf, DbError, Sequential
<1> QED BY <1>1, <1>2, <1>3 DEF Hist

\* One step of the storage manager, from a state the invariants describe.
LEMMA StepMaps ==
    ASSUME TypeOK, TypeOK', OwnBytes, Coherent, Sequential, Hist, [HNext]_histVars
    PROVE  /\ Map!Next \/ UNCHANGED Map!mapVars
           /\ Hist'
<1>1. ASSUME NEW t \in Tasks, StepOf(t), Asking
      PROVE  (Map!Next \/ UNCHANGED Map!mapVars) /\ Hist'
  <2>1. Agree(t) /\ Relies(t) /\ Quiet(t)
    BY <1>1, CoherentFor
  <2>2. Hist'
    BY <1>1, <2>1, HistNext
  <2>3. CASE t \in Clients
    BY <1>1, <2>1, <2>2, <2>3, ClientMaps
  <2>4. CASE t \in {Sweeper, Preloader}
    BY <1>1, <2>1, <2>2, <2>4, BackgroundMaps
  <2> QED BY <2>3, <2>4
<1>2. CASE HNext
  <2>1. [Next]_vars /\ Asking
    BY <1>2 DEF HNext, Asking
  <2>2. CASE Restart
    BY <2>2 DEF Restart, Sequential
  <2>3. CASE Evict \/ Tick \/ UNCHANGED vars
    BY <2>1, <2>3, EnvironmentMaps
  <2> QED BY <1>1, <2>1, <2>2, <2>3, WhoSteps
<1>3. CASE UNCHANGED histVars
  BY <1>3, EnvironmentMaps DEF histVars
<1> QED BY <1>2, <1>3

\* Nothing is stored or asked for at the start.
LEMMA InitMaps ==
    ASSUME HInit
    PROVE  Map!Init /\ Hist
<1>1. Hist
  BY DEF HInit, Init, Hist, HistTask, SweepAsks
<1>2. MapObjects = [o \in Map!Objects |-> None]
  BY DEF HInit, Init, MapObjects, VersionOf, Map!Objects, Objects
<1>3. ASSUME NEW t \in Clients PROVE CallOf(t) = Map!NoCall
  BY DEF HInit, Init, CallOf, NoRequest, Effected, About, Map!NoCall
<1>4. MapAnswer = [op |-> "none", obj |-> None, status |-> "none", data |-> {}]
  BY DEF HInit, Init, MapAnswer, About
<1>5. Map!Init
  BY <1>2, <1>3, <1>4 DEF HInit, Init, Map!Init, MapObjects, MapAnswer
<1> QED BY <1>1, <1>5

\* One request at a time, without deduplication and faults, and whatever the cache
\* evicts, the storage manager implements the map of ObjectMap: for any objects,
\* contents, lifetimes and number of requests nobody can tell the table, the files
\* and the two caches from one map that changes at one moment per operation.
THEOREM ImplementsMap ==
    ASSUME Sequential PROVE HSpec => ImplementsObjectMap
<1>1. HInit => Init /\ Map!Init /\ Hist
  BY InitMaps DEF HInit
<1>2. [HNext]_histVars => [Next]_vars
  BY DEF HNext, histVars
<1>3. TypeOK /\ TypeOK' /\ OwnBytes /\ Coherent /\ Hist /\ [HNext]_histVars
        => [Map!Next]_(Map!mapVars) /\ Hist'
  BY StepMaps
<1>4. Spec => []OwnBytes
  BY OwnBytesAlways DEF Sequential
<1> QED BY <1>1, <1>2, <1>3, <1>4, TypeCorrect, CoherentAlways, PTL
        DEF HSpec, Spec, ImplementsObjectMap, Map!Spec

=============================================================================
