---------------------------- MODULE WindowProofs ----------------------------
(***************************************************************************)
(* How far the two destructive passes of the storage manager can go wrong: *)
(* a deletion that counted no other reference (delete_file, delete_bucket) *)
(* and the sweep act on what they read some awaits earlier.  Whatever they *)
(* destroy by mistake was saved in between: rows older than the count, or  *)
(* than the listing, are safe.                                             *)
(***************************************************************************)
EXTENDS StorageManagerProofs

USE DEF Tasks, Labels, ObjectLabels, UploadLabels, ReadLabels, DeleteLabels,
        BucketLabels

\* From the count on, a row with the counted path is the row being deleted
\* (until DELETE) or was saved since.
Counted(t) ==
    /\ pc[t] = "del_row" /\ ~refs[t] =>
         \A o \in Objects \ {Obj(t)} :
             Stored(o) /\ files[o].path = path[t] => o \in since[t]
    /\ /\ \/ pc[t] = "unlink"
          \/ pc[t] = "bucket_unlink" /\ "db" \notin Faults
       /\ ~refs[t]
       => \A o \in Objects :
            Stored(o) /\ files[o].path = path[t] => o \in since[t]

\* What the sweep has listed and not yet deleted is gone, due, or saved since.
StillDue(o) == Stored(o) => Due(files[o]) \/ o \in renewed
Listed ==
    pc[Sweeper] # "idle" =>
        /\ \A o \in expired : StillDue(o)
        /\ pc[Sweeper] \in DeleteLabels => StillDue(Obj(Sweeper))

\* A step changes a row only by deleting it or by saving it, and a save is noted
\* for every task inside its count window and for a running sweep.
RowsNoted ==
    \A o \in Objects :
        \/ files'[o] = files[o] \/ files'[o] = None
        \/ /\ \A t \in Tasks : pc[t] \in CountWindow => o \in since'[t]
           /\ pc[Sweeper] # "idle" => o \in renewed'

\* Every step notes the rows it saves.
LEMMA RowsNotedStep == ASSUME TypeOK, [Next]_vars PROVE RowsNoted
<1>1. ASSUME UNCHANGED files PROVE RowsNoted
  BY <1>1 DEF RowsNoted
<1>2. ASSUME NEW x \in Objects, NEW r, save_file(x, r) PROVE RowsNoted
  BY <1>2 DEF save_file, NoteSaved, RowsNoted, TypeOK, StoresOK
<1>3. ASSUME NEW t \in Tasks, AliasSave(t) \/ SaveRow(t) PROVE RowsNoted
  BY <1>2, <1>3 DEF AliasSave, SaveRow, TypeOK, TaskHolds
<1>4. ASSUME NEW t \in Tasks, DelRow(t) PROVE RowsNoted
  BY <1>4 DEF DelRow, RowsNoted, TypeOK, StoresOK
<1>5. ASSUME NEW t \in Tasks, DropBucket(t) PROVE RowsNoted
  BY <1>5 DEF DropBucket, RowsNoted
<1>6. ASSUME NEW t \in Tasks,
             \/ StartStore(t) \/ StartOnObject(t) \/ StartOnBucket(t)
             \/ EnsureBucket(t) \/ Dedup(t) \/ AliasSaveRejected(t) \/ WriteStep(t)
             \/ SaveFails(t) \/ WarmMeta(t) \/ WarmBody(t)
             \/ ReadStep(t) \/ DelFind(t) \/ DelCount(t) \/ Unlink(t) \/ Invalidate(t)
             \/ ListBucket(t) \/ BucketNext(t) \/ BucketUnlink(t)
             \/ BucketInvalidate(t) \/ RmDir(t) \/ Drop(t) \/ DbError(t)
      PROVE  RowsNoted
  BY <1>1, <1>6 DEF StartStore, StartOnObject, StartOnBucket, Accept, EnsureBucket,
     Dedup, AliasSaveRejected, WriteStep, CreateTemp, FillTemp, RenameTemp,
     RenameFails, WriteFails, SaveFails, WarmMeta, WarmBody, ReadStep, GetMeta,
     GetRow, FillMeta, GetBody, ReadDisk, ReadFails, FillBody, GetInfo, DelFind,
     DelCount, Unlink, Invalidate, ListBucket, BucketNext, BucketUnlink,
     BucketInvalidate, RmDir, Drop, DbError, store
<1>7. CASE Sweep \/ Preload \/ Restart \/ Evict \/ Tick \/ UNCHANGED vars
  BY <1>1, <1>7 DEF Sweep, SweepList, SweepNext, SweepDone, Preload, PreloadList,
     PreloadRead, PreloadFill, PreloadDone, Restart, Evict, Tick, vars, store
<1> QED BY <1>3, <1>4, <1>5, <1>6, <1>7
     DEF Next, Client, StoreStep, DeleteStep, BucketStep, Listen

-----------------------------------------------------------------------------
(* The count window.                                                       *)

\* A task that a step does not move keeps its window.
LEMMA CountedKept ==
    ASSUME TypeOK, NEW t \in Tasks, Counted(t), RowsNoted,
           pc'[t] = pc[t], req'[t] = req[t], path'[t] = path[t],
           refs'[t] = refs[t], since[t] \subseteq since'[t]
    PROVE  Counted(t)'
<1>1. pc[t] \in CountWindow =>
        \A o \in Objects : files'[o] = files[o] \/ files'[o] = None \/ o \in since'[t]
  BY DEF RowsNoted
<1> QED BY <1>1 DEF Counted, CountWindow, Stored, Obj

\* A task outside the window has nothing to show.
LEMMA CountedOutside ==
    ASSUME NEW t \in Tasks, pc'[t] \notin CountWindow PROVE Counted(t)'
BY DEF Counted, CountWindow

\* A step of t moves no other task and forgets no save noted for another.
LEMMA CountedOthers ==
    ASSUME TypeOK, \A x \in Tasks : Counted(x), [Next]_vars, NEW t \in Tasks,
           \A x \in Tasks \ {t} :
              /\ pc'[x] = pc[x] /\ req'[x] = req[x] /\ path'[x] = path[x]
              /\ refs'[x] = refs[x] /\ since[x] \subseteq since'[x],
           Counted(t)'
    PROVE  \A x \in Tasks : Counted(x)'
BY CountedKept, RowsNotedStep

\* The window is kept open correctly by every step.
LEMMA CountedStep ==
    ASSUME TypeOK, \A x \in Tasks : Counted(x), [Next]_vars
    PROVE  \A x \in Tasks : Counted(x)'
<1> DEFINE Goal == \A x \in Tasks : Counted(x)'
           SinceKept(t) == \A x \in Tasks \ {t} : since[x] \subseteq since'[x]
<1>1. ASSUME NEW t \in Tasks, NEW label, label \notin CountWindow, SinceKept(t),
             pc' = [pc EXCEPT ![t] = label],
             \A x \in Tasks \ {t} :
                req'[x] = req[x] /\ path'[x] = path[x] /\ refs'[x] = refs[x]
      PROVE  Goal
  <2>1. Counted(t)'
    BY <1>1, CountedOutside DEF TypeOK, TasksOK
  <2> QED BY <1>1, <2>1, CountedOthers DEF TypeOK, TasksOK
<1>2. ASSUME NEW t \in Tasks, Finish(t), SinceKept(t) PROVE Goal
  <2>1. "idle" \notin CountWindow
    BY DEF CountWindow
  <2> QED BY <1>1, <1>2, <2>1 DEF Finish, Forget, TypeOK, TasksOK
<1>3. ASSUME NEW t \in Tasks, NEW answer, Return(t, answer), SinceKept(t) PROVE Goal
  BY <1>2, <1>3 DEF Return, Respond
<1>4. ASSUME NEW t \in Tasks, NEW label, Goto(t, label), label \notin CountWindow,
             SinceKept(t),
             \A x \in Tasks \ {t} : path'[x] = path[x] /\ refs'[x] = refs[x]
      PROVE  Goal
  BY <1>1, <1>4 DEF Goto
<1>5. ASSUME NEW t \in Tasks, NEW answer, AfterDelete(t, answer), UNCHANGED since
      PROVE  Goal
  BY <1>3, <1>4, <1>5 DEF AfterDelete, CountWindow, locals
<1>6. ASSUME NEW t \in Tasks, since' = [since EXCEPT ![t] = {}] PROVE SinceKept(t)
  BY <1>6 DEF TypeOK, GhostsOK
<1>7. ASSUME NEW t \in Tasks, NEW o, NoteSaved(o) PROVE SinceKept(t)
  BY <1>7 DEF NoteSaved, TypeOK, GhostsOK
<1>8. ASSUME NEW t \in Tasks,
             StartStore(t) \/ StartOnObject(t) \/ StartOnBucket(t)
      PROVE  Goal
  <2>1. PICK label \in Labels \ CountWindow :
          \E op, b, o, c, e : Accept(t, op, label, b, o, c, e)
    BY <1>8 DEF StartStore, StartOnObject, StartOnBucket, CountWindow
  <2> QED BY <1>1, <2>1 DEF Accept, locals, TypeOK, TasksOK
<1>9. ASSUME NEW t \in Tasks, StoreStep(t) PROVE Goal
  <2>1. CASE AliasSave(t)
    <3>1. Return(t, "ok") /\ NoteSaved(Obj(t))
      BY <2>1 DEF AliasSave, save_file
    <3>2. SinceKept(t)
      BY <1>7, <3>1
    <3> QED BY <1>3, <3>1, <3>2
  <2>2. CASE SaveRow(t)
    BY <1>4, <1>7, <2>2 DEF SaveRow, save_file, CountWindow, locals
  <2>3. CASE \/ EnsureBucket(t) \/ Dedup(t) \/ AliasSaveRejected(t) \/ WriteStep(t)
             \/ SaveFails(t) \/ WarmMeta(t) \/ WarmBody(t)
    BY <1>3, <1>4, <2>3 DEF EnsureBucket, Dedup, AliasSaveRejected, WriteStep,
       CreateTemp, FillTemp, RenameTemp, RenameFails, WriteFails, SaveFails, WarmMeta,
       WarmBody, CountWindow, locals, ghosts
  <2> QED BY <1>9, <2>1, <2>2, <2>3 DEF StoreStep
<1>10. ASSUME NEW t \in Tasks, ReadStep(t) PROVE Goal
  <2>1. CASE GetMeta(t) \/ FillMeta(t)
    <3>1. PICK label \in {"get_row", "get_body", "del_find"} : Goto(t, label)
      BY <2>1 DEF GetMeta, FillMeta, AfterRow
    <3> QED BY <1>4, <2>1, <3>1 DEF GetMeta, FillMeta, CountWindow, locals, ghosts
  <2>2. CASE \/ GetRow(t) \/ GetBody(t) \/ ReadDisk(t) \/ ReadFails(t) \/ FillBody(t)
             \/ GetInfo(t)
    BY <1>2, <1>4, <2>2 DEF GetRow, GetBody, ReadDisk, ReadFails, FillBody, GetInfo,
       Return, Respond, CountWindow, locals, ghosts
  <2> QED BY <1>10, <2>1, <2>2 DEF ReadStep
<1>11. ASSUME NEW t \in Tasks, DelFind(t) \/ Invalidate(t) PROVE Goal
  <2>1. CASE DelFind(t) /\ Stored(Obj(t))
    BY <1>4, <2>1 DEF DelFind, CountWindow, ghosts, TypeOK, TasksOK
  <2>2. CASE Invalidate(t) \/ (DelFind(t) /\ ~Stored(Obj(t)))
    BY <1>5, <2>2 DEF DelFind, Invalidate, ghosts
  <2> QED BY <1>11, <2>1, <2>2
<1>12. ASSUME NEW t \in Tasks, DelCount(t) PROVE Goal
  <2>1. Counted(t)'
    BY <1>12 DEF DelCount, Goto, Counted, Stored, Obj, store, TypeOK, TasksOK
  <2> QED BY <1>6, <1>12, <2>1, CountedOthers DEF DelCount, Goto, TypeOK, TasksOK
<1>13. ASSUME NEW t \in Tasks, DelRow(t) PROVE Goal
  <2>1. Counted(t)'
    BY <1>13 DEF DelRow, Goto, Counted, Stored, Obj, locals, ghosts, TypeOK, StoresOK,
       TasksOK, TaskHolds
  <2> QED BY <1>13, <2>1, CountedOthers DEF DelRow, Goto, locals, ghosts, TypeOK,
     TasksOK
<1>14. ASSUME NEW t \in Tasks, Unlink(t) \/ BucketUnlink(t) PROVE Goal
  BY <1>4, <1>6, <1>14 DEF Unlink, BucketUnlink, CountWindow, locals
<1>15. ASSUME NEW t \in Tasks, BucketNext(t) PROVE Goal
  <2>1. PICK f \in todo[t] :
          /\ req' = [req EXCEPT ![t] = [@ EXCEPT !.obj = f.obj]]
          /\ path' = [path EXCEPT ![t] = f.path]
          /\ \E n \in Unless("db",
                          \E o \in Objects : Stored(o) /\ files[o].path = f.path,
                          FALSE) : refs' = [refs EXCEPT ![t] = n]
    BY <1>15 DEF BucketNext
  <2>2. path'[t] = f.path /\ pc'[t] = "bucket_unlink" /\ files' = files
    BY <1>15, <2>1 DEF BucketNext, store, TypeOK, TasksOK
  <2>3. "db" \notin Faults =>
          refs'[t] = \E o \in Objects : Stored(o) /\ files[o].path = f.path
    BY <2>1 DEF Unless, TypeOK, TasksOK
  <2>4. Counted(t)'
    BY <2>2, <2>3 DEF Counted, Stored
  <2>5. \A x \in Tasks \ {t} : /\ pc'[x] = pc[x] /\ req'[x] = req[x]
                               /\ path'[x] = path[x] /\ refs'[x] = refs[x]
    BY <1>15, <2>1 DEF BucketNext, TypeOK, TasksOK
  <2> QED BY <1>6, <1>15, <2>4, <2>5, CountedOthers DEF BucketNext
<1>16. ASSUME NEW t \in Tasks,
              ListBucket(t) \/ DropBucket(t) \/ BucketInvalidate(t) \/ RmDir(t)
       PROVE  Goal
  BY <1>3, <1>4, <1>16 DEF ListBucket, DropBucket, BucketInvalidate, RmDir, CountWindow,
     locals, ghosts
<1>17. ASSUME NEW t \in Tasks, DbError(t) PROVE Goal
  BY <1>3, <1>5, <1>17 DEF DbError, ghosts
<1>18. ASSUME NEW t \in Tasks, Drop(t) PROVE Goal
  BY <1>2, <1>6, <1>18 DEF Drop
<1>19. CASE SweepList \/ SweepDone
  BY <1>2, <1>4, <1>19 DEF SweepList, SweepDone, CountWindow, locals
<1>20. CASE SweepNext
  BY <1>1, <1>20 DEF SweepNext, CountWindow, locals, ghosts, TypeOK, TasksOK
<1>21. CASE PreloadList \/ PreloadFill \/ PreloadDone
  BY <1>2, <1>4, <1>21 DEF PreloadList, PreloadFill, PreloadDone, CountWindow, ghosts
<1>22. CASE PreloadRead
  <2>1. CASE pc' = [pc EXCEPT ![Preloader] = "preload_fill"]
             /\ \A x \in Tasks \ {Preloader} : req'[x] = req[x]
    BY <1>1, <1>22, <2>1 DEF PreloadRead, CountWindow, ghosts
  <2>2. CASE UNCHANGED control
    BY <1>22, <2>2, CountedKept, RowsNotedStep DEF PreloadRead, control, ghosts
  <2> QED BY <1>22, <2>1, <2>2 DEF PreloadRead, TypeOK, TasksOK
<1>23. CASE Restart
  BY <1>23, CountedOutside DEF Restart, CountWindow
<1>24. CASE Evict \/ Tick \/ UNCHANGED vars
  BY <1>24, CountedKept, RowsNotedStep DEF Evict, Tick, vars, control, locals, ghosts
<1> QED BY <1>8, <1>9, <1>10, <1>11, <1>12, <1>13, <1>14, <1>15, <1>16, <1>17, <1>18,
     <1>19, <1>20, <1>21, <1>22, <1>23, <1>24
     DEF Next, Client, DeleteStep, BucketStep, Sweep, Preload, Listen

\* The bytes delete_file unlinks, and those delete_bucket unlinks with a database
\* that answers, belong at that moment to no row older than the reference count
\* the decision rests on, whatever else runs, fails or restarts.
THEOREM UnlinkOnlyInWindow == Spec => []UnlinkWindow
<1> DEFINE Inv == \A x \in Tasks : Counted(x)
<1>1. Init => Inv
  BY DEF Init, Counted
<1>2. TypeOK /\ Inv /\ [Next]_vars => Inv'
  BY CountedStep
<1>3. Inv => UnlinkWindow
  BY DEF Counted, UnlinkWindow
<1> HIDE DEF Inv
<1> QED BY <1>1, <1>2, <1>3, TypeCorrect, PTL DEF Spec

-----------------------------------------------------------------------------
(* The sweep's window.                                                     *)

\* An object of the listing stays accounted for.
LEMMA StillDueStep ==
    ASSUME TypeOK, [Next]_vars, RowsNoted, NEW o \in Objects, StillDue(o),
           pc[Sweeper] # "idle", renewed \subseteq renewed'
    PROVE  StillDue(o)'
<1>1. now' \in Nat /\ now <= now' /\ now \in Nat
  <2>1. ASSUME NEW t \in Tasks,
               StoreStep(t) \/ ReadStep(t) \/ DeleteStep(t) \/ BucketStep(t)
        PROVE  now' = now
    BY <2>1 DEF StoreStep, ReadStep, DeleteStep, BucketStep, EnsureBucket, Dedup,
       AliasSave, AliasSaveRejected, WriteStep, CreateTemp, FillTemp, RenameTemp,
       RenameFails, WriteFails, SaveRow, SaveFails, WarmMeta, WarmBody, GetMeta, GetRow,
       FillMeta, GetBody, ReadDisk, ReadFails, FillBody, GetInfo, DelFind, DelCount,
       DelRow, Unlink, Invalidate, ListBucket, DropBucket, BucketNext, BucketUnlink,
       BucketInvalidate, RmDir, clock
  <2>2. ASSUME NEW t \in Tasks,
               \/ StartStore(t) \/ StartOnObject(t) \/ StartOnBucket(t)
               \/ Drop(t) \/ DbError(t)
        PROVE  now' = now
    BY <2>2 DEF StartStore, StartOnObject, StartOnBucket, Accept, Drop, DbError, clock
  <2>3. ASSUME Sweep \/ Preload \/ Restart \/ Evict \/ UNCHANGED vars PROVE now' = now
    BY <2>3 DEF Sweep, Preload, SweepList, SweepNext, SweepDone, PreloadList,
       PreloadRead, PreloadFill, PreloadDone, Restart, Evict, clock, vars
  <2>4. CASE Tick
    BY <2>4 DEF Tick, TypeOK, StoresOK
  <2>5. now' = now => now' \in Nat /\ now <= now' /\ now \in Nat
    BY DEF TypeOK, StoresOK
  <2> QED BY <2>1, <2>2, <2>3, <2>4, <2>5 DEF Next, Client, Listen
<1>2. files'[o] = files[o] \/ files'[o] = None \/ o \in renewed'
  BY DEF RowsNoted
<1>3. Stored(o) => files[o].expires \in Nat
  BY DEF Stored, TypeOK, StoresOK, Rows
<1> QED BY <1>1, <1>2, <1>3 DEF StillDue, Stored, Due

\* A step that does not move the sweep keeps its listing accounted for.
LEMMA ListedKept ==
    ASSUME TypeOK, Listed, [Next]_vars, pc'[Sweeper] = pc[Sweeper],
           req'[Sweeper] = req[Sweeper], expired' = expired,
           renewed \subseteq renewed'
    PROVE  Listed'
<1>1. CASE pc[Sweeper] = "idle"
  BY <1>1 DEF Listed
<1>2. CASE pc[Sweeper] # "idle"
  <2>1. RowsNoted
    BY RowsNotedStep
  <2>2. \A o \in Objects : StillDue(o) => StillDue(o)'
    BY <1>2, <2>1, StillDueStep
  <2>3. pc[Sweeper] \in DeleteLabels => Obj(Sweeper) \in Objects
    BY DEF TypeOK, TaskHolds
  <2>4. expired \subseteq Objects /\ Obj(Sweeper)' = Obj(Sweeper)
    BY DEF TypeOK, TasksOK, Obj
  <2> QED BY <2>2, <2>3, <2>4 DEF Listed
<1> QED BY <1>1, <1>2

\* The listing is accounted for after every step.
LEMMA ListedStep ==
    ASSUME TypeOK, Listed, [Next]_vars
    PROVE  Listed'
<1>1. ASSUME NEW t \in Tasks \ {Sweeper}, UNCHANGED expired, renewed \subseteq renewed',
             \A x \in Tasks \ {t} : pc'[x] = pc[x] /\ req'[x] = req[x]
      PROVE  Listed'
  BY <1>1, ListedKept
<1>2. ASSUME NEW o, NoteSaved(o) PROVE renewed \subseteq renewed'
  BY <1>2 DEF NoteSaved
<1>3. ASSUME NEW t \in Tasks \ {Sweeper}, NEW label, Goto(t, label), UNCHANGED expired,
             renewed \subseteq renewed'
      PROVE  Listed'
  BY <1>1, <1>3 DEF Goto, TypeOK, TasksOK
<1>4. ASSUME NEW t \in Tasks \ {Sweeper}, Finish(t), UNCHANGED expired,
             renewed \subseteq renewed'
      PROVE  Listed'
  BY <1>1, <1>4 DEF Finish, TypeOK, TasksOK
<1>5. ASSUME NEW t \in Tasks \ {Sweeper}, NEW answer, Return(t, answer),
             UNCHANGED expired, renewed \subseteq renewed'
      PROVE  Listed'
  BY <1>4, <1>5 DEF Return, Respond
<1>6. ASSUME NEW t \in Clients, Client(t) PROVE Listed'
  <2>1. t \in Tasks \ {Sweeper}
    BY TasksAssumption
  <2>2. CASE StartStore(t) \/ StartOnObject(t) \/ StartOnBucket(t)
    <3>1. PICK op, label, b, o, c, e : Accept(t, op, label, b, o, c, e)
      BY <2>2 DEF StartStore, StartOnObject, StartOnBucket
    <3> QED BY <1>1, <2>1, <3>1 DEF Accept, TypeOK, TasksOK
  <2>3. CASE StoreStep(t)
    <3>1. CASE AliasSave(t) \/ SaveRow(t)
      <4>1. renewed \subseteq renewed' /\ UNCHANGED expired
        BY <1>2, <3>1 DEF AliasSave, SaveRow, save_file
      <4> QED BY <1>3, <1>5, <2>1, <3>1, <4>1 DEF AliasSave, SaveRow
    <3>2. CASE ~(AliasSave(t) \/ SaveRow(t))
      BY <1>3, <1>5, <2>1, <2>3, <3>2 DEF StoreStep, EnsureBucket, Dedup,
         AliasSaveRejected, WriteStep, CreateTemp, FillTemp, RenameTemp, RenameFails,
         WriteFails, SaveFails, WarmMeta, WarmBody, ghosts
    <3> QED BY <3>1, <3>2
  <2>4. CASE ReadStep(t)
    BY <1>3, <1>4, <2>1, <2>4 DEF ReadStep, GetMeta, GetRow, FillMeta, GetBody,
       ReadDisk, ReadFails, FillBody, GetInfo, AfterRow, Return, Respond, ghosts
  <2>5. CASE BucketNext(t)
    BY <1>1, <2>1, <2>5 DEF BucketNext, TypeOK, TasksOK
  <2>6. CASE ListBucket(t) \/ DropBucket(t) \/ BucketUnlink(t) \/ BucketInvalidate(t)
             \/ RmDir(t)
    BY <1>3, <1>5, <2>1, <2>6 DEF ListBucket, DropBucket, BucketUnlink,
       BucketInvalidate, RmDir, ghosts
  <2>7. CASE Drop(t)
    BY <1>4, <2>1, <2>7 DEF Drop
  <2> QED BY <1>6, <2>2, <2>3, <2>4, <2>5, <2>6, <2>7 DEF Client, BucketStep
<1>7. ASSUME NEW t \in Clients, DeleteStep(t) \/ DbError(t) PROVE Listed'
  <2>1. t \in Tasks \ {Sweeper}
    BY TasksAssumption
  <2>2. UNCHANGED expired /\ renewed \subseteq renewed'
    BY <1>7 DEF DeleteStep, DelFind, DelCount, DelRow, Unlink, Invalidate, DbError,
       ghosts
  <2>3. (\E label : Goto(t, label)) \/ (\E answer : Return(t, answer))
    BY <1>7 DEF DeleteStep, DelFind, DelCount, DelRow, Unlink, Invalidate, DbError,
       AfterDelete
  <2> QED BY <1>3, <1>5, <2>1, <2>2, <2>3
<1>8. ASSUME NEW label \in DeleteLabels \union {"sweep_next"}, Goto(Sweeper, label),
             pc[Sweeper] \in DeleteLabels, UNCHANGED <<expired, renewed>>
      PROVE  Listed'
  <2>1. \A o \in Objects : StillDue(o) => StillDue(o)'
    BY <1>8, RowsNotedStep, StillDueStep
  <2>2. /\ Obj(Sweeper) \in Objects /\ Obj(Sweeper)' = Obj(Sweeper)
        /\ expired \subseteq Objects
    BY <1>8 DEF Goto, Obj, TypeOK, TasksOK, TaskHolds
  <2>3. pc'[Sweeper] = label
    BY <1>8 DEF Goto, TypeOK, TasksOK
  <2> QED BY <1>8, <2>1, <2>2, <2>3 DEF Listed
<1>9. ASSUME NEW answer, Return(Sweeper, answer) PROVE Listed'
  BY <1>9 DEF Return, Respond, Finish, Listed, TypeOK, TasksOK
<1>10. CASE DeleteStep(Sweeper) \/ DbError(Sweeper)
  <2>1. UNCHANGED <<expired, renewed>>
    BY <1>10 DEF DeleteStep, DelFind, DelCount, DelRow, Unlink, Invalidate, DbError,
       ghosts
  <2>2. \/ \E answer : Return(Sweeper, answer)
        \/ pc[Sweeper] \in DeleteLabels
           /\ \E label \in DeleteLabels \union {"sweep_next"} : Goto(Sweeper, label)
    BY <1>10 DEF DeleteStep, DelFind, DelCount, DelRow, Unlink, Invalidate, DbError,
       AfterDelete
  <2> QED BY <1>8, <1>9, <2>1, <2>2
<1>11. CASE SweepList
  <2>1. pc'[Sweeper] = "sweep_next" /\ UNCHANGED <<files, now>>
    BY <1>11 DEF SweepList, Goto, store, clock, TypeOK, TasksOK
  <2> QED BY <1>11, <2>1 DEF SweepList, list_expired_files, Listed, StillDue, Stored,
     Due
<1>12. CASE SweepNext
  <2>1. PICK o \in expired :
          /\ expired' = expired \ {o}
          /\ req' = [req EXCEPT ![Sweeper] =
                       [NoRequest EXCEPT !.op = "sweep", !.bucket = o.bucket,
                                         !.obj = o]]
    BY <1>12 DEF SweepNext
  <2>2. Obj(Sweeper)' = o
    BY <2>1 DEF Obj, NoRequest, TypeOK, TasksOK
  <2>3. pc[Sweeper] = "sweep_next" /\ UNCHANGED <<files, now, renewed>>
    BY <1>12 DEF SweepNext, store, clock, ghosts
  <2> QED BY <2>1, <2>2, <2>3 DEF Listed, StillDue, Stored, Due
<1>13. CASE SweepDone
  BY <1>13 DEF SweepDone, Finish, Listed, TypeOK, TasksOK
<1>14. CASE Preload
  <2>1. Preloader \in Tasks \ {Sweeper}
    BY TasksAssumption
  <2>2. UNCHANGED <<expired, renewed>>
    BY <1>14 DEF Preload, PreloadList, PreloadRead, PreloadFill, PreloadDone, ghosts
  <2>3. CASE PreloadList \/ PreloadFill
    BY <1>3, <2>1, <2>2, <2>3 DEF PreloadList, PreloadFill
  <2>4. CASE PreloadRead
    BY <1>1, <2>1, <2>2, <2>4 DEF PreloadRead, control, TypeOK, TasksOK
  <2>5. CASE PreloadDone
    BY <1>4, <2>1, <2>2, <2>5 DEF PreloadDone
  <2> QED BY <1>14, <2>3, <2>4, <2>5 DEF Preload
<1>15. CASE Restart
  BY <1>15 DEF Restart, Listed
<1>16. CASE Evict \/ Tick \/ UNCHANGED vars
  BY <1>16, ListedKept DEF Evict, Tick, vars, control, ghosts
<1> QED BY <1>6, <1>7, <1>10, <1>11, <1>12, <1>13, <1>14, <1>15, <1>16
     DEF Next, Sweep, Listen

\* The row the TTL sweep deletes is past its expires_at, or was saved after the
\* sweep listed it: an object that nobody uploads during a sweep is removed only
\* if its lifetime is over, and a permanent one never.
THEOREM SweepOnlyInWindow == Spec => []SweepWindow
<1>1. Init => Listed
  BY DEF Init, Listed
<1>2. TypeOK /\ Listed /\ [Next]_vars => Listed'
  BY ListedStep
<1>3. Listed => SweepWindow
  BY DEF Listed, SweepWindow, StillDue
<1> QED BY <1>1, <1>2, <1>3, TypeCorrect, PTL DEF Spec

=============================================================================
