----------------------------- MODULE Popularity -----------------------------
(***************************************************************************)
(* The access statistics of the files table and the service that preloads  *)
(* popular files (database.rs: save_file, update_access; cache.rs:         *)
(* start_preload_service and below).  A read that has its bytes counts     *)
(* itself, by the id of the row it works with, before it is answered; the  *)
(* preloader works through a list it queried once, file by file.  Bytes and bodies   *)
(* are the subject of StorageManager: here an object has a size and its    *)
(* file is there or not.                                                   *)
(***************************************************************************)
EXTENDS Naturals, Sequences, FiniteSets, SequencesExt

CONSTANTS
    Objects, Clients, None,
    Sizes,           \* lengths a stored file may have
    MaxContentSize,  \* set_file_content: 1MB
    MaxPreloadSize,  \* get_popular_uncached_files: 10MB
    MinAccess,       \* cache_config.min_access_count
    Budget,          \* cache_config.max_cache_size_gb
    BatchLimit,      \* the LIMIT of the query, 1000
    MaxReads, MaxUploads, MaxFaults, MaxRestarts   \* bounds

ASSUME PopularityAssumption ==
    /\ Sizes \subseteq Nat /\ MaxContentSize \in Nat /\ MaxPreloadSize \in Nat
    /\ MinAccess \in Nat /\ Budget \in Nat /\ BatchLimit \in Nat \ {0}
    /\ MaxReads \in Nat /\ MaxUploads \in Nat /\ MaxFaults \in Nat /\ MaxRestarts \in Nat
    /\ IsFiniteSet(Objects) /\ IsFiniteSet(Clients)

\* NULL is no size, no id, no row and no read.
ASSUME NoneAssumption ==
    /\ None \notin Nat /\ None \notin [obj: Objects, id: Nat]
    /\ None \notin [id: Nat, size: Sizes, count: Nat, cached: BOOLEAN]

VARIABLES
    rows,     \* files: id, size, access_count, cache_status = 'cached'
    lost,     \* objects whose file is not on the disk although the row is there
    meta,     \* the id in the cached row of each object, or None
    warm,     \* objects whose body is cached
    reading,  \* of each client: the read that has its bytes and is to count itself, or None
    step,     \* the preloader: sleep, batch (between files), mark (after a file)
    batch,    \* the rows it listed and has not dealt with
    got,      \* the bytes it read of the first of them, or None if that failed
    used,     \* current_cache_size
    served,   \* history: reads of each object that got bytes, since its row was created
    ids, reads, faults, restarts   \* counters for fresh ids and for the bounds

preloader == <<step, batch, got, used>>
caches    == <<meta, warm>>
bounds    == <<ids, reads, faults, restarts>>
vars      == <<rows, lost, caches, reading, preloader, served, bounds>>

Stored(o) == rows[o] # None
Fault == faults < MaxFaults /\ faults' = faults + 1

Init ==
    /\ rows = [o \in Objects |-> None] /\ lost = {}
    /\ meta = [o \in Objects |-> None] /\ warm = {}
    /\ reading = [t \in Clients |-> None]
    /\ step = "sleep" /\ batch = <<>> /\ got = None /\ used = 0
    /\ served = [o \in Objects |-> 0]
    /\ ids = 0 /\ reads = 0 /\ faults = 0 /\ restarts = 0

-----------------------------------------------------------------------------
(* What requests do to the statistics.                                     *)

Cache(S, o, size) == IF size <= MaxContentSize THEN S \union {o} ELSE S

\* save_file: "the existing row's primary key persists across an overwrite", and
\* so does cache_status; access_count starts again.
SaveFile(o, id, size) ==
    IF Stored(o) THEN [rows[o] EXCEPT !.size = size, !.count = 0]
    ELSE [id |-> id, size |-> size, count |-> 0, cached |-> FALSE]

\* store_file makes up an id for every upload, and caches the row with that id
\* even if the row in the database keeps another one.
Upload ==
    /\ ids < MaxUploads
    /\ ids' = ids + 1
    /\ \E o \in Objects, size \in Sizes :
         /\ rows' = [rows EXCEPT ![o] = SaveFile(o, ids', size)]
         /\ meta' = [meta EXCEPT ![o] = ids']
         /\ warm' = Cache(warm, o, size)
         /\ lost' = lost \ {o}
         /\ served' = IF Stored(o) THEN served ELSE [served EXCEPT ![o] = 0]
    /\ UNCHANGED <<reading, preloader, reads, faults, restarts>>

\* delete_file: the row, the file, the cache entries.
RemoveObject(o) ==
    /\ rows' = [rows EXCEPT ![o] = None]
    /\ lost' = lost \ {o}
    /\ meta' = [meta EXCEPT ![o] = None]
    /\ warm' = warm \ {o}
Delete ==
    /\ \E o \in Objects : Stored(o) /\ RemoveObject(o)
    /\ UNCHANGED <<reading, preloader, served, bounds>>

\* get_file, and the range reads, which leave the content cache alone: the cached
\* row or the one of the database (then cached), the cached body or the file.
Served(t, o, id) ==
    /\ reading' = [reading EXCEPT ![t] = [obj |-> o, id |-> id]]
    /\ served' = [served EXCEPT ![o] = @ + 1]
    /\ meta' = [meta EXCEPT ![o] = id]
    /\ \/ UNCHANGED warm
       \/ o \notin warm /\ warm' = Cache(warm, o, rows[o].size)
    /\ UNCHANGED <<rows, lost>>
Read(t) ==
    /\ reading[t] = None /\ reads < MaxReads
    /\ reads' = reads + 1
    /\ \E o \in Objects :
         /\ Stored(o)
         /\ \/ /\ o \in warm \/ o \notin lost
               /\ Served(t, o, IF meta[o] # None THEN meta[o] ELSE rows[o].id)
            \* The row whose file is missing is deleted by get_file; a range read
            \* fails and changes nothing.
            \/ /\ o \notin warm /\ o \in lost
               /\ RemoveObject(o)
               /\ UNCHANGED <<reading, served>>
    /\ UNCHANGED <<preloader, ids, faults, restarts>>

\* MUTANT of UpdateAccess: by bucket and key, as the other queries.
UpdateAccessByKey(t) ==
    [o \in Objects |->
       IF Stored(o) /\ o = reading[t].obj THEN [rows[o] EXCEPT !.count = @ + 1]
       ELSE rows[o]]

\* UPDATE ... WHERE id = $1
UpdateAccess(t) ==
    [o \in Objects |->
       IF Stored(o) /\ rows[o].id = reading[t].id THEN [rows[o] EXCEPT !.count = @ + 1]
       ELSE rows[o]]

\* The read counts itself and is answered; a failure is only logged, and a client
\* that goes away meanwhile takes the count with it.
CountRead(t) ==
    /\ reading[t] # None
    /\ reading' = [reading EXCEPT ![t] = None]
    /\ \/ rows' = UpdateAccess(t) /\ UNCHANGED faults
       \/ Fault /\ UNCHANGED rows
    /\ UNCHANGED <<lost, caches, preloader, served, ids, reads, restarts>>

-----------------------------------------------------------------------------
(* preload_popular_files.                                                  *)

Popular(o) ==
    /\ Stored(o) /\ rows[o].count >= MinAccess
    /\ ~rows[o].cached /\ rows[o].size <= MaxPreloadSize

\* ORDER BY ... access_count DESC LIMIT: cache_priority is always 0.
ByAccess(S) == {q \in SetToSeqs(S) :
                  \A i, j \in DOMAIN q : i < j => rows[q[i]].count >= rows[q[j]].count}
Top(q) == SubSeq(q, 1, IF Len(q) < BatchLimit THEN Len(q) ELSE BatchLimit)
Sleep == step' = "sleep" /\ batch' = <<>> /\ got' = None /\ used' = 0

\* get_cache_config (with preload_enabled) and get_popular_uncached_files; if
\* either fails, nothing changes until the next round.
Query ==
    /\ step = "sleep"
    /\ \E q \in ByAccess({o \in Objects : Popular(o)}) :
         /\ batch' = [i \in DOMAIN Top(q) |-> [obj |-> q[i], id |-> rows[q[i]].id]]
         /\ step' = "batch" /\ got' = None /\ used' = 0
    /\ UNCHANGED <<rows, lost, caches, reading, served, bounds>>

\* MUTANT of WithinBudget: the check is made once, before the loop.
WithinBudgetOnce == Budget > 0
WithinBudget == used < Budget

\* cache_file_from_disk: whatever the path holds by now, of any size.
CacheFile ==
    /\ step = "batch" /\ batch # <<>> /\ WithinBudget
    /\ LET o == Head(batch).obj
       IN  \/ /\ Stored(o) /\ o \notin lost
              /\ got' = rows[o].size
              /\ warm' = Cache(warm, o, rows[o].size)
              /\ UNCHANGED faults
           \/ /\ ~Stored(o) \/ o \in lost
              /\ got' = None /\ UNCHANGED <<warm, faults>>
           \/ Fault /\ got' = None /\ UNCHANGED warm
    /\ step' = "mark"
    /\ UNCHANGED <<rows, lost, meta, reading, batch, used, served, ids, reads, restarts>>

\* MUTANT of UpdateCacheStatus: by bucket and key.
UpdateCacheStatusByKey ==
    [o \in Objects |->
       IF Stored(o) /\ o = Head(batch).obj THEN [rows[o] EXCEPT !.cached = got # None]
       ELSE rows[o]]

\* UPDATE ... WHERE id = $3, to 'cached' or to 'not_cached'
UpdateCacheStatus ==
    [o \in Objects |->
       IF Stored(o) /\ rows[o].id = Head(batch).id THEN [rows[o] EXCEPT !.cached = got # None]
       ELSE rows[o]]

\* MUTANTS of GoOn: the next file is marked and not read; a file that cannot be
\* read ends the batch.
GoOnWithoutReading ==
    /\ batch' = Tail(batch) /\ step' = "mark" /\ got' = None
    /\ used' = IF got = None THEN used ELSE used + got
GoOnUnlessFailed ==
    IF got = None THEN Sleep
    ELSE /\ batch' = Tail(batch) /\ step' = "batch" /\ got' = None /\ used' = used + got

GoOn ==
    /\ batch' = Tail(batch) /\ step' = "batch" /\ got' = None
    /\ used' = IF got = None THEN used ELSE used + got

\* update_cache_status; its failure ends the batch.
Mark ==
    /\ step = "mark"
    /\ \/ rows' = UpdateCacheStatus /\ GoOn /\ UNCHANGED faults
       \/ Fault /\ Sleep /\ UNCHANGED rows
    /\ UNCHANGED <<lost, caches, reading, served, ids, reads, restarts>>

BatchDone ==
    /\ step = "batch" /\ (batch = <<>> \/ ~WithinBudget)
    /\ Sleep
    /\ UNCHANGED <<rows, lost, caches, reading, served, bounds>>

-----------------------------------------------------------------------------
(* The environment.                                                        *)

\* A cache entry reaches its time to live or makes room.
Evict ==
    /\ \E o \in Objects :
         \/ meta[o] # None /\ meta' = [meta EXCEPT ![o] = None] /\ UNCHANGED warm
         \/ o \in warm /\ warm' = warm \ {o} /\ UNCHANGED meta
    /\ UNCHANGED <<rows, lost, reading, preloader, served, bounds>>

\* A file disappears from the disk (the ways are in StorageManager and DataPath).
LoseFile ==
    /\ Fault
    /\ \E o \in Objects : Stored(o) /\ o \notin lost /\ lost' = lost \union {o}
    /\ UNCHANGED <<rows, caches, reading, preloader, served, ids, reads, restarts>>

\* A new process, with an empty in-process cache; the rows keep their marks.
Restart ==
    /\ restarts < MaxRestarts
    /\ restarts' = restarts + 1
    /\ meta' = [o \in Objects |-> None] /\ warm' = {}
    /\ reading' = [t \in Clients |-> None]
    /\ Sleep
    /\ UNCHANGED <<rows, lost, served, ids, reads, faults>>

-----------------------------------------------------------------------------
Preload == Query \/ CacheFile \/ Mark \/ BatchDone
Next ==
    \/ Upload \/ Delete \/ (\E t \in Clients : Read(t) \/ CountRead(t))
    \/ Preload \/ Evict \/ LoseFile \/ Restart

\* start_preload_service loops for as long as the process lives.
FairSpec == Init /\ [][Next]_vars /\ WF_vars(Preload)

-----------------------------------------------------------------------------
\* Counters and rows have the shapes the queries rely on, and the ids are unique:
\* a statement by id reaches one row at most.
TypeOK ==
    /\ \A o \in Objects : Stored(o) =>
         /\ rows[o].id \in 1 .. ids /\ rows[o].size \in Sizes
         /\ \A p \in Objects \ {o} : Stored(p) => rows[p].id # rows[o].id
    /\ meta \in [Objects -> 1 .. ids \union {None}]
    /\ lost \subseteq {o \in Objects : Stored(o)} /\ warm \subseteq Objects
    /\ step \in {"sleep", "batch", "mark"} /\ (step = "mark" => batch # <<>>)
    /\ Len(batch) <= BatchLimit

\* access_count counts reads of this row and of no row before it: a read that is
\* still to count itself when the object is deleted and uploaded anew is not
\* credited to the new object.
CountsAreReads == \A o \in Objects : Stored(o) => rows[o].count <= served[o]

\* A batch goes beyond the budget by less than the length of one file, although the
\* check is made before each file and not after it, and files are overwritten by
\* larger ones between the query and the read.
BatchWithinBudget ==
    used > 0 => \E size \in Sizes : used < Budget + size

\* A row is marked 'cached' only after MinAccess reads of the object it stands
\* for, however old the list of the batch is.
MarksArePopular ==
    [][\A o \in Objects :
         /\ Stored(o) /\ rows'[o] # None /\ rows'[o].id = rows[o].id
         /\ ~rows[o].cached /\ rows'[o].cached
         => served[o] >= MinAccess]_vars

\* A popular file that can be read gets its turn in the end, and is marked: neither a
\* file that cannot be read, nor a failed update, nor a batch that hit its budget
\* keeps it from that (as long as fewer than BatchLimit files are unreadable).  The
\* mark says that the file was read: one above MaxContentSize is not in the cache.
PopularGetsMarked ==
    \A o \in Objects :
        (Popular(o) /\ o \notin lost) ~> ~(Popular(o) /\ o \notin lost)
=============================================================================
