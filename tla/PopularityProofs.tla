-------------------------- MODULE PopularityProofs --------------------------
(***************************************************************************)
(* The statistics and the preloader, for any number of objects, clients    *)
(* and files per batch.                                                    *)
(*                                                                         *)
(* Statements by id are what keeps the counters honest: an id belongs to   *)
(* one object for ever, so a read, a cached row or a listed file that has  *)
(* outlived its row reaches no other one.                                  *)
(***************************************************************************)
EXTENDS Popularity, TLAPS, FiniteSetTheorems

-----------------------------------------------------------------------------
(* The invariant.                                                          *)

Row == [id: Nat, size: Sizes, count: Nat, cached: BOOLEAN]
Refs == [obj: Objects, id: Nat]

Shapes ==
    /\ rows \in [Objects -> Row \union {None}]
    /\ reading \in [Clients -> Refs \union {None}]
    /\ meta \in [Objects -> Nat \union {None}]
    /\ served \in [Objects -> Nat] /\ ids \in Nat /\ used \in Nat
    /\ lost \subseteq {o \in Objects : Stored(o)} /\ warm \subseteq Objects
    /\ batch \in Seq(Refs) /\ Len(batch) <= BatchLimit
    /\ step \in {"sleep", "batch", "mark"} /\ (step = "mark" => batch # <<>>)

\* An id has been given to one object only, and a row, a cached row, a pending read
\* or a listed file that carries the id speaks of that object.
Speaks(o, id) ==
    /\ id \in 1 .. ids
    /\ \A p \in Objects : Stored(p) /\ rows[p].id = id => p = o
IdsApart ==
    /\ \A o \in Objects : Stored(o) => Speaks(o, rows[o].id)
    /\ \A o \in Objects : meta[o] # None => Speaks(o, meta[o])
    /\ \A t \in Clients : reading[t] # None => Speaks(reading[t].obj, reading[t].id)
    /\ \A i \in DOMAIN batch : batch[i].id \in 1 .. ids

\* The reads that will count themselves on the row with this id.
Pending(id) == {t \in Clients : reading[t] # None /\ reading[t].id = id}

\* A row has counted at most the reads that got bytes and are not pending.
Counted ==
    \A o \in Objects :
        Stored(o) => rows[o].count + Cardinality(Pending(rows[o].id)) <= served[o]

\* A row that is still the one listed has been read often enough.
Listed ==
    \A i \in DOMAIN batch, o \in Objects :
        Stored(o) /\ rows[o].id = batch[i].id => served[o] >= MinAccess

\* The budget was not used up when the file at hand was read.
Paid ==
    /\ step = "mark" => used < Budget
    /\ got # None => got \in Sizes

Inv == Shapes /\ IdsApart /\ Counted /\ Listed /\ Paid /\ BatchWithinBudget

-----------------------------------------------------------------------------
(* What the statements do to the rows.                                     *)

\* A row is not NULL.
LEMMA RowIsNotNone == \A r \in Row : r # None
BY NoneAssumption DEF Row

\* INSERT ... ON CONFLICT DO UPDATE: the row keeps its id, or gets the new one.
LEMMA SaveEffect ==
    ASSUME Shapes, NEW o \in Objects, NEW id \in Nat, NEW size \in Sizes
    PROVE  /\ SaveFile(o, id, size) \in Row
           /\ SaveFile(o, id, size).count = 0 /\ SaveFile(o, id, size).size = size
           /\ SaveFile(o, id, size).id = IF Stored(o) THEN rows[o].id ELSE id
           /\ Stored(o) => SaveFile(o, id, size).cached = rows[o].cached
<1>1. CASE Stored(o)
  <2>1. rows[o] \in Row
    BY <1>1 DEF Shapes, Stored
  <2> QED BY <1>1, <2>1 DEF SaveFile, Row
<1>2. CASE ~Stored(o)
  BY <1>2 DEF SaveFile, Row
<1> QED BY <1>1, <1>2

\* UPDATE files SET access_count = access_count + 1 WHERE id = $1.
LEMMA CountEffect ==
    ASSUME Shapes, NEW t \in Clients, NEW o \in Objects, rows' = UpdateAccess(t)
    PROVE  /\ rows' \in [Objects -> Row \union {None}]
           /\ Stored(o)' <=> Stored(o)
           /\ Stored(o) =>
                /\ rows'[o].id = rows[o].id /\ rows'[o].size = rows[o].size
                /\ rows'[o].cached = rows[o].cached
                /\ rows'[o].count = IF rows[o].id = reading[t].id THEN rows[o].count + 1
                                    ELSE rows[o].count
<1>1. ASSUME NEW r \in Row, NEW n \in Nat
      PROVE  LET s == [r EXCEPT !.count = n]
             IN  /\ s \in Row /\ s.id = r.id /\ s.size = r.size /\ s.cached = r.cached
                 /\ s.count = n
  BY <1>1 DEF Row
<1>2. ASSUME NEW p \in Objects, Stored(p)
      PROVE  /\ rows[p] \in Row /\ rows[p].count + 1 \in Nat
             /\ [rows[p] EXCEPT !.count = @ + 1] = [rows[p] EXCEPT !.count = rows[p].count + 1]
  BY <1>2 DEF Shapes, Stored, Row
<1>3. rows' \in [Objects -> Row \union {None}]
  <2>1. \A p \in Objects : rows'[p] \in Row \union {None}
    BY <1>1, <1>2 DEF UpdateAccess, Stored
  <2> QED BY <2>1 DEF UpdateAccess
<1>4. rows'[o] = IF Stored(o) /\ rows[o].id = reading[t].id
                 THEN [rows[o] EXCEPT !.count = rows[o].count + 1] ELSE rows[o]
  BY <1>2 DEF UpdateAccess
<1> QED BY <1>1, <1>2, <1>3, <1>4, RowIsNotNone DEF Stored

\* UPDATE files SET cache_status WHERE id = $3.
LEMMA MarkEffect ==
    ASSUME Shapes, NEW o \in Objects, rows' = UpdateCacheStatus
    PROVE  /\ rows' \in [Objects -> Row \union {None}]
           /\ Stored(o)' <=> Stored(o)
           /\ Stored(o) =>
                /\ rows'[o].id = rows[o].id /\ rows'[o].size = rows[o].size
                /\ rows'[o].count = rows[o].count
                /\ rows'[o] # rows[o] => rows[o].id = Head(batch).id
<1>1. PICK seen : seen = (got # None)
  OBVIOUS
<1>2. seen \in BOOLEAN
  BY <1>1
<1>3. ASSUME NEW r \in Row
      PROVE  LET s == [r EXCEPT !.cached = seen]
             IN  s \in Row /\ s.id = r.id /\ s.size = r.size /\ s.count = r.count
  BY <1>2, <1>3 DEF Row
<1>4. ASSUME NEW p \in Objects, Stored(p) PROVE rows[p] \in Row
  BY <1>4 DEF Shapes, Stored
<1>5. ASSUME NEW p \in Objects
      PROVE  rows'[p] = IF Stored(p) /\ rows[p].id = Head(batch).id
                        THEN [rows[p] EXCEPT !.cached = seen] ELSE rows[p]
  BY <1>1, Zenon DEF UpdateCacheStatus
<1>6. rows' = [p \in Objects |-> rows'[p]]
  BY DEF UpdateCacheStatus
<1>7. \A p \in Objects : rows'[p] \in Row \union {None}
  BY <1>3, <1>4, <1>5 DEF Stored
<1> QED BY <1>3, <1>4, <1>5, <1>6, <1>7, RowIsNotNone DEF Stored

-----------------------------------------------------------------------------
(* Every step keeps the invariant.                                         *)

\* An upload: a new id, and the counter of the row starts again.
LEMMA UploadKeeps == ASSUME Inv, Upload PROVE Inv'
<1>1. PICK o \in Objects, size \in Sizes :
        /\ ids' = ids + 1
        /\ rows' = [rows EXCEPT ![o] = SaveFile(o, ids', size)]
        /\ meta' = [meta EXCEPT ![o] = ids']
        /\ warm' = Cache(warm, o, size)
        /\ lost' = lost \ {o}
        /\ served' = IF Stored(o) THEN served ELSE [served EXCEPT ![o] = 0]
  BY DEF Upload
<1>2. ids \in Nat /\ ids' \in Nat /\ ids' = ids + 1
  BY <1>1 DEF Inv, Shapes
<1>3. /\ rows'[o] \in Row /\ rows'[o].count = 0
      /\ rows'[o].id = IF Stored(o) THEN rows[o].id ELSE ids'
  BY <1>1, <1>2, SaveEffect DEF Inv, Shapes
<1>4. Stored(o)' /\ \A p \in Objects \ {o} : rows'[p] = rows[p] /\ (Stored(p)' <=> Stored(p))
  BY <1>1, <1>3, RowIsNotNone DEF Stored, Inv, Shapes
<1>5. UNCHANGED <<reading, preloader>>
  BY DEF Upload
<1>6. Shapes'
  BY <1>1, <1>2, <1>3, <1>4, <1>5 DEF Inv, Shapes, Stored, Cache, preloader
<1>7. IdsApart'
  <2>1. ASSUME NEW p \in Objects, NEW id, Speaks(p, id) PROVE Speaks(p, id)'
    BY <1>2, <1>3, <1>4, <2>1 DEF Speaks
  <2>2. Speaks(o, ids)'
    BY <1>2, <1>3, <1>4 DEF Speaks, Inv, IdsApart
  <2>3. ASSUME NEW p \in Objects, Stored(p)' PROVE Speaks(p, rows[p].id)'
    BY <1>3, <1>4, <2>1, <2>2, <2>3 DEF Inv, IdsApart
  <2>4. ASSUME NEW p \in Objects, meta'[p] # None PROVE Speaks(p, meta[p])'
    BY <1>1, <2>1, <2>2, <2>4 DEF Inv, IdsApart, Shapes
  <2>5. ASSUME NEW t \in Clients, reading[t] # None
        PROVE  Speaks(reading[t].obj, reading[t].id)'
    BY <1>5, <2>1, <2>5 DEF Inv, IdsApart, Shapes, Refs
  <2>6. \A i \in DOMAIN batch : batch[i].id \in 1 .. ids'
    BY <1>2 DEF Inv, IdsApart
  <2> QED BY <1>5, <2>3, <2>4, <2>5, <2>6 DEF IdsApart, preloader
<1>8. Counted'
  <2> SUFFICES ASSUME NEW p \in Objects, Stored(p)'
               PROVE  rows'[p].count + Cardinality(Pending(rows[p].id)') <= served'[p]
    BY DEF Counted
  <2>1. \A id : Pending(id)' = Pending(id)
    BY <1>5 DEF Pending
  <2>2. \A id : Cardinality(Pending(id)) \in Nat
    BY PopularityAssumption, FS_Subset, FS_CardinalityType DEF Pending
  <2>3. CASE Stored(p)
    BY <1>1, <1>3, <1>4, <2>1, <2>2, <2>3 DEF Inv, Counted, Shapes, Stored, Row
  <2>4. CASE ~Stored(p)
    <3>1. p = o /\ rows'[p].id = ids' /\ rows'[p].count = 0 /\ served'[p] = 0
      BY <1>1, <1>3, <1>4, <2>4 DEF Inv, Shapes
    <3>2. Pending(ids') = {}
      BY <1>2 DEF Pending, Inv, IdsApart, Speaks
    <3> QED BY <2>1, <3>1, <3>2, FS_EmptySet
  <2> QED BY <2>3, <2>4
<1>9. Listed'
  <2> SUFFICES ASSUME NEW i \in DOMAIN batch, NEW p \in Objects, Stored(p)',
                      rows'[p].id = batch[i].id
               PROVE  served'[p] >= MinAccess
    BY <1>5 DEF Listed, preloader
  <2>1. batch[i].id # ids'
    BY <1>2 DEF Inv, IdsApart
  <2> QED BY <1>1, <1>3, <1>4, <2>1 DEF Inv, Listed, Shapes
<1> QED BY <1>5, <1>6, <1>7, <1>8, <1>9 DEF Inv, Paid, BatchWithinBudget, preloader

\* Removing an object takes its row away from whoever still carries its id.
LEMMA RemoveKeeps ==
    ASSUME Inv, NEW o \in Objects, RemoveObject(o), UNCHANGED <<reading, preloader, served, ids>>
    PROVE  Inv'
<1>1. /\ rows' = [rows EXCEPT ![o] = None] /\ meta' = [meta EXCEPT ![o] = None]
      /\ lost' = lost \ {o} /\ warm' = warm \ {o}
  BY DEF RemoveObject
<1>2. ~Stored(o)' /\ \A p \in Objects \ {o} : rows'[p] = rows[p] /\ (Stored(p)' <=> Stored(p))
  BY <1>1 DEF Stored, Inv, Shapes
<1>3. Shapes'
  BY <1>1, <1>2 DEF Inv, Shapes, Stored, preloader
<1>4. ASSUME NEW p, NEW id, Speaks(p, id) PROVE Speaks(p, id)'
  BY <1>2, <1>4 DEF Speaks
<1>5. IdsApart'
  BY <1>1, <1>2, <1>4 DEF Inv, IdsApart, Shapes, preloader
<1>6. Counted'
  BY <1>2 DEF Inv, Counted, Pending
<1>7. Listed'
  BY <1>2 DEF Inv, Listed, preloader
<1> QED BY <1>3, <1>5, <1>6, <1>7 DEF Inv, Paid, BatchWithinBudget, preloader

\* A read that gets bytes: one more, and one more to be counted, at most on its own row.
LEMMA ServedKeeps ==
    ASSUME Inv, NEW t \in Clients, NEW o \in Objects, Stored(o), reading[t] = None,
           Served(t, o, IF meta[o] # None THEN meta[o] ELSE rows[o].id),
           UNCHANGED <<preloader, ids>>
    PROVE  Inv'
<1> DEFINE n == IF meta[o] # None THEN meta[o] ELSE rows[o].id
<1>1. n \in Nat /\ Speaks(o, n)
  BY DEF Inv, IdsApart, Shapes, Speaks
<1> HIDE DEF n
<1>2. /\ reading' = [reading EXCEPT ![t] = [obj |-> o, id |-> n]]
      /\ served' = [served EXCEPT ![o] = @ + 1]
      /\ meta' = [meta EXCEPT ![o] = n] /\ UNCHANGED <<rows, lost>>
      /\ warm' \subseteq warm \union {o}
  BY DEF Served, Cache, n
<1>3. [obj |-> o, id |-> n] \in Refs
  BY <1>1 DEF Refs
<1>4. Shapes'
  BY <1>1, <1>2, <1>3 DEF Inv, Shapes, Stored, preloader
<1>5. IdsApart'
  <2>1. ASSUME NEW p, NEW id, Speaks(p, id) PROVE Speaks(p, id)'
    BY <1>2, <2>1 DEF Speaks, Stored
  <2>2. ASSUME NEW u \in Clients, reading'[u] # None
        PROVE  Speaks(reading[u].obj, reading[u].id)'
    BY <1>1, <1>2, <2>1, <2>2 DEF Inv, IdsApart, Shapes
  <2>3. ASSUME NEW p \in Objects, meta'[p] # None PROVE Speaks(p, meta[p])'
    BY <1>1, <1>2, <2>1, <2>3 DEF Inv, IdsApart, Shapes
  <2> QED BY <1>2, <2>1, <2>2, <2>3 DEF Inv, IdsApart, Stored, preloader
<1>6. Counted'
  <2> SUFFICES ASSUME NEW p \in Objects, Stored(p)
               PROVE  rows[p].count + Cardinality(Pending(rows[p].id)') <= served'[p]
    BY <1>2 DEF Counted, Stored
  <2>1. /\ rows[p] \in Row /\ served[p] \in Nat
        /\ rows[p].count + Cardinality(Pending(rows[p].id)) <= served[p]
    BY DEF Inv, Counted, Shapes, Stored
  <2>2. IsFiniteSet(Pending(rows[p].id)) /\ Cardinality(Pending(rows[p].id)) \in Nat
    BY PopularityAssumption, FS_Subset, FS_CardinalityType DEF Pending
  <2>3. CASE p = o
    <3>1. \/ Pending(rows[p].id)' = Pending(rows[p].id)
          \/ Pending(rows[p].id)' = Pending(rows[p].id) \union {t}
      BY <1>2, <1>3 DEF Pending, Inv, Shapes
    <3>2. \/ Cardinality(Pending(rows[p].id) \union {t}) = Cardinality(Pending(rows[p].id))
          \/ Cardinality(Pending(rows[p].id) \union {t}) = Cardinality(Pending(rows[p].id)) + 1
      BY <2>2, FS_AddElement
    <3>3. \/ Cardinality(Pending(rows[p].id)') = Cardinality(Pending(rows[p].id))
          \/ Cardinality(Pending(rows[p].id)') = Cardinality(Pending(rows[p].id)) + 1
      BY <3>1, <3>2, Zenon
    <3>4. served'[p] = served[p] + 1
      BY <1>2, <2>3 DEF Inv, Shapes
    <3> QED BY <2>1, <2>2, <3>3, <3>4 DEF Row
  <2>4. CASE p # o
    <3>1. rows[p].id # n
      BY <1>1, <2>4 DEF Speaks
    <3>2. Pending(rows[p].id)' = Pending(rows[p].id)
      BY <1>2, <1>3, <3>1 DEF Pending, Inv, Shapes
    <3> QED BY <1>2, <2>1, <2>4, <3>2 DEF Inv, Shapes
  <2> QED BY <2>3, <2>4
<1>7. Listed'
  <2>1. \A p \in Objects : served[p] \in Nat /\ served'[p] \in Nat /\ served'[p] >= served[p]
    BY <1>2 DEF Inv, Shapes
  <2> QED BY <1>2, <2>1, PopularityAssumption DEF Inv, Listed, Stored, preloader
<1> QED BY <1>4, <1>5, <1>6, <1>7 DEF Inv, Paid, BatchWithinBudget, preloader

\* A read counts itself once, and on no row but the one it was served from.
LEMMA CountKeeps ==
    ASSUME Inv, NEW t \in Clients, CountRead(t)
    PROVE  Inv'
<1>1. /\ reading[t] # None /\ reading' = [reading EXCEPT ![t] = None]
      /\ rows' = UpdateAccess(t) \/ UNCHANGED rows
      /\ UNCHANGED <<lost, meta, warm, preloader, served, ids>>
  BY DEF CountRead, caches
<1>2. ASSUME NEW o \in Objects
      PROVE  /\ rows'[o] \in Row \union {None}
             /\ Stored(o)' <=> Stored(o)
             /\ Stored(o) =>
                  /\ rows'[o].id = rows[o].id
                  /\ \/ rows'[o].count = rows[o].count
                     \/ rows[o].id = reading[t].id /\ rows'[o].count = rows[o].count + 1
  BY <1>1, CountEffect DEF Inv, Shapes, Stored
<1>3. Shapes'
  <2>1. rows' \in [Objects -> Row \union {None}]
    BY <1>1, <1>2 DEF UpdateAccess, Inv, Shapes
  <2>2. {o \in Objects : Stored(o)'} = {o \in Objects : Stored(o)}
    BY <1>2
  <2> QED BY <1>1, <2>1, <2>2 DEF Inv, Shapes, preloader
<1>4. ASSUME NEW p, NEW id, Speaks(p, id) PROVE Speaks(p, id)'
  BY <1>1, <1>2, <1>4 DEF Speaks
<1>5. IdsApart'
  BY <1>1, <1>2, <1>4 DEF Inv, IdsApart, Shapes, preloader
<1>6. Counted'
  <2> SUFFICES ASSUME NEW o \in Objects, Stored(o)
               PROVE  rows'[o].count + Cardinality(Pending(rows[o].id)') <= served[o]
    BY <1>1, <1>2 DEF Counted, Pending
  <2>1. /\ rows[o] \in Row /\ served[o] \in Nat
        /\ rows[o].count + Cardinality(Pending(rows[o].id)) <= served[o]
    BY DEF Inv, Counted, Shapes, Stored
  <2>2. IsFiniteSet(Pending(rows[o].id)) /\ Cardinality(Pending(rows[o].id)) \in Nat
    BY PopularityAssumption, FS_Subset, FS_CardinalityType DEF Pending
  <2>3. Pending(rows[o].id)' = Pending(rows[o].id) \ {t}
    BY <1>1, <1>2 DEF Pending, Inv, Shapes
  <2>4. /\ IsFiniteSet(Pending(rows[o].id) \ {t})
        /\ Cardinality(Pending(rows[o].id) \ {t}) =
             IF t \in Pending(rows[o].id) THEN Cardinality(Pending(rows[o].id)) - 1
             ELSE Cardinality(Pending(rows[o].id))
    BY <2>2, FS_RemoveElement
  <2>5. rows[o].id = reading[t].id => t \in Pending(rows[o].id)
    BY <1>1 DEF Pending
  <2> QED BY <1>2, <2>1, <2>2, <2>3, <2>4, <2>5 DEF Row
<1>7. Listed'
  BY <1>1, <1>2 DEF Inv, Listed, preloader
<1> QED BY <1>1, <1>3, <1>5, <1>6, <1>7 DEF Inv, Paid, BatchWithinBudget, preloader

\* The part of the invariant that is about the preloader.
PreloaderOK ==
    /\ batch \in Seq(Refs) /\ Len(batch) <= BatchLimit /\ used \in Nat
    /\ step \in {"sleep", "batch", "mark"} /\ (step = "mark" => batch # <<>>)
    /\ \A i \in DOMAIN batch : batch[i].id \in 1 .. ids
    /\ Listed /\ Paid /\ BatchWithinBudget

\* A step that changes only marks, the content cache and the preloader's own state.
LEMMA PreloaderKeeps ==
    ASSUME Inv, UNCHANGED <<lost, meta, reading, served, ids>>, warm' \subseteq Objects,
           rows' \in [Objects -> Row \union {None}],
           \A o \in Objects :
             /\ Stored(o)' <=> Stored(o)
             /\ Stored(o) => rows'[o].id = rows[o].id /\ rows'[o].count = rows[o].count,
           PreloaderOK'
    PROVE  Inv'
<1>1. {o \in Objects : Stored(o)'} = {o \in Objects : Stored(o)}
  OBVIOUS
<1>2. Shapes'
  BY <1>1 DEF Inv, Shapes, PreloaderOK
<1>3. ASSUME NEW p, NEW id, Speaks(p, id) PROVE Speaks(p, id)'
  BY <1>3 DEF Speaks
<1>4. IdsApart'
  BY <1>3 DEF Inv, IdsApart, PreloaderOK
<1>5. Counted'
  BY DEF Inv, Counted, Pending
<1> QED BY <1>2, <1>4, <1>5 DEF Inv, PreloaderOK

\* A preloader that sleeps has nothing to answer for.
LEMMA SleepIsOK == ASSUME Sleep PROVE PreloaderOK'
BY PopularityAssumption DEF Sleep, PreloaderOK, Listed, Paid, BatchWithinBudget

\* The query lists the most popular rows, at most BatchLimit of them, all of them read
\* often enough.
LEMMA QueryKeeps == ASSUME Inv, Query PROVE Inv'
<1> DEFINE P == {o \in Objects : Popular(o)}
<1>1. PICK q \in ByAccess(P) :
        /\ batch' = [i \in DOMAIN Top(q) |-> [obj |-> q[i], id |-> rows[q[i]].id]]
        /\ step' = "batch" /\ got' = None /\ used' = 0
  BY DEF Query
<1>2. Cardinality(P) \in Nat
  BY PopularityAssumption, FS_Subset, FS_CardinalityType
<1>3. PICK n \in Nat : q \in [1 .. n -> P]
  BY <1>2 DEF ByAccess, SetToSeqs
<1>4. PICK m \in Nat : m <= n /\ m <= BatchLimit /\ Top(q) = SubSeq(q, 1, m)
  <2>1. q \in Seq(P) /\ Len(q) = n
    BY <1>3
  <2> QED BY <2>1, PopularityAssumption DEF Top
<1>5. DOMAIN Top(q) = 1 .. m
  BY <1>3, <1>4
<1>6. ASSUME NEW i \in 1 .. m
      PROVE  /\ q[i] \in Objects /\ Popular(q[i]) /\ rows[q[i]] \in Row
             /\ [obj |-> q[i], id |-> rows[q[i]].id] \in Refs
             /\ rows[q[i]].id \in 1 .. ids
  <2>1. q[i] \in P
    BY <1>3, <1>4
  <2>2. q[i] \in Objects /\ Popular(q[i]) /\ Stored(q[i])
    BY <2>1 DEF Popular
  <2>3. rows[q[i]] \in Row /\ rows[q[i]].id \in 1 .. ids
    BY <2>2 DEF Inv, Shapes, Stored, IdsApart, Speaks
  <2> QED BY <2>2, <2>3 DEF Refs, Row
<1>7. batch' = [i \in 1 .. m |-> [obj |-> q[i], id |-> rows[q[i]].id]]
  BY <1>1, <1>5
<1>8. batch' \in [1 .. m -> Refs]
  BY <1>6, <1>7
<1>9. batch' \in Seq(Refs) /\ Len(batch') = m /\ DOMAIN batch' = 1 .. m
  BY <1>8
<1>10. Listed'
  <2> SUFFICES ASSUME NEW i \in 1 .. m, NEW o \in Objects, Stored(o),
                      rows[o].id = rows[q[i]].id
               PROVE  served[o] >= MinAccess
    BY <1>7, <1>9 DEF Query, Listed, Stored
  <2>1. o = q[i]
    BY <1>6 DEF Inv, IdsApart, Speaks, Popular
  <2>2. /\ rows[o].count \in Nat /\ rows[o].count >= MinAccess /\ served[o] \in Nat
        /\ rows[o].count + Cardinality(Pending(rows[o].id)) <= served[o]
    BY <1>6, <2>1 DEF Inv, Counted, Popular, Row, Shapes
  <2>3. Cardinality(Pending(rows[o].id)) \in Nat
    BY PopularityAssumption, FS_Subset, FS_CardinalityType DEF Pending
  <2> QED BY <2>2, <2>3, PopularityAssumption
<1>11. PreloaderOK'
  BY <1>1, <1>4, <1>6, <1>7, <1>9, <1>10 DEF PreloaderOK, Paid, BatchWithinBudget, Query, bounds
<1> QED BY <1>11, PreloaderKeeps DEF Query, caches, bounds, Inv, Shapes, Stored

\* A file is read while there is budget left; what is read has a file's size.
LEMMA CacheFileKeeps == ASSUME Inv, CacheFile PROVE Inv'
<1>1. /\ step = "batch" /\ batch # <<>> /\ used < Budget /\ step' = "mark"
      /\ UNCHANGED <<rows, lost, meta, reading, batch, used, served, ids>>
  BY DEF CacheFile, WithinBudget
<1>2. Head(batch) \in Refs
  BY <1>1 DEF Inv, Shapes
<1>3. /\ warm' \subseteq Objects
      /\ got' # None => got' \in Sizes
  BY <1>2 DEF CacheFile, Cache, Inv, Shapes, Stored, Row, Refs
<1>4. PreloaderOK'
  BY <1>1, <1>3 DEF PreloaderOK, Inv, Shapes, IdsApart, Listed, Paid, BatchWithinBudget, Stored
<1> QED BY <1>1, <1>3, <1>4, PreloaderKeeps DEF Inv, Shapes, Stored

\* The marks change no counter, and the file just read is the only one that may exceed
\* the budget.
LEMMA MarkKeeps == ASSUME Inv, Mark PROVE Inv'
<1>1. /\ step = "mark" /\ batch # <<>> /\ batch \in Seq(Refs) /\ Len(batch) <= BatchLimit
      /\ UNCHANGED <<lost, meta, warm, reading, served, ids>>
  BY DEF Mark, caches, Inv, Shapes
<1>2. CASE rows' = UpdateCacheStatus /\ GoOn
  <2>1. /\ rows' = [o \in Objects |-> rows'[o]]
        /\ \A o \in Objects :
             /\ rows'[o] \in Row \union {None}
             /\ Stored(o)' <=> Stored(o)
             /\ Stored(o) => rows'[o].id = rows[o].id /\ rows'[o].count = rows[o].count
    BY <1>2, MarkEffect DEF UpdateCacheStatus, Inv
  <2>2. /\ batch' = Tail(batch) /\ step' = "batch" /\ got' = None
        /\ used' = IF got = None THEN used ELSE used + got
    BY <1>2 DEF GoOn
  <2>3. /\ Tail(batch) \in Seq(Refs) /\ Len(Tail(batch)) <= BatchLimit
        /\ \A i \in DOMAIN Tail(batch) : i + 1 \in DOMAIN batch /\ Tail(batch)[i] = batch[i + 1]
    BY <1>1, PopularityAssumption
  <2>4. Listed'
    BY <1>1, <2>1, <2>2, <2>3 DEF Inv, Listed
  <2>5. used' \in Nat /\ BatchWithinBudget'
    <3>1. used \in Nat /\ used < Budget /\ (got # None => got \in Sizes /\ got \in Nat)
      BY <1>1, PopularityAssumption DEF Inv, Shapes, Paid
    <3>2. CASE got = None
      BY <2>2, <3>1, <3>2 DEF Inv, BatchWithinBudget
    <3>3. CASE got # None
      <4>1. used' \in Nat /\ used' = used + got /\ used' < Budget + got
        BY <2>2, <3>1, <3>3, PopularityAssumption
      <4> QED BY <3>1, <3>3, <4>1 DEF BatchWithinBudget
    <3> QED BY <3>2, <3>3
  <2>6. PreloaderOK'
    BY <1>1, <2>2, <2>3, <2>4, <2>5 DEF PreloaderOK, Paid, Inv, IdsApart
  <2>7. rows' \in [Objects -> Row \union {None}] /\ warm' \subseteq Objects
    BY <1>1, <2>1 DEF Inv, Shapes
  <2> QED BY <1>1, <2>1, <2>6, <2>7, PreloaderKeeps
<1>3. CASE Sleep /\ UNCHANGED rows
  BY <1>1, <1>3, SleepIsOK, PreloaderKeeps DEF Inv, Shapes, Stored
<1> QED BY <1>2, <1>3 DEF Mark

\* Every step keeps the invariant.
LEMMA InvKept == ASSUME Inv, [Next]_vars PROVE Inv'
<1>1. ASSUME NEW t \in Clients, Read(t) PROVE Inv'
  <2>1. PICK o \in Objects :
          /\ Stored(o) /\ reading[t] = None /\ UNCHANGED <<preloader, ids>>
          /\ \/ Served(t, o, IF meta[o] # None THEN meta[o] ELSE rows[o].id)
             \/ RemoveObject(o) /\ UNCHANGED <<reading, served>>
    BY <1>1 DEF Read
  <2> QED BY <2>1, ServedKeeps, RemoveKeeps
<1>2. CASE Delete
  BY <1>2, RemoveKeeps DEF Delete, bounds
<1>3. CASE BatchDone
  BY <1>3, SleepIsOK, PreloaderKeeps DEF BatchDone, caches, bounds, Inv, Shapes, Stored
<1>4. CASE Evict
  <2>1. /\ UNCHANGED <<rows, lost, reading, preloader, served, ids>>
        /\ \A o \in Objects : meta'[o] = meta[o] \/ meta'[o] = None
        /\ meta' \in [Objects -> Nat \union {None}] /\ warm' \subseteq Objects
    BY <1>4 DEF Evict, bounds, Inv, Shapes
  <2>2. Shapes'
    BY <2>1 DEF Inv, Shapes, Stored, preloader
  <2>3. IdsApart'
    BY <2>1 DEF Inv, IdsApart, Speaks, Stored, preloader
  <2> QED BY <2>1, <2>2, <2>3 DEF Inv, Counted, Pending, Listed, Stored, Paid,
             BatchWithinBudget, preloader
<1>5. CASE LoseFile \/ UNCHANGED vars
  <2>1. UNCHANGED <<rows, meta, warm, reading, preloader, served, ids>>
        /\ lost' \subseteq {o \in Objects : Stored(o)}
    BY <1>5 DEF LoseFile, vars, caches, bounds, Inv, Shapes
  <2>2. Shapes'
    BY <2>1 DEF Inv, Shapes, Stored, preloader
  <2> QED BY <2>1, <2>2 DEF Inv, IdsApart, Speaks, Counted, Pending, Listed, Stored, Paid,
             BatchWithinBudget, preloader
<1>6. CASE Restart
  <2>1. /\ UNCHANGED <<rows, lost, served, ids>> /\ Sleep
        /\ meta' = [o \in Objects |-> None] /\ warm' = {}
        /\ reading' = [t \in Clients |-> None]
    BY <1>6 DEF Restart
  <2>2. PreloaderOK'
    BY <2>1, SleepIsOK
  <2>3. Shapes' /\ IdsApart'
    BY <2>1, <2>2 DEF Inv, Shapes, IdsApart, Speaks, Stored, PreloaderOK
  <2>4. Counted'
    <3>1. \A id : Pending(id)' = {}
      BY <2>1 DEF Pending
    <3>2. \A id : Cardinality(Pending(id)) \in Nat
      BY PopularityAssumption, FS_Subset, FS_CardinalityType DEF Pending
    <3>3. \A o \in Objects : Stored(o) => rows[o].count \in Nat /\ served[o] \in Nat
      BY DEF Inv, Shapes, Stored, Row
    <3>4. \A o \in Objects : Stored(o) => rows[o].count + 0 <= served[o]
      BY <3>2, <3>3 DEF Inv, Counted
    <3>5. \A id : Cardinality(Pending(id)') = 0
      BY <3>1, FS_EmptySet
    <3> QED BY <2>1, <3>4, <3>5 DEF Counted, Stored
  <2> QED BY <2>2, <2>3, <2>4 DEF Inv, PreloaderOK
<1> QED BY <1>1, <1>2, <1>3, <1>4, <1>5, <1>6, UploadKeeps, CountKeeps, QueryKeeps,
       CacheFileKeeps, MarkKeeps DEF Next, Preload

-----------------------------------------------------------------------------
(* The theorems.                                                           *)

\* The invariant holds at the start and always.
LEMMA InvAlways == FairSpec => []Inv
<1>1. Init => Inv
  BY PopularityAssumption DEF Init, Inv, Shapes, IdsApart, Counted, Listed, Paid, Stored,
     BatchWithinBudget
<1>2. Inv /\ [Next]_vars => Inv'
  BY InvKept
<1> QED BY <1>1, <1>2, PTL DEF FairSpec

\* The rows, the cached ids and the preloader's list have the shapes the queries rely
\* on, and no two rows ever share an id: save_file gives each new row its own, and
\* an overwrite keeps the row's.
THEOREM IdsAreUnique == FairSpec => []TypeOK
<1>1. Inv => TypeOK
  <2> SUFFICES ASSUME Inv PROVE TypeOK
    OBVIOUS
  <2>1. \A o \in Objects : Stored(o) =>
          /\ rows[o].id \in 1 .. ids /\ rows[o].size \in Sizes
          /\ \A p \in Objects \ {o} : Stored(p) => rows[p].id # rows[o].id
    BY DEF Inv, Shapes, Stored, Row, IdsApart, Speaks
  <2>2. meta \in [Objects -> 1 .. ids \union {None}]
    BY DEF Inv, Shapes, IdsApart, Speaks
  <2> QED BY <2>1, <2>2 DEF TypeOK, Inv, Shapes
<1> QED BY <1>1, InvAlways, PTL

\* access_count never exceeds the reads of the object since its row was created: a read
\* that counts itself late, by id, is credited to its own row or to none.
THEOREM CountsAreHonest == FairSpec => []CountsAreReads
<1>1. Inv => CountsAreReads
  <2> SUFFICES ASSUME Inv, NEW o \in Objects, Stored(o) PROVE rows[o].count <= served[o]
    BY DEF CountsAreReads
  <2>1. Cardinality(Pending(rows[o].id)) \in Nat
    BY PopularityAssumption, FS_Subset, FS_CardinalityType DEF Pending
  <2> QED BY <2>1 DEF Inv, Counted, Shapes, Stored, Row
<1> QED BY <1>1, InvAlways, PTL

\* A batch exceeds its budget by less than the length of one file, whatever lengths the
\* files have by the time they are read.
THEOREM BudgetHolds == FairSpec => []BatchWithinBudget
<1>1. Inv => BatchWithinBudget
  BY DEF Inv
<1> QED BY <1>1, InvAlways, PTL

\* A step that marks a row 'cached' marks one that has been read MinAccess times,
\* however old the list is it works from.
THEOREM OnlyPopularIsMarked == FairSpec => MarksArePopular
<1> DEFINE Marks == \A o \in Objects :
                      /\ Stored(o) /\ rows'[o] # None /\ rows'[o].id = rows[o].id
                      /\ ~rows[o].cached /\ rows'[o].cached
                      => served[o] >= MinAccess
<1>1. Inv /\ [Next]_vars => [Marks]_vars
  <2> SUFFICES ASSUME Inv, Next, NEW o \in Objects, Stored(o), rows'[o] # None,
                      ~rows[o].cached, rows'[o].cached
               PROVE  served[o] >= MinAccess
    OBVIOUS
  <2>1. CASE Mark /\ rows' # rows
    <3>1. rows' = UpdateCacheStatus /\ step = "mark"
      BY <2>1 DEF Mark
    <3>2. rows[o].id = Head(batch).id
      BY <3>1, MarkEffect DEF Inv
    <3>3. 1 \in DOMAIN batch /\ Head(batch) = batch[1]
      BY <3>1 DEF Inv, Shapes
    <3> QED BY <3>2, <3>3 DEF Inv, Listed
  <2>2. CASE Upload
    <3>1. PICK p \in Objects, size \in Sizes :
            ids' = ids + 1 /\ rows' = [rows EXCEPT ![p] = SaveFile(p, ids', size)]
      BY <2>2 DEF Upload
    <3>2. ids' \in Nat
      BY <3>1 DEF Inv, Shapes
    <3>3. rows'[o].cached = rows[o].cached
      BY <3>1, <3>2, SaveEffect DEF Inv, Shapes
    <3> QED BY <3>3
  <2>3. ASSUME NEW t \in Clients, Read(t) \/ CountRead(t) PROVE FALSE
    <3>1. CASE CountRead(t)
      BY <3>1, CountEffect DEF CountRead, Inv
    <3>2. CASE Read(t)
      BY <3>2 DEF Read, Served, RemoveObject, Inv, Shapes
    <3> QED BY <2>3, <3>1, <3>2
  <2>4. CASE Delete
    BY <2>4 DEF Delete, RemoveObject, Inv, Shapes
  <2>5. CASE rows' = rows
    BY <2>5
  <2> QED BY <2>1, <2>2, <2>3, <2>4, <2>5 DEF Next, Preload, Query, CacheFile, BatchDone,
             Evict, LoseFile, Restart
<1> QED BY <1>1, InvAlways, PTL DEF FairSpec, MarksArePopular

=============================================================================
