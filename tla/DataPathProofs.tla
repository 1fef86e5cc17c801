--------------------------- MODULE DataPathProofs ---------------------------
(***************************************************************************)
(* The bytes of an object, for any uploads, readers, keys and restarts:    *)
(* the arithmetic of Range headers, that every row stays decodable, type   *)
(* correctness, and that requests nobody disturbs are answered exactly.    *)
(*                                                                         *)
(* Decodable speaks of what decode_content computes.  The inductive        *)
(* invariant speaks of the data instead: a row and its bytes Match, and so *)
(* do the row an upload is about to save and the file it wrote, as long as *)
(* nobody wrote the path after it.  A matching pair decodes, whatever the  *)
(* configuration, the cipher and the keys have become.                     *)
(***************************************************************************)
EXTENDS DataPath, TLAPS

-----------------------------------------------------------------------------
(* Range headers *)

\* parse_range_header is exact for every header and every length: it finds no
\* range exactly if RFC 7233 selects no byte, and otherwise the range whose
\* bytes are those selected, inside the content (so that slicing the decoded
\* content cannot be out of bounds).
THEOREM RangeArithmetic ==
    ASSUME NEW h \in HeaderRecords, NEW n \in Nat
    PROVE  LET s == parse_range_header(h, n) IN
           /\ s = None <=> Selected(h, n) = {}
           /\ s # None => /\ s \in Spans /\ s.start <= s.end /\ s.end < n
                          /\ Selected(h, n) = s.start .. s.end
<1> DEFINE s == parse_range_header(h, n)
<1> USE DEF HeaderRecords, Spans, Pred, Least
<1>1. \A r \in Spans : r # None
  BY DistinctAssumption
<1>2. CASE h.form = "suffix"
  <2>1. s = SuffixRange(h.last, n)
    BY <1>2 DEF parse_range_header
  <2>2. Selected(h, n) = {i \in 0 .. Pred(n) : i < n /\ n <= i + h.last}
    BY <1>2 DEF Selected
  <2>3. CASE h.last = 0 \/ n = 0
    BY <2>1, <2>2, <2>3 DEF SuffixRange
  <2>4. CASE ~(h.last = 0 \/ n = 0)
    <3>1. s = [start |-> IF n <= h.last THEN 0 ELSE n - h.last, end |-> n - 1]
      BY <2>1, <2>4 DEF SuffixRange
    <3>2. s \in Spans /\ s.start <= s.end /\ s.end < n
      BY <3>1, <2>4
    <3>3. Selected(h, n) = s.start .. s.end
      BY <3>1, <2>2, <2>4
    <3>4. s.end \in Selected(h, n)
      BY <3>2, <3>3
    <3> QED BY <1>1, <3>2, <3>3, <3>4
  <2> QED BY <2>3, <2>4
<1>3. ASSUME NEW last \in Nat, h.form \in {"from", "span"},
             s = BoundedRange(h.first, last, n),
             Selected(h, n) = {i \in 0 .. Pred(n) : i < n /\ h.first <= i /\ i <= last}
      PROVE  /\ s = None <=> Selected(h, n) = {}
             /\ s # None => /\ s \in Spans /\ s.start <= s.end /\ s.end < n
                            /\ Selected(h, n) = s.start .. s.end
  <2>1. CASE h.first > last \/ h.first >= n
    BY <2>1, <1>3 DEF BoundedRange
  <2>2. CASE ~(h.first > last \/ h.first >= n)
    <3>1. s = [start |-> h.first, end |-> IF last <= n - 1 THEN last ELSE n - 1]
      BY <1>3, <2>2 DEF BoundedRange
    <3>2. s \in Spans /\ s.start <= s.end /\ s.end < n
      BY <3>1, <2>2
    <3>3. Selected(h, n) = s.start .. s.end
      BY <3>1, <1>3, <2>2
    <3>4. s.end \in Selected(h, n)
      BY <3>2, <3>3
    <3> QED BY <1>1, <3>2, <3>3, <3>4
  <2> QED BY <2>1, <2>2
<1>4. CASE h.form = "from"
  <2>1. s = BoundedRange(h.first, Pred(n), n)
    BY <1>4 DEF parse_range_header
  <2>2. Selected(h, n) = {i \in 0 .. Pred(n) : i < n /\ h.first <= i /\ i <= Pred(n)}
    BY <1>4 DEF Selected
  <2>3. Pred(n) \in Nat
    OBVIOUS
  <2> QED BY <1>3, <1>4, <2>1, <2>2, <2>3
<1>5. CASE h.form = "span"
  <2>1. s = BoundedRange(h.first, h.last, n)
    BY <1>5 DEF parse_range_header
  <2>2. Selected(h, n) = {i \in 0 .. Pred(n) : i < n /\ h.first <= i /\ i <= h.last}
    BY <1>5 DEF Selected
  <2> QED BY <1>3, <1>5, <2>1, <2>2
<1>6. CASE h.form \notin {"suffix", "from", "span"}
  BY <1>6 DEF parse_range_header, Selected
<1> QED BY <1>2, <1>4, <1>5, <1>6

-----------------------------------------------------------------------------
(* Decoding *)

\* Every configuration the service is started with over the same store leaves
\* compression on, and encryption on or off alike.
SettledConfigs ==
    /\ \A c \in Configs : c.compression
    /\ \A c, d \in Configs : c.crypto = d.crypto

\* b is what store_file makes of the content of f with the settings f records.
Matches(f, b, crypto) ==
    /\ b # None /\ b.of = f.of /\ f.size = Length(b)
    /\ f.is_compressed <=> b.zip # "none"
    /\ IF ~f.is_encrypted THEN b.seal = None
       ELSE IF f.key # None THEN b.seal = Seal(f.algorithm, <<"registered", f.key>>)
       ELSE IF crypto THEN b.seal # None /\ b.seal.algorithm = f.algorithm
       ELSE b.seal = None

\* The part of TypeOK the argument needs.
StoreType ==
    /\ config \in Configs
    /\ cipher \in Seals \union {None}
    /\ config.crypto => cipher # None /\ cipher.algorithm = config.algorithm
    /\ restarts \in Nat
    /\ keys \in [KeyIds -> {"absent", "active", "inactive"}]
    /\ rows \in [Objects -> Rows \union {None}]
    /\ disk \in [Objects -> Bodies \union {None}]
    /\ meta \in [Objects -> Rows \union {None}]
    /\ req \in [Tasks -> Requests]
    /\ row \in [Tasks -> Rows \union {None}]
    /\ DOMAIN pc = Tasks
    /\ owner \in [Objects -> Uploaders \union {None}]
    /\ spoilt \subseteq Objects

\* An upload in progress: it has a request, and the row it will save matches the
\* file unless somebody else has written the path since.
Uploading(u) ==
    /\ pc[u] # "idle" => req[u].obj \in Objects /\ req[u].of \in Contents
                          /\ req[u].opts \in Options
    /\ pc[u] \in {"save", "warm"} => row[u] \in Rows /\ row[u].path = req[u].obj
    /\ pc[u] = "save" /\ owner[req[u].obj] = u =>
         Matches(row[u], disk[req[u].obj], config.crypto)

\* The same for a read.
Reading(r) == pc[r] # "idle" => req[r].obj \in Objects

RowsMatch ==
    \A o \in Objects \ spoilt :
        rows[o] # None => Matches(rows[o], disk[rows[o].path], config.crypto)

Inv ==
    /\ StoreType
    /\ RowsMatch
    /\ \A u \in Uploaders : Uploading(u)
    /\ \A r \in Readers : Reading(r)

\* A matching pair decodes to the content, or to nothing without its key.
LEMMA MatchesDecodes ==
    ASSUME SettledConfigs, StoreType,
           NEW f \in Rows, NEW b \in Bodies, Matches(f, b, config.crypto)
    PROVE  decode_content(f, b) = IF KeyAvailable(f, b) THEN {Plain(f.of)} ELSE {None}
<1> DEFINE inner == [b EXCEPT !.seal = None]
<1>1. config.compression
  BY DEF SettledConfigs, StoreType
<1>2. inner \in Bodies /\ inner.seal = None /\ inner.of = f.of /\ inner.zip = b.zip
  BY DEF Matches, Bodies
<1>3. inner # None
  BY <1>2, DistinctAssumption
<1>4. b.seal = None => inner = b
  BY DEF Bodies
<1>5. f.is_compressed => decompress(inner) = {Plain(f.of)}
  <2>1. f.is_compressed => inner.zip # "none"
    BY <1>2 DEF Matches
  <2>2. f.is_compressed => Length(inner) # 0
    BY <1>2, <2>1, SizeAssumption DEF Length, Bodies
  <2> QED BY <1>1, <1>2, <2>1, <2>2 DEF decompress
<1>6. ~f.is_compressed => inner = Plain(f.of)
  BY <1>2 DEF Matches, Bodies, Plain
<1> DEFINE opened == IF ~f.is_encrypted THEN b
                     ELSE IF f.key = None THEN decrypt(b, f.algorithm)
                     ELSE IF get_key(f.key) THEN decrypt_with_key(b, f.algorithm, f.key)
                     ELSE None
<1>7. opened = IF KeyAvailable(f, b) THEN inner ELSE None
  <2>1. CASE ~f.is_encrypted
    BY <2>1, <1>4 DEF Matches, KeyAvailable
  <2>2. CASE f.is_encrypted /\ f.key # None
    BY <2>2 DEF Matches, KeyAvailable, decrypt_with_key, Open
  <2>3. CASE f.is_encrypted /\ f.key = None /\ ~config.crypto
    BY <2>3, <1>4 DEF Matches, KeyAvailable, decrypt
  <2>4. CASE f.is_encrypted /\ f.key = None /\ config.crypto
    <3>1. b.seal # None /\ b.seal.algorithm = f.algorithm
      BY <2>4 DEF Matches
    <3>2. b.seal = cipher => cipher.algorithm = f.algorithm
      BY <3>1
    <3>3. KeyAvailable(f, b) <=> b.seal = cipher
      BY <2>4, <3>1 DEF KeyAvailable
    <3>4. opened = IF cipher.algorithm # f.algorithm THEN None ELSE Open(b, cipher)
      BY <2>4 DEF decrypt
    <3> QED BY <3>2, <3>3, <3>4 DEF Open
  <2>5. f.is_encrypted \in BOOLEAN /\ config.crypto \in BOOLEAN
    BY RequestAssumption DEF Rows, StoreType, ConfigRecords
  <2> QED BY <2>1, <2>2, <2>3, <2>4, <2>5
<1>8. decode_content(f, b) = IF opened # None /\ f.is_compressed THEN decompress(opened)
                             ELSE {opened}
  BY DEF decode_content
<1> QED BY <1>3, <1>5, <1>6, <1>7, <1>8

\* Stored bytes have a length.
LEMMA LengthType ==
    ASSUME NEW b \in Bodies
    PROVE  /\ Length(b) \in Nat /\ (b.zip # "none" => Length(b) # 0)
           /\ b.zip = "none" /\ b.seal = None => Length(b) = Size[b.of] /\ b = Plain(b.of)
BY SizeAssumption DEF Length, Bodies, SealOverhead, Plain

\* What store_file writes is a body of the uploaded content, and its row says where.
LEMMA EncodeType ==
    ASSUME config \in Configs, cipher \in Seals \union {None}, NEW u \in Uploaders,
           req[u].obj \in Objects, req[u].of \in Contents, req[u].opts \in Options
    PROVE  LET b == Encode(req[u].of, req[u].opts) IN
           /\ b \in Bodies /\ b.of = req[u].of /\ NewRow(u, b) \in Rows
           /\ NewRow(u, b).path = req[u].obj /\ NewRow(u, b).of = req[u].of
           /\ NewRow(u, b).size = Length(b)
           /\ LET o == req[u].opts IN
              IF ~Encrypts(o) THEN b.seal = None
              ELSE IF o.key # None THEN b.seal = Seal(config.algorithm, <<"registered", o.key>>)
              ELSE IF config.crypto THEN b.seal = cipher
              ELSE b.seal = None
<1> DEFINE c == req[u].of  o == req[u].opts
           z == compress(c, o)  b == Encode(c, o)  f == NewRow(u, b)
<1>1. o \in OptionRecords /\ config \in ConfigRecords
  BY RequestAssumption
<1>2. o.key \in KeyIds \union {None} /\ config.algorithm \in CryptoAlgorithms
  BY <1>1 DEF OptionRecords, ConfigRecords
<1>3. z \in Bodies /\ z.of = c /\ z.seal = None
  BY DEF compress, Compresses, Plain, Bodies
<1>4. \A k \in KeyIds : Seal(config.algorithm, <<"registered", k>>) \in Seals
  BY <1>2 DEF Seal, Seals, SealKeys
<1>5. \A s \in Seals \union {None} :
        LET x == [z EXCEPT !.seal = s] IN
        x \in Bodies /\ x.of = c /\ x.zip = z.zip /\ x.seal = s
  BY <1>3 DEF Bodies
<1>6. b \in Bodies /\ b.of = c
  BY <1>2, <1>3, <1>4, <1>5 DEF Encode, encrypt_with_key, encrypt
<1>7. Length(b) \in Nat
  BY <1>6, LengthType
<1>8. f = [path |-> req[u].obj, of |-> c, size |-> Length(b),
           is_compressed |-> b.zip # "none", is_encrypted |-> Encrypts(o),
           algorithm |-> IF Encrypts(o) THEN config.algorithm ELSE None, key |-> o.key]
  BY DEF NewRow
<1>9. Encrypts(o) \in BOOLEAN
  BY DEF Encrypts, Chosen
<1>10. f \in Rows /\ f.path = req[u].obj /\ f.of = c /\ f.size = Length(b)
  BY <1>2, <1>7, <1>8, <1>9 DEF Rows
<1>11. IF ~Encrypts(o) THEN b.seal = None
       ELSE IF o.key # None THEN b.seal = Seal(config.algorithm, <<"registered", o.key>>)
       ELSE IF config.crypto THEN b.seal = cipher
       ELSE b.seal = None
  BY <1>2, <1>3, <1>4, <1>5 DEF Encode, encrypt_with_key, encrypt
<1> QED BY <1>6, <1>10, <1>11

\* What store_file writes matches the row it makes.
LEMMA EncodeMatches ==
    ASSUME StoreType, NEW u \in Uploaders, Uploading(u), pc[u] = "write"
    PROVE  LET b == Encode(req[u].of, req[u].opts) IN
           b \in Bodies /\ NewRow(u, b) \in Rows /\ NewRow(u, b).path = req[u].obj
           /\ Matches(NewRow(u, b), b, config.crypto)
<1> DEFINE c == req[u].of  o == req[u].opts
           b == Encode(c, o)  f == NewRow(u, b)
<1>1. c \in Contents /\ o \in Options /\ req[u].obj \in Objects
  BY DEF Uploading
<1>2. /\ b \in Bodies /\ b.of = c /\ f \in Rows /\ f.path = req[u].obj /\ f.size = Length(b)
      /\ IF ~Encrypts(o) THEN b.seal = None
         ELSE IF o.key # None THEN b.seal = Seal(config.algorithm, <<"registered", o.key>>)
         ELSE IF config.crypto THEN b.seal = cipher
         ELSE b.seal = None
  BY <1>1, EncodeType DEF StoreType
<1>3. Encrypts(o) \in BOOLEAN
  BY DEF Encrypts, Chosen
<1>4. b # None
  BY <1>2, DistinctAssumption
<1>5. config.crypto => cipher # None /\ cipher.algorithm = config.algorithm
  BY DEF StoreType
<1>6. /\ f.of = c /\ f.key = o.key
      /\ f.is_compressed = (b.zip # "none")
      /\ f.is_encrypted = Encrypts(o)
      /\ Encrypts(o) => f.algorithm = config.algorithm
  BY DEF NewRow
<1> HIDE DEF c, o, b, f
<1>7. Matches(f, b, config.crypto)
  BY <1>2, <1>3, <1>4, <1>5, <1>6 DEF Matches
<1> QED BY <1>2, <1>7 DEF c, o, b, f

-----------------------------------------------------------------------------
(* The steps *)

\* A step of task t changes the locals of t only, and not the process.
Frame(t) ==
    /\ UNCHANGED <<config, cipher, restarts, keys>>
    /\ DOMAIN pc' = Tasks
    /\ req' \in [Tasks -> Requests] /\ row' \in [Tasks -> Rows \union {None}]
    /\ \A x \in Tasks \ {t} : pc'[x] = pc[x] /\ req'[x] = req[x] /\ row'[x] = row[x]

\* The control part of Reply.
Idles(t) ==
    /\ pc' = [pc EXCEPT ![t] = "idle"]
    /\ req' = [req EXCEPT ![t] = NoRequest]
    /\ row' = [row EXCEPT ![t] = None]

\* A task that answers and goes idle touches nothing of another task.
LEMMA IdlesFrame ==
    ASSUME StoreType, NEW t \in Tasks, Idles(t), UNCHANGED <<config, cipher, restarts, keys>>
    PROVE  Frame(t) /\ pc'[t] = "idle"
<1>1. NoRequest \in Requests
  BY DEF NoRequest, Requests
<1> QED BY <1>1 DEF Frame, Idles, StoreType

\* Nor does one that goes on to its next step with another row, or the same.
LEMMA ContinueFrame ==
    ASSUME StoreType, NEW t \in Tasks, NEW next, Continue(t, next),
           UNCHANGED <<config, cipher, restarts, keys>>,
           \/ UNCHANGED row
           \/ \E f \in Rows : row' = [row EXCEPT ![t] = f]
    PROVE  Frame(t) /\ pc'[t] = next /\ req'[t] = req[t]
BY DEF Frame, Continue, StoreType

\* A request that arrives changes its task and no store.
LEMMA AcceptFrame ==
    ASSUME StoreType, NEW t \in Tasks, NEW r \in Requests, NEW next, NEW fresh,
           Accept(t, r, next, fresh)
    PROVE  /\ Frame(t) /\ pc'[t] = next /\ req'[t] = r
           /\ UNCHANGED <<rows, disk, meta, owner, spoilt>>
BY DEF Frame, Accept, StoreType, process, store, cache, locals

\* The rows a lookup may find are rows.
LEMMA FoundType ==
    ASSUME StoreType, NEW r \in Readers, Reading(r), pc[r] # "idle",
           NEW f \in Found(req[r].obj), SetMeta(req[r].obj, f)
    PROVE  /\ f \in Rows \union {None}
           /\ meta' \in [Objects -> Rows \union {None}]
BY DEF Found, SetMeta, StoreType, Reading

\* A reader changes no store but the cache, except that it deletes an object whose file it missed.
LEMMA ReadFrame ==
    ASSUME Inv, NEW r \in Readers, Read(r)
    PROVE  /\ Frame(r) /\ Reading(r)'
           /\ meta' \in [Objects -> Rows \union {None}]
           /\ \/ UNCHANGED <<rows, disk, owner, spoilt>>
              \/ \E o \in Objects : delete_file(o)
<1> USE DEF process, store, cache, locals, ghosts
<1>0. StoreType /\ Reading(r) /\ r \in Tasks
  BY DEF Inv, Tasks
<1>a. ASSUME Idles(r), UNCHANGED <<config, cipher, restarts, keys>>
      PROVE  Frame(r) /\ Reading(r)'
  BY <1>0, <1>a, IdlesFrame DEF Reading
<1>b. ASSUME NEW next, Continue(r, next), pc[r] # "idle", UNCHANGED <<config, cipher, restarts, keys>>,
             \/ UNCHANGED row
             \/ \E f \in Rows : row' = [row EXCEPT ![r] = f]
      PROVE  Frame(r) /\ Reading(r)'
  BY <1>0, <1>b, ContinueFrame DEF Reading
<1>c. UNCHANGED meta => meta' \in [Objects -> Rows \union {None}]
  BY <1>0 DEF StoreType
<1>1. CASE StartRead(r)
  <2>1. PICK o \in Objects, h \in Headers \union {None} :
          Accept(r, [NoRequest EXCEPT !.obj = o, !.range = h],
                 IF h = None THEN "row" ELSE "info", o \notin spoilt)
    BY <1>1 DEF StartRead
  <2> DEFINE q == [NoRequest EXCEPT !.obj = o, !.range = h]
  <2>2. q \in Requests /\ q.obj = o
    BY DEF NoRequest, Requests
  <2>3. Frame(r) /\ req'[r] = q /\ UNCHANGED <<rows, disk, meta, owner, spoilt>>
    BY <1>0, <2>1, <2>2, AcceptFrame
  <2> QED BY <1>c, <2>2, <2>3 DEF Reading
<1>2. CASE RangeInfo(r)
  <2>1. UNCHANGED <<config, cipher, restarts, keys, rows, disk, meta, owner, spoilt>>
        /\ pc[r] = "info"
    BY <1>2 DEF RangeInfo
  <2>2. \/ Continue(r, "row") /\ UNCHANGED row
        \/ Continue(r, "plain") /\ UNCHANGED row
        \/ Idles(r)
    BY <1>2 DEF RangeInfo, Answer, Reply, Idles
  <2> QED BY <1>a, <1>b, <1>c, <2>1, <2>2
<1>3. CASE PlainRow(r)
  <2>1. PICK f \in Found(req[r].obj) :
          /\ SetMeta(req[r].obj, f)
          /\ \/ Continue(r, "zip") /\ UNCHANGED row
             \/ Continue(r, "seek") /\ f # None /\ row' = [row EXCEPT ![r] = f]
    BY <1>3 DEF PlainRow, FastRow, TakeRow
  <2>2. UNCHANGED <<config, cipher, restarts, keys, rows, disk, owner, spoilt>>
        /\ pc[r] = "plain"
    BY <1>3 DEF PlainRow, FastRow
  <2>3. f \in Rows \union {None} /\ meta' \in [Objects -> Rows \union {None}]
    BY <1>0, <2>1, <2>2, FoundType
  <2> QED BY <1>b, <2>1, <2>2, <2>3
<1>4. CASE PlainRead(r)
  <2>1. UNCHANGED <<config, cipher, restarts, keys, rows, disk, meta, owner, spoilt>>
        /\ pc[r] = "seek"
    BY <1>4 DEF PlainRead
  <2>2. Idles(r) \/ (Continue(r, "zip") /\ UNCHANGED row)
    BY <1>4 DEF PlainRead, Answer, Reply, Idles
  <2> QED BY <1>a, <1>b, <1>c, <2>1, <2>2
<1>5. CASE ZipRow(r)
  <2>1. PICK f \in Found(req[r].obj) :
          /\ SetMeta(req[r].obj, f)
          /\ \/ Continue(r, "row") /\ UNCHANGED row
             \/ Continue(r, "inflate") /\ f # None /\ row' = [row EXCEPT ![r] = f]
    BY <1>5 DEF ZipRow, FastRow, TakeRow
  <2>2. UNCHANGED <<config, cipher, restarts, keys, rows, disk, owner, spoilt>>
        /\ pc[r] = "zip"
    BY <1>5 DEF ZipRow, FastRow
  <2>3. f \in Rows \union {None} /\ meta' \in [Objects -> Rows \union {None}]
    BY <1>0, <2>1, <2>2, FoundType
  <2> QED BY <1>b, <2>1, <2>2, <2>3
<1>6. CASE ZipRead(r)
  <2>1. UNCHANGED <<config, cipher, restarts, keys, rows, disk, meta, owner, spoilt>>
        /\ pc[r] = "inflate"
    BY <1>6 DEF ZipRead
  <2>2. Idles(r) \/ (Continue(r, "row") /\ UNCHANGED row)
    BY <1>6 DEF ZipRead, Answer, Reply, Idles
  <2> QED BY <1>a, <1>b, <1>c, <2>1, <2>2
<1>7. CASE FullRow(r)
  <2>1. PICK f \in Found(req[r].obj) :
          /\ SetMeta(req[r].obj, f)
          /\ \/ Idles(r)
             \/ Continue(r, "load") /\ f # None /\ row' = [row EXCEPT ![r] = f]
    BY <1>7 DEF FullRow, TakeRow, Answer, Reply, Idles
  <2>2. UNCHANGED <<config, cipher, restarts, keys, rows, disk, owner, spoilt>>
        /\ pc[r] = "row"
    BY <1>7 DEF FullRow
  <2>3. f \in Rows \union {None} /\ meta' \in [Objects -> Rows \union {None}]
    BY <1>0, <2>1, <2>2, FoundType
  <2> QED BY <1>a, <1>b, <2>1, <2>2, <2>3
<1>8. CASE CachedRead(r) \/ FullRead(r)
  BY <1>8, <1>b, <1>c DEF CachedRead, FullRead
<1>9. CASE SelfHeal(r)
  <2>1. Idles(r) /\ UNCHANGED <<config, cipher, restarts, keys>> /\ req[r].obj \in Objects
    BY <1>0, <1>9 DEF SelfHeal, Commit, Reply, Idles, Reading
  <2>2. meta' \in [Objects -> Rows \union {None}]
    BY <1>0, <1>9 DEF SelfHeal, delete_file, StoreType
  <2> QED BY <1>a, <1>9, <2>1, <2>2 DEF SelfHeal
<1>10. CASE Decode(r)
  <2>1. Idles(r) /\ UNCHANGED <<config, cipher, restarts, keys, rows, disk, meta, owner, spoilt>>
    BY <1>10 DEF Decode, Answer, Reply, Idles
  <2> QED BY <1>a, <1>c, <2>1
<1> QED BY <1>1, <1>2, <1>3, <1>4, <1>5, <1>6, <1>7, <1>8, <1>9, <1>10 DEF Read

\* What a step of task t does to the stores, and what it has to show for them.
\* The other uploads keep what they have unless t wrote or removed their file,
\* and then t (or nobody) owns the path.
LEMMA StoresStep ==
    ASSUME Inv, NEW t \in Tasks, Frame(t),
           rows' \in [Objects -> Rows \union {None}],
           disk' \in [Objects -> Bodies \union {None}],
           meta' \in [Objects -> Rows \union {None}],
           owner' \in [Objects -> Uploaders \union {None}],
           spoilt' \subseteq Objects,
           RowsMatch',
           t \in Uploaders => Uploading(t)',
           t \in Readers => Reading(t)',
           \A o \in Objects : \/ disk'[o] = disk[o] /\ owner'[o] = owner[o]
                              \/ owner'[o] \in {t, None}
    PROVE  Inv'
<1>1. StoreType'
  BY DEF Inv, StoreType, Frame
<1>2. ASSUME NEW u \in Uploaders PROVE Uploading(u)'
  <2>1. CASE u = t
    BY <2>1
  <2>2. CASE u # t
    <3>1. pc'[u] = pc[u] /\ req'[u] = req[u] /\ row'[u] = row[u] /\ config' = config
      BY <2>2 DEF Frame, Tasks
    <3>2. Uploading(u)
      BY DEF Inv
    <3>3. u # None
      BY DistinctAssumption
    <3> QED BY <2>2, <3>1, <3>2, <3>3 DEF Uploading
  <2> QED BY <2>1, <2>2
<1>3. ASSUME NEW r \in Readers PROVE Reading(r)'
  <2>1. CASE r = t
    BY <2>1
  <2>2. CASE r # t
    BY <2>2 DEF Inv, Frame, Tasks, Reading
  <2> QED BY <2>1, <2>2
<1> QED BY <1>1, <1>2, <1>3 DEF Inv

\* Every step of a reader keeps the invariant.
LEMMA ReadStep ==
    ASSUME Inv, NEW r \in Readers, Read(r)
    PROVE  Inv'
<1>0. StoreType /\ RowsMatch
  BY DEF Inv
<1>1. /\ Frame(r) /\ Reading(r)' /\ meta' \in [Objects -> Rows \union {None}]
      /\ \/ UNCHANGED <<rows, disk, owner, spoilt>>
         \/ \E o \in Objects : delete_file(o)
  BY ReadFrame
<1>2. r \in Tasks /\ r \notin Uploaders /\ config' = config
  BY <1>1, DistinctAssumption DEF Tasks, Frame
<1>3. CASE UNCHANGED <<rows, disk, owner, spoilt>>
  <2>1. RowsMatch'
    BY <1>0, <1>2, <1>3 DEF RowsMatch
  <2> QED BY <1>0, <1>1, <1>2, <1>3, <2>1, StoresStep DEF StoreType
<1>4. ASSUME NEW o \in Objects, delete_file(o)
      PROVE  Inv'
  <2> DEFINE gone == {p \in Objects : rows[o] # None /\ rows[o].path = p /\ Using(p) = {o}}
  <2>1. /\ rows' = [rows EXCEPT ![o] = None]
        /\ disk' = [p \in Objects |-> IF p \in gone THEN None ELSE disk[p]]
        /\ owner' = [p \in Objects |-> IF p \in gone THEN None ELSE owner[p]]
        /\ spoilt' = spoilt \ {o}
    BY <1>4 DEF delete_file
  <2>2. /\ rows' \in [Objects -> Rows \union {None}]
        /\ disk' \in [Objects -> Bodies \union {None}]
        /\ owner' \in [Objects -> Uploaders \union {None}]
        /\ spoilt' \subseteq Objects
    BY <1>0, <2>1 DEF StoreType
  <2>3. RowsMatch'
    <3> SUFFICES ASSUME NEW p \in Objects \ spoilt', rows'[p] # None
                 PROVE  Matches(rows'[p], disk'[rows'[p].path], config.crypto)
      BY <1>2 DEF RowsMatch
    <3>1. p # o /\ p \notin spoilt /\ rows'[p] = rows[p] /\ rows[p] # None
      BY <1>0, <2>1 DEF StoreType
    <3>2. rows[p].path \in Objects /\ p \in Using(rows[p].path)
      BY <1>0, <3>1 DEF StoreType, Rows, Using
    <3>3. rows[p].path \notin gone
      BY <3>1, <3>2
    <3>4. disk'[rows[p].path] = disk[rows[p].path]
      BY <2>1, <3>2, <3>3
    <3> QED BY <1>0, <3>1, <3>4 DEF RowsMatch
  <2>4. \A p \in Objects : \/ disk'[p] = disk[p] /\ owner'[p] = owner[p]
                           \/ owner'[p] \in {r, None}
    BY <2>1
  <2> QED BY <1>1, <1>2, <2>2, <2>3, <2>4, StoresStep
<1> QED BY <1>1, <1>3, <1>4

\* Every step of an upload keeps the invariant: this is where rows and bytes are made.
LEMMA UploadStep ==
    ASSUME Inv, NEW u \in Uploaders, Upload(u)
    PROVE  Inv'
<1> USE DEF process, store, cache, locals, ghosts
<1>0. StoreType /\ RowsMatch /\ Uploading(u) /\ u \in Tasks /\ u \notin Readers /\ u # None
  BY DistinctAssumption DEF Inv, Tasks
<1>m. meta' \in [Objects -> Rows \union {None}]
  <2>1. CASE Warm(u)
    BY <1>0, <2>1 DEF Warm, Uploading, StoreType
  <2>2. CASE UNCHANGED meta
    BY <1>0, <2>2 DEF StoreType
  <2>3. UNCHANGED meta \/ Warm(u)
    BY DEF Upload, StartUpload, Accept, DedupMisses, Reuse, Alias, KeyRefused, PutWrite,
           PutSave, PutSaveFails
  <2> QED BY <2>1, <2>2, <2>3
<1>a. ASSUME Frame(u), Uploading(u)', UNCHANGED <<rows, disk, owner, spoilt>>
      PROVE  Inv'
  <2>1. RowsMatch'
    BY <1>0, <1>a DEF RowsMatch, Frame
  <2> QED BY <1>0, <1>a, <2>1, <1>m, StoresStep DEF StoreType
<1>b. ASSUME Idles(u), UNCHANGED <<config, cipher, restarts, keys>>
      PROVE  Frame(u) /\ Uploading(u)'
  BY <1>0, <1>b, IdlesFrame DEF Uploading
<1>1. CASE StartUpload(u)
  <2>1. PICK o \in Objects, c \in Contents, opts \in Options :
          Accept(u, [NoRequest EXCEPT !.obj = o, !.of = c, !.opts = opts], "dedup", TRUE)
    BY <1>1 DEF StartUpload
  <2> DEFINE q == [NoRequest EXCEPT !.obj = o, !.of = c, !.opts = opts]
  <2>2. q \in Requests /\ q.obj = o /\ q.of = c /\ q.opts = opts
    BY DEF NoRequest, Requests
  <2>3. Frame(u) /\ pc'[u] = "dedup" /\ req'[u] = q /\ UNCHANGED <<rows, disk, owner, spoilt>>
    BY <1>0, <2>1, <2>2, AcceptFrame
  <2> QED BY <1>a, <2>2, <2>3 DEF Uploading
<1>2. CASE DedupMisses(u)
  <2>1. Frame(u) /\ pc'[u] = "write" /\ req'[u] = req[u]
    BY <1>0, <1>2, ContinueFrame DEF DedupMisses
  <2>2. Uploading(u)'
    BY <1>0, <1>2, <2>1 DEF Uploading, DedupMisses
  <2> QED BY <1>a, <1>2, <2>1, <2>2 DEF DedupMisses
<1>3. CASE Reuse(u)
  BY <1>3, <1>a, <1>b DEF Reuse, Answer, Reply, Idles
<1>4. CASE Alias(u)
  <2>1. PICK p \in Duplicates(u) \ {req[u].obj} :
          /\ rows' = [rows EXCEPT ![req[u].obj] = rows[p]]
          /\ spoilt' = IF p \in spoilt THEN spoilt \union {req[u].obj}
                       ELSE spoilt \ {req[u].obj}
    BY <1>4 DEF Alias
  <2>2. Idles(u) /\ UNCHANGED <<config, cipher, restarts, keys, disk, owner>>
    BY <1>4 DEF Alias, Commit, Reply, Idles
  <2>3. p \in Objects /\ rows[p] # None /\ req[u].obj \in Objects
    BY <1>0, <1>4 DEF Duplicates, Uploading, Alias
  <2>4. rows' \in [Objects -> Rows \union {None}] /\ spoilt' \subseteq Objects
    BY <1>0, <2>1, <2>3 DEF StoreType
  <2>5. RowsMatch'
    <3> SUFFICES ASSUME NEW o \in Objects \ spoilt', rows'[o] # None
                 PROVE  Matches(rows'[o], disk[rows'[o].path], config.crypto)
      BY <2>2 DEF RowsMatch
    <3>1. CASE o = req[u].obj
      BY <1>0, <2>1, <2>3, <3>1 DEF RowsMatch, StoreType
    <3>2. CASE o # req[u].obj
      BY <1>0, <2>1, <2>3, <3>2 DEF RowsMatch, StoreType
    <3> QED BY <3>1, <3>2
  <2> QED BY <1>0, <1>b, <2>2, <2>4, <2>5, <1>m, StoresStep DEF StoreType
<1>5. CASE KeyRefused(u)
  BY <1>5, <1>a, <1>b DEF KeyRefused, Answer, Reply, Idles
<1>6. CASE PutWrite(u)
  <2> DEFINE o == req[u].obj
             b == Encode(req[u].of, req[u].opts)
             f == NewRow(u, b)
  <2>1. /\ disk' = [disk EXCEPT ![o] = b]
        /\ row' = [row EXCEPT ![u] = f]
        /\ owner' = [owner EXCEPT ![o] = u]
        /\ spoilt' = spoilt \union Using(o)
        /\ pc[u] = "write" /\ Continue(u, "save")
        /\ UNCHANGED <<config, cipher, restarts, keys, rows>>
    BY <1>6 DEF PutWrite
  <2>2. b \in Bodies /\ f \in Rows /\ f.path = o /\ Matches(f, b, config.crypto)
    BY <1>0, <2>1, EncodeMatches
  <2>3. o \in Objects /\ req[u].of \in Contents /\ req[u].opts \in Options
    BY <1>0, <2>1 DEF Uploading
  <2> HIDE DEF b, f
  <2>4. Frame(u) /\ pc'[u] = "save" /\ req'[u] = req[u]
    BY <1>0, <2>1, <2>2, ContinueFrame
  <2>5. /\ disk' \in [Objects -> Bodies \union {None}]
        /\ owner' \in [Objects -> Uploaders \union {None}]
        /\ spoilt' \subseteq Objects
        /\ rows' \in [Objects -> Rows \union {None}]
    BY <1>0, <2>1, <2>2, <2>3 DEF StoreType, Using
  <2>6. Uploading(u)'
    <3>1. row'[u] = f /\ disk'[o] = b
      BY <1>0, <2>1, <2>3 DEF StoreType
    <3> QED BY <2>1, <2>2, <2>3, <2>4, <3>1 DEF Uploading
  <2>7. RowsMatch'
    <3> SUFFICES ASSUME NEW p \in Objects \ spoilt', rows[p] # None
                 PROVE  Matches(rows[p], disk'[rows[p].path], config.crypto)
      BY <2>1 DEF RowsMatch
    <3>1. p \notin spoilt /\ rows[p].path # o
      BY <2>1 DEF Using
    <3>2. disk'[rows[p].path] = disk[rows[p].path]
      BY <1>0, <2>1, <3>1 DEF StoreType, Rows
    <3> QED BY <1>0, <3>1, <3>2 DEF RowsMatch
  <2>8. \A p \in Objects : \/ disk'[p] = disk[p] /\ owner'[p] = owner[p]
                           \/ owner'[p] \in {u, None}
    BY <1>0, <2>1 DEF StoreType
  <2> QED BY <1>0, <2>4, <2>5, <2>6, <2>7, <2>8, <1>m, StoresStep
<1>7. CASE PutSave(u)
  <2> DEFINE o == req[u].obj
  <2>1. /\ rows' = [rows EXCEPT ![o] = row[u]]
        /\ spoilt' = IF owner[o] = u THEN spoilt \ {o} ELSE spoilt \union {o}
        /\ Continue(u, "warm") /\ UNCHANGED row /\ pc[u] = "save"
        /\ UNCHANGED <<config, cipher, restarts, keys, disk, owner>>
    BY <1>7 DEF PutSave
  <2>2. /\ o \in Objects /\ row[u] \in Rows /\ row[u].path = o
        /\ owner[o] = u => Matches(row[u], disk[o], config.crypto)
    BY <1>0, <2>1 DEF Uploading
  <2>3. rows' \in [Objects -> Rows \union {None}] /\ spoilt' \subseteq Objects
    BY <1>0, <2>1, <2>2 DEF StoreType
  <2>4. RowsMatch'
    <3> SUFFICES ASSUME NEW p \in Objects \ spoilt', rows'[p] # None
                 PROVE  Matches(rows'[p], disk[rows'[p].path], config.crypto)
      BY <2>1 DEF RowsMatch
    <3>1. CASE p = o
      BY <1>0, <2>1, <2>2, <3>1 DEF StoreType
    <3>2. CASE p # o
      BY <1>0, <2>1, <2>2, <3>2 DEF RowsMatch, StoreType
    <3> QED BY <3>1, <3>2
  <2>5. Frame(u) /\ pc'[u] = "warm" /\ req'[u] = req[u]
    BY <1>0, <2>1, ContinueFrame
  <2>6. Uploading(u)'
    BY <1>0, <2>1, <2>2, <2>5 DEF Uploading
  <2> QED BY <1>0, <2>1, <2>3, <2>4, <2>5, <2>6, <1>m, StoresStep DEF StoreType
<1>8. CASE PutSaveFails(u)
  <2> DEFINE o == req[u].obj
  <2>1. /\ disk' = [disk EXCEPT ![o] = None]
        /\ owner' = [owner EXCEPT ![o] = None]
        /\ spoilt' = spoilt \union Using(o)
        /\ Idles(u) /\ pc[u] = "save"
        /\ UNCHANGED <<config, cipher, restarts, keys, rows>>
    BY <1>8 DEF PutSaveFails, Commit, Reply, Idles
  <2>2. /\ disk' \in [Objects -> Bodies \union {None}]
        /\ owner' \in [Objects -> Uploaders \union {None}]
        /\ spoilt' \subseteq Objects
        /\ rows' \in [Objects -> Rows \union {None}]
    BY <1>0, <2>1 DEF StoreType, Using
  <2>3. RowsMatch'
    <3> SUFFICES ASSUME NEW p \in Objects \ spoilt', rows[p] # None
                 PROVE  Matches(rows[p], disk'[rows[p].path], config.crypto)
      BY <2>1 DEF RowsMatch
    <3>1. p \notin spoilt /\ rows[p].path # o
      BY <2>1 DEF Using
    <3>2. disk'[rows[p].path] = disk[rows[p].path]
      BY <1>0, <2>1, <3>1 DEF StoreType, Rows
    <3> QED BY <1>0, <3>1, <3>2 DEF RowsMatch
  <2>4. \A p \in Objects : \/ disk'[p] = disk[p] /\ owner'[p] = owner[p]
                           \/ owner'[p] \in {u, None}
    BY <1>0, <2>1 DEF StoreType
  <2> QED BY <1>0, <1>b, <2>1, <2>2, <2>3, <2>4, <1>m, StoresStep
<1>9. CASE Warm(u)
  BY <1>9, <1>a, <1>b DEF Warm, Answer, Reply, Idles
<1> QED BY <1>1, <1>2, <1>3, <1>4, <1>5, <1>6, <1>7, <1>8, <1>9 DEF Upload

\* The invariant holds initially.
LEMMA InvInit == ASSUME Init PROVE Inv
<1>1. config \in ConfigRecords
  BY RequestAssumption DEF Init
<1>2. /\ cipher \in Seals \union {None}
      /\ config.crypto => cipher # None /\ cipher.algorithm = config.algorithm
  BY <1>1, DistinctAssumption DEF Init, init_cipher, Seal, Seals, SealKeys, ConfigRecords
<1>3. NoRequest \in Requests
  BY DEF NoRequest, Requests
<1> QED BY <1>2, <1>3 DEF Init, Inv, StoreType, RowsMatch, Uploading, Reading, Tasks

\* Every step keeps it.
LEMMA InvStep == ASSUME SettledConfigs, Inv, [Next]_vars PROVE Inv'
<1> USE DEF process, store, cache, locals, ghosts
<1>1. ASSUME NEW u \in Uploaders, Upload(u) PROVE Inv'
  BY <1>1, UploadStep
<1>2. ASSUME NEW r \in Readers, Read(r) PROVE Inv'
  BY <1>2, ReadStep
<1>3. ASSUME NEW k \in KeyIds, create_key(k) \/ deactivate_key(k) PROVE Inv'
  <2>1. /\ UNCHANGED <<config, cipher, restarts, rows, disk, meta, pc, req, row, owner, spoilt>>
        /\ keys' \in [KeyIds -> {"absent", "active", "inactive"}]
    BY <1>3 DEF create_key, deactivate_key, Inv, StoreType
  <2> QED BY <2>1 DEF Inv, StoreType, RowsMatch, Uploading, Reading
<1>4. CASE Restart
  <2>1. /\ config' \in Configs /\ config' \in ConfigRecords
        /\ cipher' = init_cipher(config', restarts')
        /\ pc' = [t \in Tasks |-> "idle"]
        /\ req' = [t \in Tasks |-> NoRequest]
        /\ row' = [t \in Tasks |-> None]
        /\ UNCHANGED <<keys, rows, disk, meta, owner, spoilt>>
    BY <1>4, RequestAssumption DEF Restart
  <2>2. restarts' \in Nat
    BY <1>4 DEF Restart, Inv, StoreType
  <2>3. /\ cipher' \in Seals \union {None}
        /\ config'.crypto => cipher' # None /\ cipher'.algorithm = config'.algorithm
    BY <2>1, <2>2, DistinctAssumption DEF init_cipher, Seal, Seals, SealKeys, ConfigRecords
  <2>4. config'.crypto = config.crypto
    BY <2>1 DEF SettledConfigs, Inv, StoreType
  <2>5. NoRequest \in Requests
    BY DEF NoRequest, Requests
  <2>6. StoreType'
    BY <2>1, <2>2, <2>3, <2>5 DEF Inv, StoreType
  <2>7. RowsMatch'
    BY <2>1, <2>4 DEF Inv, RowsMatch
  <2> QED BY <2>1, <2>6, <2>7 DEF Inv, Uploading, Reading, Tasks
<1>5. CASE Listen \/ UNCHANGED vars
  <2>1. UNCHANGED <<config, cipher, restarts, keys, rows, disk, meta, pc, req, row, owner,
                   spoilt>>
    BY <1>5 DEF Listen, vars
  <2> QED BY <2>1 DEF Inv, StoreType, RowsMatch, Uploading, Reading
<1> QED BY <1>1, <1>2, <1>3, <1>4, <1>5 DEF Next

\* decode_content reverses whatever store_file did: every row whose bytes are
\* still its own decodes to the uploaded content, or to an error if its key is
\* not available, for any number of objects, uploads, readers, keys, restarts
\* and configurations that keep compression on and encryption as it was.
THEOREM AlwaysDecodable ==
    ASSUME SettledConfigs
    PROVE  Spec => []Decodable
<1>1. Inv => Decodable
  <2> SUFFICES ASSUME Inv, NEW o \in Objects \ spoilt, rows[o] # None
               PROVE  LET f == rows[o]
                          b == disk[f.path]
                      IN  /\ b # None
                          /\ decode_content(f, b) =
                               IF KeyAvailable(f, b) THEN {Plain(f.of)} ELSE {None}
    BY DEF Decodable
  <2> DEFINE f == rows[o]  b == disk[f.path]
  <2>1. StoreType /\ f \in Rows /\ Matches(f, b, config.crypto)
    BY DEF Inv, StoreType, RowsMatch
  <2>2. b # None /\ b \in Bodies
    BY <2>1 DEF StoreType, Rows, Matches
  <2> QED BY <2>1, <2>2, MatchesDecodes
<1> QED BY <1>1, InvInit, InvStep, PTL DEF Spec

-----------------------------------------------------------------------------
(* Types *)

PCs == {"idle", "dedup", "write", "save", "warm", "info", "plain", "seek",
        "zip", "inflate", "row", "load", "decode"}

\* What a task needs at its next step is there; a fast path has a range inside
\* the total it will use, so the number of bytes it reads is a number.
Fit(t) ==
    /\ pc[t] # "idle" => req[t].obj # None
    /\ t \in Uploaders /\ pc[t] # "idle" => req[t].of # None /\ req[t].opts # None
    /\ pc[t] = "info" => req[t].range # None
    /\ pc[t] \in {"plain", "seek", "zip", "inflate"} => span[t] # None
    /\ pc[t] \in {"save", "warm", "seek", "inflate", "load", "decode"} => row[t] # None
    /\ pc[t] \in {"save", "warm", "decode"} => body[t] # None
    /\ pc[t] = "seek" => Overlaps(span[t], row[t].size)
    /\ pc[t] = "inflate" => Overlaps(span[t], Size[row[t].of])

TypeInv == TypeOK /\ \A t \in Tasks : Fit(t)

\* A step of a task leaves the process alone and the stores well-typed.
StoresTyped ==
    /\ UNCHANGED process
    /\ uploads' \in Nat /\ reads' \in Nat
    /\ keys' \in [KeyIds -> {"absent", "active", "inactive"}]
    /\ rows' \in [Objects -> Rows \union {None}]
    /\ disk' \in [Objects -> Bodies \union {None}]
    /\ meta' \in [Objects -> Rows \union {None}]
    /\ content' \in [Objects -> Bodies \union {None}]
    /\ owner' \in [Objects -> Uploaders \union {None}]
    /\ spoilt' \subseteq Objects
    /\ clean' \in [Tasks -> BOOLEAN]

\* Only task t's locals change.
LocalsOf(t) ==
    /\ pc' = [pc EXCEPT ![t] = pc'[t]] /\ req' = [req EXCEPT ![t] = req'[t]]
    /\ row' = [row EXCEPT ![t] = row'[t]] /\ body' = [body EXCEPT ![t] = body'[t]]
    /\ span' = [span EXCEPT ![t] = span'[t]]

\* A step of one task.
LEMMA StepTyped ==
    ASSUME TypeInv, NEW t \in Tasks, StoresTyped, LocalsOf(t), out' \in Answers,
           pc'[t] \in PCs, req'[t] \in Requests, row'[t] \in Rows \union {None},
           body'[t] \in Bodies \union {None}, span'[t] \in Spans \union {None}, Fit(t)'
    PROVE  TypeInv'
<1>1. /\ pc' \in [Tasks -> PCs] /\ req' \in [Tasks -> Requests]
      /\ row' \in [Tasks -> Rows \union {None}] /\ body' \in [Tasks -> Bodies \union {None}]
      /\ span' \in [Tasks -> Spans \union {None}]
  BY DEF TypeInv, TypeOK, LocalsOf, PCs
<1>2. ASSUME NEW x \in Tasks PROVE Fit(x)'
  <2>1. CASE x = t
    BY <2>1
  <2>2. CASE x # t
    <3>1. /\ pc'[x] = pc[x] /\ req'[x] = req[x] /\ row'[x] = row[x] /\ body'[x] = body[x]
          /\ span'[x] = span[x]
      BY <2>2 DEF TypeInv, TypeOK, LocalsOf
    <3>2. Fit(x)
      BY DEF TypeInv
    <3> QED BY <3>1, <3>2 DEF Fit
  <2> QED BY <2>1, <2>2
<1>3. TypeOK'
  BY <1>1, <1>2 DEF TypeInv, TypeOK, StoresTyped, process, Fit, PCs, Tasks
<1> QED BY <1>2, <1>3 DEF TypeInv

\* The history of interference stays Boolean.
LEMMA DisturbTyped ==
    ASSUME NEW others, Disturb(others) PROVE clean' \in [Tasks -> BOOLEAN]
BY DEF Disturb

\* Stores that do not change are typed.
LEMMA SameStores ==
    ASSUME TypeInv, UNCHANGED <<process, store, issued, owner, spoilt>>,
           UNCHANGED clean \/ \E others \in SUBSET Tasks : Disturb(others)
    PROVE  StoresTyped
BY DisturbTyped DEF TypeInv, TypeOK, StoresTyped, process, store, cache, issued

\* A lookup finds a row and leaves the stores typed.
LEMMA LookupTyped ==
    ASSUME TypeInv, NEW r \in Tasks, req[r].obj \in Objects, NEW f \in Found(req[r].obj),
           SetMeta(req[r].obj, f), clean' \in [Tasks -> BOOLEAN],
           UNCHANGED <<process, keys, rows, disk, content, issued, owner, spoilt>>
    PROVE  f \in Rows \union {None} /\ StoresTyped
BY DEF TypeInv, TypeOK, StoresTyped, Found, SetMeta, process, issued

\* Answers without a body, and with one.
LEMMA AnswerTyped ==
    /\ NoRequest \in Requests
    /\ NoAnswer \in Answers
    /\ \A s \in Statuses : Status(s) \in Answers /\ Status(s).status = s
    /\ \A n \in Nat : [Status("416") EXCEPT !.total = n] \in Answers
    /\ \A b \in Bodies, n \in Nat :
         [Status("200") EXCEPT !.body = b, !.got = n, !.total = n] \in Answers
    /\ \A b \in Bodies, s \in Spans, got \in Nat, n \in Nat : Partial(b, s, got, n) \in Answers
<1>1. NoRequest \in Requests
  BY DEF NoRequest, Requests
<1>2. NoAnswer \in Answers
  BY <1>1 DEF NoAnswer, Answers, Statuses
<1>3. ASSUME NEW a \in Answers, NEW s \in Statuses, NEW b \in Bodies \union {None},
             NEW p \in Spans \union {None}, NEW got \in Nat, NEW n \in Nat
      PROVE  /\ [a EXCEPT !.status = s] \in Answers
             /\ [a EXCEPT !.total = n] \in Answers
             /\ [a EXCEPT !.body = b, !.got = got, !.total = n] \in Answers
             /\ [a EXCEPT !.body = b, !.span = p, !.got = got, !.total = n] \in Answers
  BY DEF Answers
<1>4. ASSUME NEW s \in Statuses PROVE Status(s) \in Answers /\ Status(s).status = s
  BY <1>2 DEF Status, Answers
<1>5. \A s \in {"416", "200", "206"} : Status(s) \in Answers
  BY <1>4 DEF Statuses
<1>6. \A n \in Nat : [Status("416") EXCEPT !.total = n] \in Answers
  BY <1>5 DEF Answers
<1>7. \A b \in Bodies, n \in Nat :
        [Status("200") EXCEPT !.body = b, !.got = n, !.total = n] \in Answers
  BY <1>5 DEF Answers
<1>8. \A b \in Bodies, s \in Spans, got \in Nat, n \in Nat : Partial(b, s, got, n) \in Answers
  BY <1>5 DEF Answers, Partial
<1> QED BY <1>1, <1>2, <1>4, <1>6, <1>7, <1>8

\* A step that answers.
LEMMA ReplyTyped ==
    ASSUME TypeInv, NEW t \in Tasks, NEW a \in Answers, Reply(t, a), StoresTyped
    PROVE  TypeInv'
<1>1. req[t] \in Requests /\ clean[t] \in BOOLEAN
  BY DEF TypeInv, TypeOK
<1>2. out' \in Answers
  BY <1>1 DEF Reply, Answers
<1>3. /\ pc'[t] = "idle" /\ req'[t] = NoRequest /\ row'[t] = None /\ body'[t] = None
      /\ span'[t] = None /\ LocalsOf(t)
  BY DEF Reply, LocalsOf, TypeInv, TypeOK
<1>4. Fit(t)'
  BY <1>3 DEF Fit
<1> QED BY <1>2, <1>3, <1>4, AnswerTyped, StepTyped DEF PCs

\* A step that goes on.
LEMMA ContinueTyped ==
    ASSUME TypeInv, NEW t \in Tasks, NEW next \in PCs, Continue(t, next), StoresTyped,
           row' = [row EXCEPT ![t] = row'[t]], body' = [body EXCEPT ![t] = body'[t]],
           span' = [span EXCEPT ![t] = span'[t]], row'[t] \in Rows \union {None},
           body'[t] \in Bodies \union {None}, span'[t] \in Spans \union {None},
           pc'[t] = next /\ req'[t] = req[t] => Fit(t)'
    PROVE  TypeInv'
<1>1. pc'[t] = next /\ req'[t] = req[t] /\ LocalsOf(t) /\ req[t] \in Requests /\ out' = NoAnswer
  BY DEF Continue, LocalsOf, TypeInv, TypeOK
<1> QED BY <1>1, AnswerTyped, StepTyped

\* A request arrives.
LEMMA AcceptTyped ==
    ASSUME TypeInv, NEW t \in Tasks, NEW r \in Requests, NEW next \in PCs,
           NEW fresh \in BOOLEAN, Accept(t, r, next, fresh), uploads' \in Nat, reads' \in Nat,
           pc'[t] = next /\ req'[t] = r => Fit(t)'
    PROVE  TypeInv'
<1> USE DEF process, store, cache, locals
<1>1. clean' \in [Tasks -> BOOLEAN]
  BY DEF Accept, TypeInv, TypeOK
<1>2. StoresTyped
  BY <1>1 DEF Accept, StoresTyped, TypeInv, TypeOK
<1>3. /\ pc'[t] = next /\ req'[t] = r /\ out' = NoAnswer /\ LocalsOf(t)
      /\ row'[t] \in Rows \union {None} /\ body'[t] \in Bodies \union {None}
      /\ span'[t] \in Spans \union {None}
  BY DEF Accept, LocalsOf, TypeInv, TypeOK
<1> QED BY <1>2, <1>3, AnswerTyped, StepTyped

\* decode_content makes bodies, or nothing.
LEMMA DecodeTyped ==
    ASSUME NEW f \in Rows, NEW b \in Bodies
    PROVE  decode_content(f, b) \subseteq Bodies \union {None}
<1>1. \A s : Open(b, s) \in Bodies \union {None}
  BY DEF Open, Bodies
<1>2. ASSUME NEW x \in Bodies PROVE decompress(x) \subseteq Bodies \union {None}
  BY DEF decompress, Plain, Bodies
<1>3. decrypt(b, f.algorithm) \in Bodies \union {None}
  BY <1>1 DEF decrypt
<1>4. decrypt_with_key(b, f.algorithm, f.key) \in Bodies \union {None}
  BY <1>1 DEF decrypt_with_key
<1> DEFINE opened == IF ~f.is_encrypted THEN b
                     ELSE IF f.key = None THEN decrypt(b, f.algorithm)
                     ELSE IF get_key(f.key) THEN decrypt_with_key(b, f.algorithm, f.key)
                     ELSE None
<1>5. opened \in Bodies \union {None}
  BY <1>3, <1>4
<1>6. decode_content(f, b) = IF opened # None /\ f.is_compressed THEN decompress(opened)
                             ELSE {opened}
  BY DEF decode_content
<1> HIDE DEF opened
<1> QED BY <1>2, <1>5, <1>6

\* The answer to a decoded body is an answer.
LEMMA ServedTyped ==
    ASSUME NEW h \in Headers \union {None}, NEW b \in Bodies PROVE Served(h, b) \in Answers
<1> DEFINE n == Length(b)
           s == IF h = None THEN None ELSE parse_range_header(h, n)
<1>1. n \in Nat
  BY LengthType
<1>2. s # None => s \in Spans /\ s.end - s.start + 1 \in Nat
  <2>1. h # None => h \in HeaderRecords
    BY RequestAssumption
  <2>2. s # None => s \in Spans /\ s.start <= s.end
    BY <1>1, <2>1, RangeArithmetic
  <2> QED BY <2>2 DEF Spans
<1> HIDE DEF n, s
<1>3. CASE s = None
  BY <1>1, <1>3, AnswerTyped DEF Served, n, s
<1>4. CASE s # None
  <2>1. Served(h, b) = Partial(b, s, s.end - s.start + 1, n)
    BY <1>4 DEF Served, n, s
  <2>2. PICK got \in Nat : got = s.end - s.start + 1
    BY <1>2, <1>4
  <2>3. Partial(b, s, got, n) \in Answers
    BY <1>1, <1>2, <1>4, AnswerTyped
  <2> QED BY <2>1, <2>2, <2>3
<1> QED BY <1>3, <1>4

\* The number of bytes a fast path serves.
LEMMA WantedType ==
    ASSUME NEW s \in Spans, NEW n \in Nat, Overlaps(s, n) PROVE Wanted(s, n) \in Nat \ {0}
BY DEF Spans, Overlaps, Wanted, ClampedEnd, Least, Pred

\* delete_file leaves the stores typed.
LEMMA DeleteTyped ==
    ASSUME TypeInv, NEW o \in Objects, delete_file(o)
    PROVE  /\ rows' \in [Objects -> Rows \union {None}]
           /\ disk' \in [Objects -> Bodies \union {None}]
           /\ owner' \in [Objects -> Uploaders \union {None}]
           /\ spoilt' \subseteq Objects
           /\ meta' \in [Objects -> Rows \union {None}]
           /\ content' \in [Objects -> Bodies \union {None}]
BY DEF TypeInv, TypeOK, delete_file, cache

\* The steps of an upload.
LEMMA UploadTyped == ASSUME TypeInv, NEW u \in Uploaders, Upload(u) PROVE TypeInv'
<1> USE DEF process, store, cache, issued, locals, ghosts
<1>0. /\ u \in Tasks /\ req[u] \in Requests /\ row[u] \in Rows \union {None}
      /\ body[u] \in Bodies \union {None} /\ span[u] \in Spans \union {None} /\ Fit(u)
      /\ row = [row EXCEPT ![u] = row[u]] /\ body = [body EXCEPT ![u] = body[u]]
      /\ span = [span EXCEPT ![u] = span[u]]
  BY DEF Tasks, TypeInv, TypeOK
<1>a. pc[u] # "idle" => req[u].obj \in Objects /\ req[u].of \in Contents /\ req[u].opts \in Options
  BY <1>0 DEF Fit, Requests
<1>b. \A s \in Statuses : Status(s) \in Answers
  BY AnswerTyped
<1>1. CASE StartUpload(u)
  <2>1. PICK o \in Objects, c \in Contents, opts \in Options :
          Accept(u, [NoRequest EXCEPT !.obj = o, !.of = c, !.opts = opts], "dedup", TRUE)
    BY <1>1 DEF StartUpload
  <2> DEFINE q == [NoRequest EXCEPT !.obj = o, !.of = c, !.opts = opts]
  <2>2. q \in Requests /\ q.obj = o /\ q.of = c /\ q.opts = opts
    BY DEF NoRequest, Requests
  <2>3. o # None /\ c # None /\ opts # None
    BY DistinctAssumption
  <2>4. Accept(u, q, "dedup", TRUE)
    BY <2>1
  <2> HIDE DEF q
  <2>5. pc'[u] = "dedup" /\ req'[u] = q => Fit(u)'
    BY <2>2, <2>3 DEF Fit
  <2>6. uploads' \in Nat /\ reads' \in Nat
    BY <1>1 DEF StartUpload, TypeInv, TypeOK
  <2> QED BY <1>0, <2>2, <2>4, <2>5, <2>6, AcceptTyped DEF PCs
<1>2. CASE DedupMisses(u)
  <2>1. StoresTyped
    BY <1>2, SameStores DEF DedupMisses
  <2>2. pc'[u] = "write" /\ req'[u] = req[u] => Fit(u)'
    BY <1>0, <1>2 DEF DedupMisses, Fit
  <2> QED BY <1>0, <1>2, <2>1, <2>2, ContinueTyped DEF DedupMisses, PCs
<1>3. CASE Reuse(u) \/ KeyRefused(u)
  <2>1. PICK s \in {"reused", "error"} : Answer(u, Status(s))
    BY <1>3 DEF Reuse, KeyRefused
  <2>2. StoresTyped
    BY <1>0, <1>3, <2>1, SameStores DEF Reuse, KeyRefused, Answer
  <2> QED BY <1>0, <1>b, <2>1, <2>2, ReplyTyped DEF Answer, Statuses
<1>4. CASE Alias(u)
  <2>1. PICK p \in Duplicates(u) \ {req[u].obj} :
          /\ rows' = [rows EXCEPT ![req[u].obj] = rows[p]]
          /\ spoilt' = IF p \in spoilt THEN spoilt \union {req[u].obj}
                       ELSE spoilt \ {req[u].obj}
    BY <1>4 DEF Alias
  <2>2. p \in Objects /\ req[u].obj \in Objects
    BY <1>a, <1>4 DEF Duplicates, Alias
  <2>3. rows' \in [Objects -> Rows \union {None}] /\ spoilt' \subseteq Objects
    BY <2>1, <2>2 DEF TypeInv, TypeOK
  <2>4. StoresTyped
    BY <1>4, <2>3, DisturbTyped DEF Alias, Commit, StoresTyped, TypeInv, TypeOK
  <2> QED BY <1>0, <1>b, <1>4, <2>4, ReplyTyped DEF Alias, Commit, Statuses
<1>5. CASE PutWrite(u)
  <2> DEFINE o == req[u].obj
             b == Encode(req[u].of, req[u].opts)
             f == NewRow(u, b)
  <2>1. /\ disk' = [disk EXCEPT ![o] = b] /\ row' = [row EXCEPT ![u] = f]
        /\ body' = [body EXCEPT ![u] = b]
        /\ owner' = [owner EXCEPT ![o] = u] /\ spoilt' = spoilt \union Using(o)
        /\ pc[u] = "write" /\ Continue(u, "save") /\ Disturb(Tasks \ {u})
        /\ UNCHANGED <<config, cipher, restarts, keys, rows, meta, content, uploads, reads, span>>
    BY <1>5 DEF PutWrite
  <2>2. b \in Bodies /\ f \in Rows /\ o \in Objects
    BY <1>a, <2>1, EncodeType DEF TypeInv, TypeOK
  <2> HIDE DEF b, f
  <2>3. StoresTyped
    BY <2>1, <2>2, DisturbTyped DEF StoresTyped, TypeInv, TypeOK, Using
  <2>4. row'[u] = f /\ f # None /\ body'[u] = b /\ b # None
    BY <1>0, <2>1, <2>2, DistinctAssumption DEF TypeInv, TypeOK
  <2>5. pc'[u] = "save" /\ req'[u] = req[u] => Fit(u)'
    BY <1>0, <2>1, <2>4 DEF Fit
  <2> QED BY <1>0, <2>1, <2>2, <2>3, <2>4, <2>5, ContinueTyped DEF PCs
<1>6. CASE PutSave(u)
  <2>1. req[u].obj \in Objects /\ row[u] \in Rows
    BY <1>0, <1>a, <1>6 DEF PutSave, Fit
  <2>2. rows' \in [Objects -> Rows \union {None}] /\ spoilt' \subseteq Objects
    BY <1>6, <2>1 DEF PutSave, TypeInv, TypeOK
  <2>3. StoresTyped
    BY <1>6, <2>2, DisturbTyped DEF PutSave, StoresTyped, TypeInv, TypeOK
  <2>4. pc'[u] = "warm" /\ req'[u] = req[u] => Fit(u)'
    BY <1>0, <1>6 DEF PutSave, Fit
  <2> QED BY <1>0, <1>6, <2>3, <2>4, ContinueTyped DEF PutSave, PCs
<1>7. CASE PutSaveFails(u)
  <2>1. /\ disk' \in [Objects -> Bodies \union {None}]
        /\ owner' \in [Objects -> Uploaders \union {None}]
        /\ spoilt' \subseteq Objects
    BY <1>7 DEF PutSaveFails, Using, TypeInv, TypeOK
  <2>2. StoresTyped
    BY <1>7, <2>1, DisturbTyped DEF PutSaveFails, Commit, StoresTyped, TypeInv, TypeOK
  <2> QED BY <1>0, <1>b, <1>7, <2>2, ReplyTyped DEF PutSaveFails, Commit, Statuses
<1>8. CASE Warm(u)
  <2>1. req[u].obj \in Objects /\ row[u] \in Rows /\ body[u] \in Bodies
    BY <1>0, <1>a, <1>8 DEF Warm, Fit
  <2>2. /\ meta' \in [Objects -> Rows \union {None}]
        /\ content' \in [Objects -> Bodies \union {None}]
    BY <1>8, <2>1 DEF Warm, TypeInv, TypeOK
  <2>3. StoresTyped
    BY <1>8, <2>2, DisturbTyped DEF Warm, Answer, StoresTyped, TypeInv, TypeOK
  <2> QED BY <1>0, <1>b, <1>8, <2>3, ReplyTyped DEF Warm, Answer, Statuses
<1> QED BY <1>1, <1>2, <1>3, <1>4, <1>5, <1>6, <1>7, <1>8 DEF Upload

\* The steps of a read.
LEMMA ReadTyped == ASSUME TypeInv, NEW r \in Readers, Read(r) PROVE TypeInv'
<1> USE DEF process, store, cache, issued, locals, ghosts
<1> DEFINE f == rows[req[r].obj]
<1>0. /\ r \in Tasks /\ r \notin Uploaders /\ req[r] \in Requests /\ row[r] \in Rows \union {None}
      /\ body[r] \in Bodies \union {None} /\ span[r] \in Spans \union {None} /\ Fit(r)
      /\ row = [row EXCEPT ![r] = row[r]] /\ body = [body EXCEPT ![r] = body[r]]
      /\ span = [span EXCEPT ![r] = span[r]]
  BY DistinctAssumption DEF Tasks, TypeInv, TypeOK
<1>a. pc[r] # "idle" => req[r].obj \in Objects /\ f \in Rows \union {None}
  BY <1>0 DEF Fit, Requests, TypeInv, TypeOK
<1>b. \A s \in Statuses : Status(s) \in Answers
  BY AnswerTyped
<1>c. row[r] \in Rows => disk[row[r].path] \in Bodies \union {None} /\ Size[row[r].of] \in Nat
                          /\ row[r].size \in Nat
  BY SizeAssumption DEF Rows, TypeInv, TypeOK
<1>d. ASSUME NEW a \in Answers, Answer(r, a), UNCHANGED <<process, store, issued, owner, spoilt>>
      PROVE  TypeInv'
  <2>1. StoresTyped
    BY <1>0, <1>d, SameStores DEF Answer
  <2> QED BY <1>0, <1>d, <2>1, ReplyTyped DEF Answer
<1>e. ASSUME NEW next \in {"row", "plain", "zip"}, Continue(r, next), pc[r] # "idle",
             StoresTyped, UNCHANGED <<row, body, span>>,
             next \in {"plain", "zip"} => span[r] # None
      PROVE  TypeInv'
  <2>1. pc'[r] = next /\ req'[r] = req[r] => Fit(r)'
    BY <1>0, <1>e DEF Fit
  <2> QED BY <1>0, <1>e, <2>1, ContinueTyped DEF PCs
<1>f. ASSUME NEW next \in {"seek", "inflate", "load"}, Continue(r, next), pc[r] # "idle",
             StoresTyped, UNCHANGED <<body, span>>,
             NEW g \in Rows, row' = [row EXCEPT ![r] = g],
             next \in {"seek", "inflate"} => span[r] # None,
             next = "seek" => Overlaps(span[r], g.size),
             next = "inflate" => Overlaps(span[r], Size[g.of])
      PROVE  TypeInv'
  <2>1. row'[r] = g /\ g # None
    BY <1>0, <1>f, DistinctAssumption DEF TypeInv, TypeOK
  <2>2. pc'[r] = next /\ req'[r] = req[r] => Fit(r)'
    BY <1>0, <1>f, <2>1 DEF Fit
  <2> QED BY <1>0, <1>f, <2>1, <2>2, ContinueTyped DEF PCs
<1>g. ASSUME NEW g, TakeRow(r, g) PROVE clean' \in [Tasks -> BOOLEAN]
  BY <1>0, <1>g DEF TakeRow, TypeInv, TypeOK
<1>h. clean \in [Tasks -> BOOLEAN]
  BY DEF TypeInv, TypeOK
<1>1. CASE StartRead(r)
  <2>1. PICK o \in Objects, h \in Headers \union {None} :
          Accept(r, [NoRequest EXCEPT !.obj = o, !.range = h],
                 IF h = None THEN "row" ELSE "info", o \notin spoilt)
    BY <1>1 DEF StartRead
  <2> DEFINE q == [NoRequest EXCEPT !.obj = o, !.range = h]
  <2>2. q \in Requests /\ q.obj = o /\ q.range = h
    BY DEF NoRequest, Requests
  <2>3. o # None
    BY DistinctAssumption
  <2>4. PICK next \in PCs, fresh \in BOOLEAN :
          next = (IF h = None THEN "row" ELSE "info") /\ Accept(r, q, next, fresh)
    BY <2>1 DEF PCs
  <2> HIDE DEF q
  <2>5. pc'[r] = next /\ req'[r] = q => Fit(r)'
    BY <1>0, <2>2, <2>3, <2>4 DEF Fit
  <2>6. uploads' \in Nat /\ reads' \in Nat
    BY <1>1 DEF StartRead, TypeInv, TypeOK
  <2> QED BY <1>0, <2>2, <2>4, <2>5, <2>6, AcceptTyped
<1>2. CASE RangeInfo(r)
  <2> DEFINE h == req[r].range
             s == parse_range_header(h, RangeTotal(f))
  <2>1. pc[r] = "info" /\ UNCHANGED <<process, store, issued, owner, spoilt>>
    BY <1>2 DEF RangeInfo
  <2>2. CASE f = None \/ (s = None /\ h.form \in {"multi", "other"})
    <3>1. Continue(r, "row") /\ UNCHANGED <<row, body, span, clean>>
      BY <1>2, <2>2 DEF RangeInfo
    <3> QED BY <1>e, <2>1, <3>1, SameStores
  <2>3. CASE ~(f = None \/ (s = None /\ h.form \in {"multi", "other"}))
    <3>1. RangeTotal(f) \in Nat /\ h \in HeaderRecords
      BY <1>0, <1>a, <2>1, <2>3, SizeAssumption, RequestAssumption DEF RangeTotal, Rows, Fit, Requests
    <3>2. CASE s = None
      <4>1. Answer(r, [Status("416") EXCEPT !.total = RangeTotal(f)])
        BY <1>2, <2>3, <3>2 DEF RangeInfo
      <4> QED BY <1>d, <2>1, <3>1, <4>1, AnswerTyped
    <3>3. CASE s # None
      <4>1. /\ Continue(r, "plain") /\ span' = [span EXCEPT ![r] = s]
            /\ UNCHANGED <<row, body, clean>>
        BY <1>2, <2>3, <3>3 DEF RangeInfo
      <4>2. s \in Spans
        BY <3>1, <3>3, RangeArithmetic
      <4> HIDE DEF s
      <4>3. span'[r] = s
        BY <1>0, <4>1 DEF TypeInv, TypeOK
      <4>4. StoresTyped
        BY <2>1, <4>1, SameStores
      <4>5. pc'[r] = "plain" /\ req'[r] = req[r] => Fit(r)'
        BY <1>0, <2>1, <3>3, <4>3 DEF Fit
      <4> QED BY <1>0, <4>1, <4>2, <4>3, <4>4, <4>5, ContinueTyped DEF PCs
    <3> QED BY <3>2, <3>3
  <2> QED BY <2>2, <2>3
<1>3. CASE PlainRow(r)
  <2>1. PICK g \in Found(req[r].obj) :
          /\ SetMeta(req[r].obj, g)
          /\ \/ Continue(r, "zip") /\ UNCHANGED <<row, clean>>
             \/ Continue(r, "seek") /\ TakeRow(r, g) /\ g # None /\ Overlaps(span[r], g.size)
    BY <1>3 DEF PlainRow, FastRow
  <2>2. /\ pc[r] = "plain" /\ span[r] # None /\ req[r].obj \in Objects
        /\ UNCHANGED <<process, keys, rows, disk, content, issued, body, span, owner, spoilt>>
    BY <1>0, <1>a, <1>3 DEF PlainRow, FastRow, Fit
  <2>3. g \in Rows \union {None} /\ StoresTyped
    BY <1>0, <1>g, <1>h, <2>1, <2>2, LookupTyped
  <2>4. TakeRow(r, g) => row' = [row EXCEPT ![r] = g]
    BY DEF TakeRow
  <2> QED BY <1>e, <1>f, <2>1, <2>2, <2>3, <2>4
<1>4. CASE PlainRead(r)
  <2> DEFINE b == disk[row[r].path]
             len == Wanted(span[r], row[r].size)
  <2>1. pc[r] = "seek" /\ span[r] \in Spans /\ row[r] \in Rows /\ Overlaps(span[r], row[r].size)
    BY <1>0, <1>4 DEF PlainRead, Fit
  <2>2. len \in Nat
    BY <1>c, <2>1, WantedType
  <2>3. CASE b # None /\ span[r].start + len <= Length(b)
    <3>1. Answer(r, Partial(b, span[r], len, row[r].size))
      BY <1>4, <2>3 DEF PlainRead
    <3>2. Partial(b, span[r], len, row[r].size) \in Answers
      BY <1>c, <2>1, <2>2, <2>3, AnswerTyped
    <3> QED BY <1>d, <1>4, <3>1, <3>2 DEF PlainRead
  <2>4. CASE ~(b # None /\ span[r].start + len <= Length(b))
    <3>1. Continue(r, "zip") /\ UNCHANGED <<process, store, issued, ghosts, row, body, span>>
      BY <1>4, <2>4 DEF PlainRead
    <3> QED BY <1>e, <2>1, <3>1, SameStores, DistinctAssumption
  <2> QED BY <2>3, <2>4
<1>5. CASE ZipRow(r)
  <2>1. PICK g \in Found(req[r].obj) :
          /\ SetMeta(req[r].obj, g)
          /\ \/ Continue(r, "row") /\ UNCHANGED <<row, clean>>
             \/ Continue(r, "inflate") /\ TakeRow(r, g) /\ g # None /\ Overlaps(span[r], Size[g.of])
    BY <1>5 DEF ZipRow, FastRow
  <2>2. /\ pc[r] = "zip" /\ span[r] # None /\ req[r].obj \in Objects
        /\ UNCHANGED <<process, keys, rows, disk, content, issued, body, span, owner, spoilt>>
    BY <1>0, <1>a, <1>5 DEF ZipRow, FastRow, Fit
  <2>3. g \in Rows \union {None} /\ StoresTyped
    BY <1>0, <1>g, <1>h, <2>1, <2>2, LookupTyped
  <2>4. TakeRow(r, g) => row' = [row EXCEPT ![r] = g]
    BY DEF TakeRow
  <2> QED BY <1>e, <1>f, <2>1, <2>2, <2>3, <2>4
<1>6. CASE ZipRead(r)
  <2> DEFINE n == Size[row[r].of]
             b == disk[row[r].path]
             len == Wanted(span[r], n)
             got == IF b = None THEN None ELSE decompress_range(b, span[r].start, len)
  <2>1. /\ pc[r] = "inflate" /\ span[r] \in Spans /\ row[r] \in Rows /\ Overlaps(span[r], n)
        /\ UNCHANGED <<process, store, issued, owner, spoilt>>
    BY <1>0, <1>6 DEF ZipRead, Fit
  <2>2. n \in Nat /\ len \in Nat /\ span[r].start \in Nat
    BY <1>c, <2>1, WantedType DEF Spans
  <2>3. CASE got # None
    <3>1. Answer(r, Partial(Plain(b.of), span[r], got, n))
      BY <1>6, <2>3 DEF ZipRead
    <3>2. b \in Bodies /\ got = decompress_range(b, span[r].start, len)
      BY <1>c, <2>1, <2>3
    <3>3. Size[b.of] \in Nat /\ Plain(b.of) \in Bodies
      BY <3>2, SizeAssumption DEF Bodies, Plain
    <3>4. got \in Nat
      BY <2>2, <2>3, <3>2, <3>3 DEF decompress_range, Least
    <3>5. Partial(Plain(b.of), span[r], got, n) \in Answers
      BY <2>1, <2>2, <3>3, <3>4, AnswerTyped
    <3> QED BY <1>d, <2>1, <3>1, <3>5
  <2>4. CASE got = None
    <3>1. Continue(r, "row") /\ UNCHANGED <<process, store, issued, ghosts, row, body, span>>
      BY <1>6, <2>4 DEF ZipRead
    <3> QED BY <1>e, <2>1, <3>1, SameStores
  <2> QED BY <2>3, <2>4
<1>7. CASE FullRow(r)
  <2>1. PICK g \in Found(req[r].obj) :
          /\ SetMeta(req[r].obj, g)
          /\ \/ Answer(r, Status("404"))
             \/ Continue(r, "load") /\ TakeRow(r, g) /\ UNCHANGED <<body, span>> /\ g # None
    BY <1>7 DEF FullRow
  <2>2. /\ pc[r] = "row" /\ req[r].obj \in Objects
        /\ UNCHANGED <<process, keys, rows, disk, content, issued, owner, spoilt>>
    BY <1>a, <1>7 DEF FullRow
  <2>3. CASE Answer(r, Status("404"))
    <3>1. StoresTyped
      BY <1>0, <2>1, <2>2, <2>3, DisturbTyped, LookupTyped DEF Answer
    <3> QED BY <1>0, <1>b, <2>3, <3>1, ReplyTyped DEF Answer, Statuses
  <2>4. CASE Continue(r, "load") /\ TakeRow(r, g) /\ UNCHANGED <<body, span>> /\ g # None
    <3>1. g \in Rows \union {None} /\ StoresTyped
      BY <1>0, <1>g, <2>1, <2>2, <2>4, LookupTyped
    <3> QED BY <1>f, <2>2, <2>4, <3>1 DEF TakeRow
  <2> QED BY <2>1, <2>3, <2>4
<1>8. CASE CachedRead(r) \/ FullRead(r)
  <2> DEFINE o == req[r].obj
  <2>1. pc[r] = "load" /\ row[r] \in Rows /\ o \in Objects
    BY <1>0, <1>a, <1>8 DEF CachedRead, FullRead, Fit
  <2>2. content[o] \in Bodies \union {None} /\ disk[row[r].path] \in Bodies \union {None}
    BY <1>c, <2>1 DEF TypeInv, TypeOK
  <2>3. PICK b \in Bodies :
          /\ b # None /\ body' = [body EXCEPT ![r] = b] /\ Continue(r, "decode")
          /\ content' = [content EXCEPT ![o] = b] \/ UNCHANGED content
    BY <1>8, <2>2 DEF CachedRead, FullRead
  <2>4. UNCHANGED <<process, keys, rows, disk, meta, issued, row, span, owner, spoilt>>
        /\ clean' \in [Tasks -> BOOLEAN]
    BY <1>0, <1>h, <1>8 DEF CachedRead, FullRead
  <2>5. StoresTyped
    <3>1. content' \in [Objects -> Bodies \union {None}]
      BY <2>1, <2>3 DEF TypeInv, TypeOK
    <3> QED BY <2>4, <3>1 DEF StoresTyped, TypeInv, TypeOK
  <2>6. body'[r] = b
    BY <1>0, <2>3 DEF TypeInv, TypeOK
  <2>7. pc'[r] = "decode" /\ req'[r] = req[r] => Fit(r)'
    BY <1>0, <2>1, <2>3, <2>4, <2>6 DEF Fit
  <2> QED BY <1>0, <2>3, <2>4, <2>5, <2>6, <2>7, ContinueTyped DEF PCs
<1>9. CASE SelfHeal(r)
  <2>1. req[r].obj \in Objects /\ delete_file(req[r].obj) /\ Reply(r, Status("404")) /\ Disturb(Tasks)
    BY <1>a, <1>9 DEF SelfHeal, Commit
  <2>2. StoresTyped
    BY <1>9, <2>1, DeleteTyped, DisturbTyped DEF SelfHeal, StoresTyped, TypeInv, TypeOK
  <2> QED BY <1>0, <1>b, <2>1, <2>2, ReplyTyped DEF Statuses
<1>10. CASE Decode(r)
  <2>1. PICK b \in decode_content(row[r], body[r]) :
          Answer(r, IF b = None THEN Status("error") ELSE Served(req[r].range, b))
    BY <1>10 DEF Decode
  <2>2. row[r] \in Rows /\ body[r] \in Bodies /\ req[r].range \in Headers \union {None}
    BY <1>0, <1>10 DEF Decode, Fit, Requests
  <2>3. b \in Bodies \union {None}
    BY <2>1, <2>2, DecodeTyped
  <2>4. (IF b = None THEN Status("error") ELSE Served(req[r].range, b)) \in Answers
    BY <1>b, <2>2, <2>3, ServedTyped DEF Statuses
  <2> QED BY <1>d, <1>10, <2>1, <2>4 DEF Decode
<1> QED BY <1>1, <1>2, <1>3, <1>4, <1>5, <1>6, <1>7, <1>8, <1>9, <1>10 DEF Read

\* The cipher the process starts with, if its configuration asks for one.
LEMMA CipherTyped ==
    ASSUME NEW c \in Configs, NEW n \in Nat
    PROVE  /\ init_cipher(c, n) \in Seals \union {None}
           /\ c.crypto <=> init_cipher(c, n) # None
           /\ c.crypto => init_cipher(c, n).algorithm = c.algorithm
<1>1. c \in ConfigRecords
  BY RequestAssumption
<1> QED BY <1>1, DistinctAssumption DEF init_cipher, Seal, Seals, SealKeys, ConfigRecords

\* Types are kept by every step.
LEMMA TypeStep == ASSUME TypeInv, [Next]_vars PROVE TypeInv'
<1> USE DEF process, store, cache, issued, locals, ghosts
<1>1. CASE UNCHANGED vars
  BY <1>1 DEF vars, TypeInv, TypeOK, Fit
<1>2. ASSUME NEW k \in KeyIds, create_key(k) \/ deactivate_key(k) PROVE TypeInv'
  <2>1. /\ keys' \in [KeyIds -> {"absent", "active", "inactive"}]
        /\ clean' \in [Tasks -> BOOLEAN]
    BY <1>2, DisturbTyped DEF create_key, deactivate_key, TypeInv, TypeOK
  <2>2. UNCHANGED <<config, cipher, restarts, rows, disk, meta, content, uploads, reads, pc, req,
                    row, body, span, owner, spoilt>> /\ out' = NoAnswer
    BY <1>2 DEF create_key, deactivate_key
  <2>3. \A t \in Tasks : Fit(t)'
    BY <2>2 DEF TypeInv, Fit
  <2>4. TypeOK'
    BY <2>1, <2>2, AnswerTyped DEF TypeInv, TypeOK
  <2> QED BY <2>3, <2>4 DEF TypeInv
<1>3. CASE Restart
  <2>1. /\ restarts' \in Nat /\ config' \in Configs /\ cipher' = init_cipher(config', restarts')
        /\ pc' = [t \in Tasks |-> "idle"] /\ req' = [t \in Tasks |-> NoRequest]
        /\ out' = NoAnswer /\ row' = [t \in Tasks |-> None] /\ body' = [t \in Tasks |-> None]
        /\ span' = [t \in Tasks |-> None]
        /\ UNCHANGED <<keys, rows, disk, meta, content, uploads, reads, owner, spoilt>>
    BY <1>3 DEF Restart, TypeInv, TypeOK
  <2>2. cipher' \in Seals \union {None} /\ (config'.crypto <=> cipher' # None)
    BY <2>1, CipherTyped
  <2>3. clean' \in [Tasks -> BOOLEAN]
    BY <1>3, DisturbTyped DEF Restart
  <2>4. \A t \in Tasks : Fit(t)'
    BY <2>1 DEF Fit
  <2>5. TypeOK'
    BY <2>1, <2>2, <2>3, AnswerTyped DEF TypeInv, TypeOK, Tasks
  <2> QED BY <2>4, <2>5 DEF TypeInv
<1>4. CASE Listen
  <2>1. UNCHANGED <<config, cipher, restarts, keys, rows, disk, meta, content, uploads, reads, pc, req,
                    row, body, span, owner, spoilt, clean>> /\ out' = NoAnswer
    BY <1>4 DEF Listen
  <2>2. \A t \in Tasks : Fit(t)'
    BY <2>1 DEF TypeInv, Fit
  <2> QED BY <2>1, <2>2, AnswerTyped DEF TypeInv, TypeOK
<1> QED BY <1>1, <1>2, <1>3, <1>4, UploadTyped, ReadTyped DEF Next

\* The initial state has its types.
LEMMA TypeInit == ASSUME Init PROVE TypeInv
<1>1. cipher \in Seals \union {None} /\ (config.crypto <=> cipher # None)
  BY CipherTyped DEF Init
<1>2. \A t \in Tasks : Fit(t)
  BY DEF Init, Fit
<1>3. TypeOK
  BY <1>1, AnswerTyped DEF Init, TypeOK, Tasks
<1> QED BY <1>2, <1>3 DEF TypeInv

\* Every store, answer and local has its type, and every step of store_file and
\* handle_file_request finds the request, row, range or bytes it dereferences, whatever
\* happened between its awaits; the length a fast path reads never underflows.
THEOREM TypeCorrect == Spec => []TypeOK
<1>1. TypeInv => TypeOK
  BY DEF TypeInv
<1> QED BY <1>1, TypeInit, TypeStep, PTL DEF Spec

-----------------------------------------------------------------------------
(* Undisturbed requests *)

\* An upload that saves its row, or has saved it: the row is of the content that was
\* sent, and unless somebody interfered the bytes are still its own and its key still
\* usable.
Saves(u) ==
    LET o == req[u].obj IN
    pc[u] \in {"save", "warm"} =>
        /\ row[u].of = req[u].of
        /\ clean[u] => KeyAvailable(row[u], disk[o])
        /\ clean[u] /\ pc[u] = "save" => owner[o] = u
        /\ clean[u] /\ pc[u] = "warm" => o \notin spoilt /\ rows[o] = row[u]

\* A read nobody interfered with works with the present row and bytes, and its range
\* is the one its header selects of the decoded content.
Reads(r) ==
    LET o == req[r].obj
        h == req[r].range
        f == rows[o]
    IN  pc[r] # "idle" =>
        /\ req[r].of = None
        /\ clean[r] =>
            /\ o \notin spoilt
            /\ pc[r] \in {"seek", "inflate", "load", "decode"} => row[r] = f
            /\ pc[r] = "decode" => body[r] = disk[f.path]
            /\ pc[r] \in {"plain", "seek", "zip", "inflate"} =>
                 h # None /\ f # None /\ span[r] = parse_range_header(h, Size[f.of])
            /\ pc[r] = "seek" => ~f.is_compressed /\ ~f.is_encrypted
            /\ pc[r] = "inflate" => f.is_compressed /\ ~f.is_encrypted
            /\ pc[r] \in {"row", "load", "decode"} /\ f # None /\ h # None
                 /\ h.form \notin {"multi", "other"} => parse_range_header(h, Size[f.of]) # None

Exact ==
    /\ UploadReadable /\ RangeExact
    /\ \A u \in Uploaders : Saves(u)
    /\ \A r \in Readers : Reads(r)

\* Nobody but t can go on undisturbed if this step of t changed a store.
Isolated(t) ==
    /\ UNCHANGED process
    /\ \A x \in Tasks \ {t} :
         clean'[x] => clean[x] /\ UNCHANGED <<rows, disk, keys, owner, spoilt>>

\* The two ways a step is isolated: it leaves the stores alone, or disturbs the others.
LEMMA IsolatedStep ==
    ASSUME TypeInv, NEW t \in Tasks, UNCHANGED process,
           \/ /\ UNCHANGED <<keys, rows, disk, owner, spoilt>>
              /\ \/ UNCHANGED clean \/ Disturb({t})
                 \/ \E fresh \in BOOLEAN : clean' = [clean EXCEPT ![t] = fresh]
           \/ Disturb(Tasks) \/ Disturb(Tasks \ {t})
    PROVE  Isolated(t)
BY DEF Isolated, Disturb, TypeInv, TypeOK

\* A task that does not step keeps its part, if what changes keeps its keys usable.
LEMMA Apart ==
    ASSUME Exact, NEW x \in Tasks, pc'[x] = pc[x], req'[x] = req[x], row'[x] = row[x],
           body'[x] = body[x], span'[x] = span[x], UNCHANGED process,
           clean'[x] => clean[x] /\ UNCHANGED <<rows, disk, owner, spoilt>>
                        /\ \A k : keys[k] = "active" => keys'[k] = "active"
    PROVE  (x \in Uploaders => Saves(x)') /\ (x \in Readers => Reads(x)')
<1>1. x \in Uploaders => Saves(x)'
  <2> SUFFICES ASSUME x \in Uploaders, pc[x] \in {"save", "warm"} PROVE Saves(x)'
    BY DEF Saves
  <2>1. Saves(x)
    BY DEF Exact
  <2>2. ASSUME clean'[x] PROVE KeyAvailable(row[x], disk[req[x].obj])'
    BY <2>1, <2>2 DEF Saves, KeyAvailable, get_key, process
  <2> QED BY <2>1, <2>2 DEF Saves
<1>2. x \in Readers => Reads(x)'
  <2> SUFFICES ASSUME x \in Readers PROVE Reads(x)'
    OBVIOUS
  <2>1. Reads(x)
    BY DEF Exact
  <2> QED BY <2>1 DEF Reads
<1> QED BY <1>1, <1>2

\* A step of task t.
LEMMA ExactStep ==
    ASSUME TypeInv, Exact, NEW t \in Tasks, LocalsOf(t), Isolated(t),
           UploadReadable', RangeExact',
           t \in Uploaders => Saves(t)', t \in Readers => Reads(t)'
    PROVE  Exact'
<1>1. ASSUME NEW x \in Tasks \ {t}
      PROVE  (x \in Uploaders => Saves(x)') /\ (x \in Readers => Reads(x)')
  <2>1. /\ pc'[x] = pc[x] /\ req'[x] = req[x] /\ row'[x] = row[x] /\ body'[x] = body[x]
        /\ span'[x] = span[x]
    BY DEF LocalsOf, TypeInv, TypeOK
  <2> QED BY <2>1, Apart DEF Isolated
<1> QED BY <1>1 DEF Exact, Tasks

\* A step without an answer.
LEMMA Silent ==
    ASSUME out' = NoAnswer PROVE UploadReadable' /\ RangeExact'
<1>1. out'.status = "none"
  BY DEF NoAnswer
<1> QED BY <1>1 DEF UploadReadable, RangeExact, ReadAnswers

\* What an answer says.
LEMMA ReplyFields ==
    ASSUME TypeInv, NEW t \in Tasks, NEW a \in Answers, Reply(t, a)
    PROVE  /\ out'.status = a.status /\ out'.body = a.body /\ out'.span = a.span
           /\ out'.got = a.got /\ out'.total = a.total
           /\ out'.to = req[t] /\ out'.clean = clean[t]
           /\ LocalsOf(t) /\ pc'[t] = "idle"
<1>1. LocalsOf(t) /\ pc'[t] = "idle"
  BY DEF Reply, LocalsOf, TypeInv, TypeOK
<1>2. req[t] \in Requests /\ clean[t] \in BOOLEAN
  BY DEF TypeInv, TypeOK
<1> QED BY <1>1, <1>2 DEF Reply, Answers

\* The fields of the answers that are made: 416, 200 and 206.
LEMMA RefusedFields ==
    ASSUME NEW n \in Nat
    PROVE  LET a == [Status("416") EXCEPT !.total = n]
           IN  a \in Answers /\ a.status = "416" /\ a.total = n
<1>1. Status("416") \in Answers /\ Status("416").status = "416"
  BY AnswerTyped DEF Statuses
<1>2. \A a \in Answers :
        LET c == [a EXCEPT !.total = n] IN c \in Answers /\ c.status = a.status /\ c.total = n
  BY DEF Answers
<1> QED BY <1>1, <1>2

\* A whole content.
LEMMA WholeFields ==
    ASSUME NEW b \in Bodies, NEW n \in Nat
    PROVE  LET a == [Status("200") EXCEPT !.body = b, !.got = n, !.total = n]
           IN  a \in Answers /\ a.status = "200" /\ a.body = b /\ a.got = n /\ a.total = n
<1>1. Status("200") \in Answers /\ Status("200").status = "200"
  BY AnswerTyped DEF Statuses
<1>2. \A a \in Answers :
        LET c == [a EXCEPT !.body = b, !.got = n, !.total = n]
        IN  c \in Answers /\ c.status = a.status /\ c.body = b /\ c.got = n /\ c.total = n
  BY DEF Answers
<1> QED BY <1>1, <1>2

\* A range.
LEMMA PartialFields ==
    ASSUME NEW b \in Bodies, NEW s \in Spans, NEW got \in Nat, NEW n \in Nat
    PROVE  LET a == Partial(b, s, got, n)
           IN  /\ a \in Answers /\ a.status = "206" /\ a.body = b /\ a.span = s
               /\ a.got = got /\ a.total = n
<1>1. Status("206") \in Answers /\ Status("206").status = "206"
  BY AnswerTyped DEF Statuses
<1>2. \A a \in Answers :
        LET c == [a EXCEPT !.body = b, !.span = s, !.got = got, !.total = n]
        IN  /\ c \in Answers /\ c.status = a.status /\ c.body = b /\ c.span = s
            /\ c.got = got /\ c.total = n
  BY DEF Answers
<1> QED BY <1>1, <1>2 DEF Partial

\* The answer that Expected asks for, as the handler makes it.
Fitting(o, h, a) ==
    LET f == rows[o]
        n == Size[f.of]
    IN  IF f = None THEN a.status = "404"
        ELSE IF h # None /\ h.form \notin {"multi", "other"} /\ Selected(h, n) = {}
             THEN a.status = "416" /\ a.total = n
        ELSE IF ~KeyAvailable(f, disk[f.path]) THEN a.status = "error"
        ELSE /\ a.body = Plain(f.of) /\ a.total = n
             /\ IF h = None \/ h.form \in {"multi", "other"}
                THEN a.status = "200" /\ a.got = n
                ELSE /\ a.status = "206"
                     /\ Selected(h, n) = a.span.start .. a.span.end
                     /\ a.got = a.span.end - a.span.start + 1

\* A malformed header selects nothing.
LEMMA MalformedSelects ==
    ASSUME NEW h \in HeaderRecords, NEW n \in Nat, Malformed(h)
    PROVE  Selected(h, n) = {} /\ h.form \notin {"multi", "other"}
BY DEF Malformed, Selected, HeaderRecords, Pred

\* A read that ends in a fitting answer, or was disturbed.
LEMMA ReadAnswered ==
    ASSUME TypeInv, Exact, NEW r \in Readers, NEW a \in Answers, Answer(r, a),
           UNCHANGED <<process, keys, rows, disk, owner, spoilt>>, a.status # "created",
           req[r].obj \in Objects,
           clean[r] => Fitting(req[r].obj, req[r].range, a)
    PROVE  Exact'
<1>1. r \in Tasks /\ r \notin Uploaders
  BY DistinctAssumption DEF Tasks
<1>2. /\ out'.status = a.status /\ out'.body = a.body /\ out'.span = a.span
      /\ out'.got = a.got /\ out'.total = a.total
      /\ out'.to = req[r] /\ out'.clean = clean[r] /\ LocalsOf(r) /\ pc'[r] = "idle"
  BY <1>1, ReplyFields DEF Answer
<1>3. Isolated(r)
  BY <1>1, IsolatedStep DEF Answer
<1>4. UploadReadable'
  BY <1>2 DEF UploadReadable
<1>5. RangeExact'
  <2> SUFFICES ASSUME clean[r] PROVE Expected(out)'
    BY <1>2 DEF RangeExact
  <2> DEFINE h == req[r].range
             f == rows[req[r].obj]
  <2>1. Fitting(req[r].obj, h, a)
    OBVIOUS
  <2>2. UNCHANGED <<rows, disk, keys, cipher>>
    BY DEF process
  <2>3. (\A g, b : KeyAvailable(g, b)' = KeyAvailable(g, b))
    BY <2>2 DEF KeyAvailable, get_key
  <2>4. f # None /\ h # None /\ Malformed(h) =>
          Selected(h, Size[f.of]) = {} /\ h.form \notin {"multi", "other"}
    <3>1. f # None => Size[f.of] \in Nat
      BY SizeAssumption DEF TypeInv, TypeOK, Rows
    <3>2. h # None => h \in HeaderRecords
      BY <1>1, RequestAssumption DEF TypeInv, TypeOK, Requests
    <3> QED BY <3>1, <3>2, MalformedSelects
  <2>5. Ignored(h) <=> h = None \/ h.form \in {"multi", "other"}
    BY DEF Ignored
  <2> HIDE DEF h, f
  <2> QED BY <1>2, <2>1, <2>2, <2>3, <2>4, <2>5 DEF Expected, Fitting, h, f
<1>6. Reads(r)'
  BY <1>2 DEF Reads
<1> QED BY <1>1, <1>2, <1>3, <1>4, <1>5, <1>6, ExactStep

\* An upload that is answered.
LEMMA UploadAnswered ==
    ASSUME TypeInv, Exact, NEW u \in Uploaders, NEW s \in Statuses, Reply(u, Status(s)),
           req[u].of # None, Isolated(u), s = "created" => UploadReadable'
    PROVE  Exact'
<1>1. u \in Tasks /\ u \notin Readers /\ Status(s) \in Answers /\ Status(s).status = s
  BY DistinctAssumption, AnswerTyped DEF Tasks
<1>2. out'.status = s /\ out'.to = req[u] /\ LocalsOf(u) /\ pc'[u] = "idle"
  BY <1>1, ReplyFields
<1>3. UploadReadable' /\ RangeExact'
  BY <1>2 DEF UploadReadable, RangeExact
<1>4. Saves(u)'
  BY <1>2 DEF Saves
<1> QED BY <1>1, <1>2, <1>3, <1>4, ExactStep

\* The steps of an upload.
LEMMA UploadExact ==
    ASSUME SettledConfigs, TypeInv, Inv, Exact, NEW u \in Uploaders, Upload(u) PROVE Exact'
<1> USE DEF process, store, cache, issued, locals, ghosts
<1>0. /\ u \in Tasks /\ u \notin Readers /\ Saves(u) /\ Uploading(u) /\ StoreType
      /\ pc[u] # "idle" => req[u].of # None
  BY DistinctAssumption DEF Tasks, Exact, Inv, Uploading
<1>1. CASE StartUpload(u)
  <2>1. PICK q : Accept(u, q, "dedup", TRUE)
    BY <1>1 DEF StartUpload
  <2>2. LocalsOf(u) /\ pc'[u] = "dedup" /\ out' = NoAnswer
    BY <1>0, <2>1 DEF Accept, LocalsOf, TypeInv, TypeOK
  <2>3. Isolated(u)
    BY <1>0, <2>1, IsolatedStep DEF Accept
  <2>4. Saves(u)'
    BY <2>2 DEF Saves
  <2> QED BY <1>0, <2>2, <2>3, <2>4, Silent, ExactStep
<1>2. CASE DedupMisses(u)
  <2>1. LocalsOf(u) /\ pc'[u] = "write" /\ out' = NoAnswer
    BY <1>0, <1>2 DEF DedupMisses, Continue, LocalsOf, TypeInv, TypeOK
  <2>2. Isolated(u)
    BY <1>0, <1>2, IsolatedStep DEF DedupMisses
  <2>3. Saves(u)'
    BY <2>1 DEF Saves
  <2> QED BY <1>0, <2>1, <2>2, <2>3, Silent, ExactStep
<1>3. CASE Reuse(u) \/ KeyRefused(u)
  <2>1. PICK s \in {"reused", "error"} : Answer(u, Status(s))
    BY <1>3 DEF Reuse, KeyRefused
  <2>2. Isolated(u)
    BY <1>0, <1>3, <2>1, IsolatedStep DEF Reuse, KeyRefused, Answer
  <2>3. req[u].of # None
    BY <1>0, <1>3 DEF Reuse, KeyRefused
  <2> QED BY <2>1, <2>2, <2>3, UploadAnswered DEF Answer, Statuses
<1>4. CASE Alias(u) \/ PutSaveFails(u)
  <2>1. PICK s \in {"aliased", "error"} : Commit(u, s)
    BY <1>4 DEF Alias, PutSaveFails
  <2>2. Isolated(u)
    BY <1>0, <1>4, <2>1, IsolatedStep DEF Alias, PutSaveFails, Commit
  <2>3. req[u].of # None
    BY <1>0, <1>4 DEF Alias, PutSaveFails
  <2> QED BY <2>1, <2>2, <2>3, UploadAnswered DEF Commit, Statuses
<1>5. CASE PutWrite(u)
  <2> DEFINE o == req[u].obj
             opts == req[u].opts
             b == Encode(req[u].of, opts)
             f == NewRow(u, b)
  <2>1. /\ disk' = [disk EXCEPT ![o] = b] /\ row' = [row EXCEPT ![u] = f]
        /\ owner' = [owner EXCEPT ![o] = u] /\ pc[u] = "write" /\ EncryptionReady(opts)
        /\ Continue(u, "save") /\ Disturb(Tasks \ {u}) /\ body' = [body EXCEPT ![u] = b]
        /\ UNCHANGED <<config, cipher, restarts, keys, rows, span>>
    BY <1>5 DEF PutWrite
  <2>2. o \in Objects /\ req[u].of \in Contents /\ opts \in Options
    BY <1>0, <2>1 DEF Uploading
  <2>3. /\ f.of = req[u].of
        /\ IF ~Encrypts(opts) THEN b.seal = None
           ELSE IF opts.key # None THEN b.seal = Seal(config.algorithm, <<"registered", opts.key>>)
           ELSE IF config.crypto THEN b.seal = cipher
           ELSE b.seal = None
    BY <2>2, EncodeType DEF TypeInv, TypeOK
  <2>4. f.is_encrypted = Encrypts(opts) /\ f.key = opts.key
    BY DEF NewRow
  <2>5. KeyAvailable(f, b)
    BY <2>1, <2>3, <2>4 DEF KeyAvailable, EncryptionReady
  <2> HIDE DEF b, f
  <2>6. /\ LocalsOf(u) /\ pc'[u] = "save" /\ out' = NoAnswer /\ row'[u] = f
        /\ req'[u] = req[u] /\ disk'[o] = b /\ owner'[o] = u
    BY <1>0, <2>1, <2>2 DEF Continue, LocalsOf, TypeInv, TypeOK
  <2>7. Isolated(u)
    BY <1>0, <2>1, IsolatedStep
  <2>8. KeyAvailable(row[u], disk[req[u].obj])'
    BY <2>1, <2>5, <2>6 DEF KeyAvailable, get_key
  <2>9. Saves(u)'
    BY <2>3, <2>6, <2>8 DEF Saves
  <2> QED BY <1>0, <2>6, <2>7, <2>9, Silent, ExactStep
<1>6. CASE PutSave(u)
  <2> DEFINE o == req[u].obj
  <2>1. /\ pc[u] = "save" /\ rows' = [rows EXCEPT ![o] = row[u]]
        /\ spoilt' = IF owner[o] = u THEN spoilt \ {o} ELSE spoilt \union {o}
        /\ Continue(u, "warm") /\ Disturb(Tasks \ {u})
        /\ UNCHANGED <<config, cipher, restarts, keys, disk, row, body, span>>
    BY <1>6 DEF PutSave
  <2>2. o \in Objects
    BY <1>0, <2>1 DEF Uploading
  <2>3. LocalsOf(u) /\ pc'[u] = "warm" /\ req'[u] = req[u] /\ out' = NoAnswer
    BY <1>0, <2>1 DEF Continue, LocalsOf, TypeInv, TypeOK
  <2>4. Isolated(u)
    BY <1>0, <2>1, IsolatedStep
  <2>5. clean'[u] => clean[u]
    BY <1>0, <2>1 DEF Disturb
  <2>6. rows'[o] = row[u]
    BY <2>1, <2>2 DEF TypeInv, TypeOK
  <2>7. clean[u] => KeyAvailable(row[u], disk[o])'
    BY <1>0, <2>1, <2>3 DEF Saves, KeyAvailable, get_key
  <2>8. Saves(u)'
    BY <1>0, <2>1, <2>3, <2>5, <2>6, <2>7 DEF Saves
  <2> QED BY <1>0, <2>3, <2>4, <2>8, Silent, ExactStep
<1>7. CASE Warm(u)
  <2> DEFINE o == req[u].obj
             f == row[u]
             b == disk[o]
  <2>1. /\ pc[u] = "warm" /\ Answer(u, Status("created"))
        /\ UNCHANGED <<config, cipher, restarts, keys, rows, disk, owner, spoilt>>
    BY <1>7 DEF Warm
  <2>2. /\ o \in Objects /\ f \in Rows /\ f.path = o /\ f.of = req[u].of
        /\ clean[u] => o \notin spoilt /\ rows[o] = f /\ KeyAvailable(f, b)
    BY <1>0, <2>1 DEF Uploading, Saves
  <2>3. f # None
    BY <2>2, DistinctAssumption
  <2>4. clean[u] => Matches(f, b, config.crypto)
    BY <2>2, <2>3 DEF Inv, RowsMatch
  <2>5. clean[u] => decode_content(f, b) = {Plain(req[u].of)}
    <3>1. b \in Bodies \union {None}
      BY <2>2 DEF TypeInv, TypeOK
    <3>2. clean[u] => b \in Bodies
      BY <2>4, <3>1 DEF Matches
    <3> QED BY <1>0, <2>2, <2>4, <3>2, MatchesDecodes
  <2>6. Isolated(u)
    BY <1>0, <2>1, IsolatedStep DEF Answer
  <2>7. UploadReadable'
    <3>1. Status("created") \in Answers
      BY AnswerTyped DEF Statuses
    <3>2. out'.to = req[u] /\ out'.clean = clean[u]
      BY <1>0, <2>1, <3>1, ReplyFields DEF Answer
    <3>3. \A g, c : decode_content(g, c)' = decode_content(g, c)
      BY <2>1 DEF decode_content, decrypt, decrypt_with_key, decompress, get_key
    <3>4. \A g, c : g = rows'[o] /\ c = disk'[g.path] /\ clean[u] =>
            decode_content(g, c)' = {Plain(req[u].of)}
      BY <2>1, <2>2, <2>5, <3>3
    <3> QED BY <3>2, <3>4 DEF UploadReadable
  <2> QED BY <1>0, <2>1, <2>6, <2>7, UploadAnswered DEF Answer, Statuses
<1> QED BY <1>1, <1>2, <1>3, <1>4, <1>5, <1>6, <1>7 DEF Upload

\* A read that goes on.
LEMMA ReadContinues ==
    ASSUME TypeInv, Exact, NEW r \in Readers, NEW next, Continue(r, next),
           UNCHANGED <<process, keys, rows, disk, owner, spoilt>>,
           UNCHANGED clean \/ \E fresh \in BOOLEAN : clean' = [clean EXCEPT ![r] = fresh],
           row' = [row EXCEPT ![r] = row'[r]], body' = [body EXCEPT ![r] = body'[r]],
           span' = [span EXCEPT ![r] = span'[r]],
           pc'[r] = next /\ req'[r] = req[r] => Reads(r)'
    PROVE  Exact'
<1>1. r \in Tasks /\ r \notin Uploaders
  BY DistinctAssumption DEF Tasks
<1>2. LocalsOf(r) /\ pc'[r] = next /\ req'[r] = req[r] /\ out' = NoAnswer
  BY <1>1 DEF Continue, LocalsOf, TypeInv, TypeOK
<1>3. Isolated(r)
  BY <1>1, IsolatedStep
<1> QED BY <1>1, <1>2, <1>3, Silent, ExactStep

\* The range of a header lies inside the content: the fast paths cut nothing off.
LEMMA RangeInside ==
    ASSUME NEW h \in HeaderRecords, NEW n \in Nat, parse_range_header(h, n) # None
    PROVE  LET s == parse_range_header(h, n) IN
           /\ s \in Spans /\ Selected(h, n) = s.start .. s.end /\ Selected(h, n) # {}
           /\ Wanted(s, n) = s.end - s.start + 1 /\ s.end - s.start + 1 \in Nat
           /\ s.start < n /\ s.start + Wanted(s, n) <= n
           /\ h.form \notin {"multi", "other"}
<1>1. PICK s : s = parse_range_header(h, n)
  OBVIOUS
<1>2. /\ s \in Spans /\ s.start <= s.end /\ s.end < n /\ Selected(h, n) = s.start .. s.end
      /\ Selected(h, n) # {}
  BY <1>1, RangeArithmetic
<1>3. s.start \in Nat /\ s.end \in Nat
  BY <1>2 DEF Spans
<1>4. Wanted(s, n) = s.end - s.start + 1
  BY <1>2, <1>3 DEF Wanted, ClampedEnd, Least, Pred
<1>5. h.form \notin {"multi", "other"}
  BY DEF parse_range_header
<1> QED BY <1>1, <1>2, <1>3, <1>4, <1>5

\* decompress_range finds all the bytes of a range inside the content.
LEMMA InflatesRange ==
    ASSUME NEW b \in Bodies, b.zip # "none", b.seal = None, NEW start \in Nat, NEW len \in Nat,
           start < Size[b.of], start + len <= Size[b.of]
    PROVE  decompress_range(b, start, len) = len
<1>1. Size[b.of] \in Nat /\ Length(b) # 0
  BY SizeAssumption, LengthType DEF Bodies
<1> QED BY <1>1 DEF decompress_range, Least

\* The steps of a read.
LEMMA ReadExact ==
    ASSUME SettledConfigs, TypeInv, Inv, Exact, NEW r \in Readers, Read(r) PROVE Exact'
<1> USE DEF process, store, cache, issued, locals, ghosts
<1> DEFINE o == req[r].obj
           h == req[r].range
           f == rows[o]
           n == Size[f.of]
           b == disk[f.path]
<1>0. /\ r \in Tasks /\ r \notin Uploaders /\ Reads(r) /\ Fit(r) /\ StoreType /\ req[r] \in Requests
      /\ row = [row EXCEPT ![r] = row[r]] /\ body = [body EXCEPT ![r] = body[r]]
      /\ span = [span EXCEPT ![r] = span[r]]
  BY DistinctAssumption DEF Tasks, Exact, Inv, TypeInv, TypeOK
<1>a. /\ pc[r] # "idle" => o \in Objects /\ f \in Rows \union {None}
      /\ h \in Headers \union {None} /\ (h # None => h \in HeaderRecords)
  BY <1>0, RequestAssumption DEF Fit, Requests, TypeInv, TypeOK
<1>b. pc[r] # "idle" /\ f # None => n \in Nat /\ f \in Rows /\ f.path \in Objects
  BY <1>a, SizeAssumption DEF Rows
<1>c. pc[r] # "idle" /\ f # None /\ clean[r] => Matches(f, b, config.crypto) /\ b \in Bodies
  <2> SUFFICES ASSUME pc[r] # "idle", f # None, clean[r] PROVE Matches(f, b, config.crypto) /\ b \in Bodies
    OBVIOUS
  <2>1. Matches(f, b, config.crypto)
    BY <1>0, <1>a DEF Reads, Inv, RowsMatch
  <2> QED BY <1>b, <2>1 DEF Matches, TypeInv, TypeOK
<1>d. ASSUME NEW next \in {"row", "zip"}, Continue(r, next), pc[r] # "idle",
             UNCHANGED <<process, keys, rows, disk, ghosts, row, body, span>>,
             clean[r] /\ next = "zip" => pc[r] \in {"plain", "seek"},
             clean[r] /\ next = "row" /\ f # None /\ h # None /\ h.form \notin {"multi", "other"}
               => parse_range_header(h, n) # None
      PROVE  Exact'
  <2>1. pc'[r] = next /\ req'[r] = req[r] => Reads(r)'
    BY <1>0, <1>d DEF Reads
  <2> QED BY <1>0, <1>d, <2>1, ReadContinues
<1>e. ASSUME NEW next \in {"seek", "inflate", "load"}, Continue(r, next), pc[r] # "idle",
             UNCHANGED <<process, keys, rows, disk, owner, spoilt, body, span>>,
             NEW g, TakeRow(r, g),
             next = "seek" => ~g.is_compressed /\ ~g.is_encrypted,
             next = "inflate" => g.is_compressed /\ ~g.is_encrypted,
             next \in {"seek", "inflate"} => pc[r] \in {"plain", "zip"},
             next = "load" => pc[r] = "row"
      PROVE  Exact'
  <2>1. /\ row' = [row EXCEPT ![r] = g] /\ row'[r] = g
        /\ clean'[r] => clean[r] /\ g = f
        /\ \E fresh \in BOOLEAN : clean' = [clean EXCEPT ![r] = fresh]
    BY <1>0, <1>e DEF TakeRow, TypeInv, TypeOK
  <2>2. pc'[r] = next /\ req'[r] = req[r] => Reads(r)'
    BY <1>0, <1>e, <2>1 DEF Reads
  <2> QED BY <1>0, <1>e, <2>1, <2>2, ReadContinues
<1>1. CASE StartRead(r)
  <2>1. PICK p \in Objects, g \in Headers \union {None} :
          Accept(r, [NoRequest EXCEPT !.obj = p, !.range = g],
                 IF g = None THEN "row" ELSE "info", p \notin spoilt)
    BY <1>1 DEF StartRead
  <2> DEFINE q == [NoRequest EXCEPT !.obj = p, !.range = g]
  <2>2. q.obj = p /\ q.range = g /\ q.of = None
    BY DEF NoRequest
  <2>3. PICK next \in PCs, fresh \in BOOLEAN :
          /\ next = (IF g = None THEN "row" ELSE "info") /\ (fresh => p \notin spoilt)
          /\ Accept(r, q, next, fresh)
    BY <2>1 DEF PCs
  <2> HIDE DEF q
  <2>4. /\ LocalsOf(r) /\ pc'[r] = next /\ req'[r] = q /\ out' = NoAnswer /\ clean'[r] = fresh
        /\ UNCHANGED <<spoilt, process>>
    BY <1>0, <2>3 DEF Accept, LocalsOf, TypeInv, TypeOK
  <2>5. Isolated(r)
    BY <1>0, <2>3, IsolatedStep DEF Accept
  <2>6. Reads(r)'
    BY <2>2, <2>3, <2>4 DEF Reads
  <2> QED BY <1>0, <2>4, <2>5, <2>6, Silent, ExactStep
<1>2. CASE RangeInfo(r)
  <2> DEFINE s == parse_range_header(h, RangeTotal(f))
  <2>1. pc[r] = "info" /\ UNCHANGED <<process, keys, rows, disk, owner, spoilt>> /\ h # None
    BY <1>0, <1>2 DEF RangeInfo, Fit
  <2>2. CASE f = None \/ (s = None /\ h.form \in {"multi", "other"})
    BY <1>2, <1>d, <2>1, <2>2 DEF RangeInfo
  <2>3. CASE f # None /\ s = None /\ h.form \notin {"multi", "other"}
    <3>1. Answer(r, [Status("416") EXCEPT !.total = n])
      BY <1>2, <2>3 DEF RangeInfo, RangeTotal
    <3>2. Selected(h, n) = {}
      BY <1>a, <1>b, <2>1, <2>3, RangeArithmetic DEF RangeTotal
    <3>3. PICK a \in Answers : /\ a = [Status("416") EXCEPT !.total = n]
                               /\ a.status = "416" /\ a.total = n
      <4>1. n \in Nat
        BY <1>b, <2>1, <2>3
      <4> QED BY <4>1, RefusedFields
    <3>4. Fitting(o, h, a)
      BY <2>1, <2>3, <3>2, <3>3 DEF Fitting
    <3> QED BY <2>1, <3>1, <3>3, <3>4, <1>a, ReadAnswered
  <2>4. CASE f # None /\ s # None
    <3>1. Continue(r, "plain") /\ span' = [span EXCEPT ![r] = s] /\ UNCHANGED <<row, body, clean>>
      BY <1>2, <2>4 DEF RangeInfo
    <3>2. span'[r] = s
      BY <1>0, <3>1 DEF TypeInv, TypeOK
    <3>3. pc'[r] = "plain" /\ req'[r] = req[r] => Reads(r)'
      BY <1>0, <2>1, <2>4, <3>1, <3>2 DEF Reads, RangeTotal
    <3> QED BY <1>0, <2>1, <3>1, <3>2, <3>3, ReadContinues
  <2> QED BY <2>2, <2>3, <2>4
<1>3. CASE PlainRow(r) \/ ZipRow(r)
  <2>1. /\ pc[r] \in {"plain", "zip"} /\ span[r] # None
        /\ UNCHANGED <<process, keys, rows, disk, body, span, owner, spoilt>>
    BY <1>0, <1>3 DEF PlainRow, ZipRow, FastRow, Fit
  <2>2. clean[r] => parse_range_header(h, n) # None
    BY <1>0, <2>1 DEF Reads
  <2>3. CASE PlainRow(r)
    <3>1. PICK g \in Found(o) :
            \/ Continue(r, "zip") /\ UNCHANGED <<row, clean>>
            \/ Continue(r, "seek") /\ TakeRow(r, g) /\ ~g.is_compressed /\ ~g.is_encrypted
      BY <2>3 DEF PlainRow, FastRow
    <3>2. pc[r] = "plain"
      BY <2>3 DEF PlainRow
    <3> QED BY <1>d, <1>e, <2>1, <2>2, <3>1, <3>2
  <2>4. CASE ZipRow(r)
    <3>1. PICK g \in Found(o) :
            \/ Continue(r, "row") /\ UNCHANGED <<row, clean>>
            \/ Continue(r, "inflate") /\ TakeRow(r, g) /\ g.is_compressed /\ ~g.is_encrypted
      BY <2>4 DEF ZipRow, FastRow
    <3>2. pc[r] = "zip"
      BY <2>4 DEF ZipRow
    <3> QED BY <1>d, <1>e, <2>1, <2>2, <3>1, <3>2
  <2> QED BY <1>3, <2>3, <2>4
<1>4. ASSUME pc[r] \in {"seek", "inflate"}, clean[r]
      PROVE  /\ row[r] = f /\ f # None /\ h # None /\ span[r] = parse_range_header(h, n)
             /\ span[r] \in Spans /\ Selected(h, n) = span[r].start .. span[r].end
             /\ Selected(h, n) # {} /\ h.form \notin {"multi", "other"}
             /\ Wanted(span[r], n) = span[r].end - span[r].start + 1
             /\ span[r].end - span[r].start + 1 \in Nat
             /\ span[r].start < n /\ span[r].start + Wanted(span[r], n) <= n
             /\ KeyAvailable(f, b) /\ b.seal = None /\ b.of = f.of /\ n \in Nat /\ b \in Bodies
  <2>1. row[r] = f /\ f # None /\ h # None /\ span[r] = parse_range_header(h, n) /\ ~f.is_encrypted
    BY <1>0, <1>4 DEF Reads
  <2>2. span[r] # None /\ h \in HeaderRecords /\ n \in Nat
    BY <1>0, <1>a, <1>b, <1>4, <2>1 DEF Fit
  <2>3. KeyAvailable(f, b) /\ b.seal = None /\ b.of = f.of /\ b \in Bodies
    BY <1>c, <1>4, <2>1 DEF Matches, KeyAvailable
  <2> QED BY <2>1, <2>2, <2>3, RangeInside

<1>5. CASE PlainRead(r)
  <2> DEFINE d == disk[row[r].path]
             len == Wanted(span[r], row[r].size)
             a == Partial(d, span[r], len, row[r].size)
  <2>1. /\ pc[r] = "seek" /\ UNCHANGED <<process, keys, rows, disk, owner, spoilt>>
        /\ span[r] \in Spans /\ row[r] \in Rows /\ Overlaps(span[r], row[r].size)
    BY <1>0, <1>5 DEF PlainRead, Fit, TypeInv, TypeOK
  <2>2. CASE d # None /\ span[r].start + len <= Length(d)
    <3>1. Answer(r, a)
      BY <1>5, <2>2 DEF PlainRead
    <3>2. row[r].size \in Nat /\ len \in Nat /\ d \in Bodies
      BY <2>1, <2>2, WantedType DEF Rows, TypeInv, TypeOK
    <3>3. /\ a \in Answers /\ a.status = "206" /\ a.body = d /\ a.span = span[r]
          /\ a.got = len /\ a.total = row[r].size
      BY <2>1, <3>2, PartialFields
    <3>4. ASSUME clean[r] PROVE Fitting(o, h, a)
      <4>1. d = b /\ b.zip = "none"
        BY <1>0, <1>4, <1>c, <2>1, <3>4 DEF Reads, Matches
      <4>2. b = Plain(f.of) /\ f.size = n
        BY <1>4, <1>c, <2>1, <3>4, <4>1, LengthType DEF Matches
      <4> HIDE DEF a, d, len
      <4> QED BY <1>4, <2>1, <3>3, <3>4, <4>1, <4>2 DEF Fitting, len
    <3> HIDE DEF a
    <3> QED BY <2>1, <3>1, <3>3, <3>4, <1>a, ReadAnswered
  <2>3. CASE ~(d # None /\ span[r].start + len <= Length(d))
    <3>1. Continue(r, "zip") /\ UNCHANGED <<clean, row, body, span>>
      BY <1>5, <2>3 DEF PlainRead
    <3> QED BY <1>d, <2>1, <3>1
  <2> QED BY <2>2, <2>3
<1>6. CASE ZipRead(r)
  <2> DEFINE m == Size[row[r].of]
             d == disk[row[r].path]
             len == Wanted(span[r], m)
             got == IF d = None THEN None ELSE decompress_range(d, span[r].start, len)
             a == Partial(Plain(d.of), span[r], got, m)
  <2>1. /\ pc[r] = "inflate" /\ UNCHANGED <<process, keys, rows, disk, owner, spoilt>>
        /\ span[r] \in Spans /\ row[r] \in Rows /\ Overlaps(span[r], m)
    BY <1>0, <1>6 DEF ZipRead, Fit, TypeInv, TypeOK
  <2>2. CASE got # None
    <3>1. Answer(r, a)
      BY <1>6, <2>2 DEF ZipRead
    <3>2. m \in Nat /\ d \in Bodies
      BY <2>1, <2>2, SizeAssumption DEF Rows, TypeInv, TypeOK
    <3>3. len \in Nat /\ span[r].start \in Nat
      BY <2>1, <3>2, WantedType DEF Spans
    <3>4. Size[d.of] \in Nat /\ Plain(d.of) \in Bodies
      BY <3>2, SizeAssumption DEF Bodies, Plain
    <3>5. got \in Nat
      BY <2>2, <3>2, <3>3, <3>4 DEF decompress_range, Least
    <3>6. /\ a \in Answers /\ a.status = "206" /\ a.body = Plain(d.of) /\ a.span = span[r]
          /\ a.got = got /\ a.total = m
      <4> HIDE DEF got
      <4> QED BY <2>1, <3>2, <3>4, <3>5, PartialFields
    <3>7. ASSUME clean[r] PROVE Fitting(o, h, a)
      <4>1. d = b /\ m = n /\ b.zip # "none" /\ Length(b) # 0
        BY <1>0, <1>4, <1>c, <2>1, <3>7, LengthType DEF Reads, Matches
      <4>2. got = len
        <5>1. len \in Nat /\ span[r].start < Size[b.of] /\ span[r].start + len <= Size[b.of]
          BY <1>4, <2>1, <3>3, <3>7, <4>1
        <5>2. decompress_range(b, span[r].start, len) = len
          BY <1>4, <2>1, <3>3, <3>7, <4>1, <5>1, InflatesRange
        <5> QED BY <2>2, <4>1, <5>2
      <4> HIDE DEF a, d, got, len, m
      <4> QED BY <1>4, <2>1, <3>6, <3>7, <4>1, <4>2 DEF Fitting, len
    <3> HIDE DEF a
    <3> QED BY <2>1, <3>1, <3>6, <3>7, <1>a, ReadAnswered
  <2>3. CASE got = None
    <3>1. Continue(r, "row") /\ UNCHANGED <<clean, row, body, span>>
      BY <1>6, <2>3 DEF ZipRead
    <3>2. clean[r] => parse_range_header(h, n) # None
      BY <1>0, <2>1 DEF Reads, Fit
    <3> QED BY <1>d, <2>1, <3>1, <3>2
  <2> QED BY <2>2, <2>3
<1>7. CASE FullRow(r)
  <2>1. PICK g \in Found(o) :
          \/ g = None /\ Answer(r, Status("404"))
          \/ Continue(r, "load") /\ TakeRow(r, g) /\ UNCHANGED <<body, span>>
    BY <1>7 DEF FullRow
  <2>2. pc[r] = "row" /\ UNCHANGED <<process, keys, rows, disk, owner, spoilt>>
    BY <1>7 DEF FullRow
  <2>3. CASE g = None /\ Answer(r, Status("404"))
    <3>1. Status("404") \in Answers /\ Status("404").status = "404"
      BY AnswerTyped DEF Statuses
    <3>2. f = None
      BY <2>3 DEF Found
    <3>3. Fitting(o, h, Status("404"))
      BY <3>1, <3>2 DEF Fitting
    <3> QED BY <2>2, <2>3, <3>1, <3>3, <1>a, ReadAnswered
  <2>4. CASE Continue(r, "load") /\ TakeRow(r, g) /\ UNCHANGED <<body, span>>
    BY <1>e, <2>2, <2>4
  <2> QED BY <2>1, <2>3, <2>4
<1>8. CASE CachedRead(r) \/ FullRead(r)
  <2>1. /\ pc[r] = "load" /\ Continue(r, "decode")
        /\ UNCHANGED <<process, keys, rows, disk, row, span, owner, spoilt>>
    BY <1>8 DEF CachedRead, FullRead
  <2>2. PICK x :
          /\ body' = [body EXCEPT ![r] = x]
          /\ \/ UNCHANGED clean /\ x = disk[row[r].path]
             \/ clean' = [clean EXCEPT ![r] = clean[r] /\ x = disk[row[r].path]]
    BY <1>8 DEF CachedRead, FullRead
  <2>3. /\ body'[r] = x /\ (clean'[r] => clean[r] /\ x = disk[row[r].path])
        /\ UNCHANGED clean \/ \E fresh \in BOOLEAN : clean' = [clean EXCEPT ![r] = fresh]
    BY <1>0, <2>2 DEF TypeInv, TypeOK
  <2>4. pc'[r] = "decode" /\ req'[r] = req[r] => Reads(r)'
    BY <1>0, <2>1, <2>3 DEF Reads
  <2> QED BY <1>0, <2>1, <2>2, <2>3, <2>4, ReadContinues
<1>9. CASE SelfHeal(r)
  <2>1. pc[r] = "load" /\ disk[row[r].path] = None /\ Commit(r, "404") /\ UNCHANGED process
    BY <1>9 DEF SelfHeal
  <2>2. ~clean[r]
    BY <1>0, <1>c, <2>1, DistinctAssumption DEF Reads, Fit
  <2>3. Status("404") \in Answers /\ Status("404").status = "404"
    BY AnswerTyped DEF Statuses
  <2>4. /\ out'.status = "404" /\ out'.clean = clean[r] /\ LocalsOf(r) /\ pc'[r] = "idle"
    BY <1>0, <2>1, <2>3, ReplyFields DEF Commit
  <2>5. Isolated(r)
    BY <1>0, <2>1, IsolatedStep DEF Commit
  <2>6. UploadReadable' /\ RangeExact'
    BY <2>2, <2>4 DEF UploadReadable, RangeExact
  <2>7. Reads(r)'
    BY <2>4 DEF Reads
  <2> QED BY <1>0, <2>4, <2>5, <2>6, <2>7, ExactStep
<1>10. CASE Decode(r)
  <2>1. PICK x \in decode_content(row[r], body[r]) :
          Answer(r, IF x = None THEN Status("error") ELSE Served(h, x))
    BY <1>10 DEF Decode
  <2>2. /\ pc[r] = "decode" /\ row[r] \in Rows /\ body[r] \in Bodies
        /\ UNCHANGED <<process, keys, rows, disk, owner, spoilt>>
    BY <1>0, <1>10 DEF Decode, Fit, TypeInv, TypeOK
  <2>3. x \in Bodies \union {None}
    BY <2>1, <2>2, DecodeTyped
  <2>4. Status("error") \in Answers /\ Status("error").status = "error"
    BY AnswerTyped DEF Statuses
  <2>5. ASSUME clean[r]
        PROVE  /\ f # None /\ f \in Rows /\ n \in Nat
               /\ h # None /\ h.form \notin {"multi", "other"} => parse_range_header(h, n) # None
               /\ x = IF KeyAvailable(f, b) THEN Plain(f.of) ELSE None
    <3>1. row[r] = f /\ body[r] = b /\ f # None
      BY <1>0, <2>2, <2>5 DEF Reads, Fit
    <3>2. decode_content(f, b) = IF KeyAvailable(f, b) THEN {Plain(f.of)} ELSE {None}
      BY <1>0, <1>c, <2>2, <2>5, <3>1, MatchesDecodes
    <3> QED BY <1>0, <1>b, <2>1, <2>2, <2>5, <3>1, <3>2 DEF Reads
  <2>6. h # None /\ h.form \notin {"multi", "other"} /\ clean[r] => Selected(h, n) # {}
    BY <1>a, <2>5, RangeInside
  <2>7. CASE x = None
    <3>1. ASSUME clean[r] PROVE Fitting(o, h, Status("error"))
      <4>1. ~KeyAvailable(f, b)
        BY <2>5, <2>7, <3>1, DistinctAssumption DEF Plain, Bodies, Rows
      <4> QED BY <2>4, <2>5, <2>6, <3>1, <4>1 DEF Fitting
    <3> QED BY <2>1, <2>2, <2>4, <2>7, <3>1, <1>a, ReadAnswered
  <2>8. CASE x # None
    <3>1. Answer(r, Served(h, x)) /\ x \in Bodies /\ Served(h, x) \in Answers
      BY <1>a, <2>1, <2>3, <2>8, ServedTyped
    <3>2. Served(h, x).status # "created" /\ (clean[r] => Fitting(o, h, Served(h, x)))
      <4> DEFINE k == Length(x)
                 s == IF h = None THEN None ELSE parse_range_header(h, k)
      <4>1. k \in Nat
        BY <3>1, LengthType
      <4>2. ASSUME clean[r] PROVE KeyAvailable(f, b) /\ x = Plain(f.of) /\ k = n
        <5>1. KeyAvailable(f, b) /\ x = Plain(f.of)
          BY <2>5, <2>8, <4>2
        <5>2. x.zip = "none" /\ x.seal = None /\ x.of = f.of
          BY <5>1 DEF Plain
        <5> QED BY <3>1, <5>1, <5>2, LengthType
      <4>3. CASE s = None
        <5>1. Served(h, x) = [Status("200") EXCEPT !.body = x, !.got = k, !.total = k]
          BY <4>3 DEF Served
        <5>2. PICK a \in Answers : /\ a = Served(h, x) /\ a.status = "200" /\ a.body = x
                                   /\ a.got = k /\ a.total = k
          <6> HIDE DEF k
          <6>1. LET a == [Status("200") EXCEPT !.body = x, !.got = k, !.total = k]
                IN  a \in Answers /\ a.status = "200" /\ a.body = x /\ a.got = k /\ a.total = k
            BY <3>1, <4>1, WholeFields
          <6> QED BY <5>1, <6>1
        <5>3. clean[r] => h = None \/ h.form \in {"multi", "other"}
          BY <2>5, <4>2, <4>3
        <5> HIDE DEF k, s
        <5> QED BY <2>5, <2>6, <4>2, <5>2, <5>3 DEF Fitting
      <4>4. CASE s # None
        <5>1. /\ s \in Spans /\ Selected(h, k) = s.start .. s.end /\ Selected(h, k) # {}
              /\ s.end - s.start + 1 \in Nat /\ h # None /\ h.form \notin {"multi", "other"}
          BY <1>a, <4>1, <4>4, RangeInside
        <5>2. PICK got \in Nat : got = s.end - s.start + 1
          BY <5>1
        <5>3. Served(h, x) = Partial(x, s, got, k)
          BY <4>4, <5>2 DEF Served
        <5> HIDE DEF k, s
        <5>4. PICK a \in Answers : /\ a = Served(h, x) /\ a.status = "206" /\ a.body = x
                                   /\ a.span = s /\ a.got = got /\ a.total = k
          BY <3>1, <4>1, <5>1, <5>3, PartialFields
        <5> QED BY <2>5, <4>2, <5>1, <5>2, <5>4 DEF Fitting
      <4> QED BY <4>3, <4>4
    <3> QED BY <2>2, <3>1, <3>2, <1>a, ReadAnswered
  <2> QED BY <2>7, <2>8
<1> QED BY <1>1, <1>2, <1>3, <1>5, <1>6, <1>7, <1>8, <1>9, <1>10 DEF Read

\* Every step keeps it.
LEMMA ExactKept ==
    ASSUME SettledConfigs, TypeInv, Inv, Exact, [Next]_vars PROVE Exact'
<1> USE DEF process, store, cache, issued, locals, ghosts
<1>1. CASE UNCHANGED vars
  <2>1. UNCHANGED <<config, cipher, keys, rows, disk, pc, req, out, row, body, span, owner, spoilt, clean>>
    BY <1>1 DEF vars
  <2>2. UploadReadable' /\ RangeExact'
    BY <2>1 DEF Exact, UploadReadable, RangeExact, Expected, decode_content, decrypt,
                decrypt_with_key, decompress, get_key, KeyAvailable
  <2>3. UNCHANGED process
    BY <1>1 DEF vars
  <2> QED BY <2>1, <2>2, <2>3, Apart DEF Exact, Tasks
<1>2. ASSUME NEW k \in KeyIds, create_key(k) \/ deactivate_key(k) PROVE Exact'
  <2>1. /\ UNCHANGED <<config, cipher, restarts, rows, disk, pc, req, row, body, span, owner, spoilt>>
        /\ out' = NoAnswer
    BY <1>2 DEF create_key, deactivate_key
  <2>2. CASE create_key(k)
    <3>1. clean' = clean /\ \A x : keys[x] = "active" => keys'[x] = "active"
      BY <2>2 DEF create_key, TypeInv, TypeOK
    <3> QED BY <2>1, <3>1, Silent, Apart DEF Exact, Tasks
  <2>3. CASE deactivate_key(k)
    <3>1. \A x \in Tasks : ~clean'[x]
      BY <2>3 DEF deactivate_key, Disturb
    <3> QED BY <2>1, <3>1, Silent, Apart DEF Exact, Tasks
  <2> QED BY <1>2, <2>2, <2>3
<1>3. CASE Restart
  <2>1. out' = NoAnswer /\ pc' = [t \in Tasks |-> "idle"]
    BY <1>3 DEF Restart
  <2> QED BY <2>1, Silent DEF Exact, Saves, Reads, Tasks
<1>4. CASE Listen
  <2>1. /\ UNCHANGED <<config, cipher, restarts, keys, rows, disk, pc, req, row, body, span, owner,
                       spoilt, clean>>
        /\ out' = NoAnswer
    BY <1>4 DEF Listen
  <2> QED BY <2>1, Silent, Apart DEF Exact, Tasks
<1> QED BY <1>1, <1>2, <1>3, <1>4, UploadExact, ReadExact DEF Next

\* Every behaviour keeps it.
LEMMA ExactAlways == ASSUME SettledConfigs PROVE Spec => []Exact
<1>1. Init => Exact
  <2> SUFFICES ASSUME Init PROVE Exact
    OBVIOUS
  <2>1. out.status = "none" /\ \A t \in Tasks : pc[t] = "idle"
    BY DEF Init, NoAnswer
  <2> QED BY <2>1 DEF Exact, UploadReadable, RangeExact, ReadAnswers, Saves, Reads, Tasks
<1>2. TypeInv /\ Inv /\ Exact /\ [Next]_vars => Exact'
  BY ExactKept
<1> QED BY <1>1, <1>2, TypeInit, TypeStep, InvInit, InvStep, PTL DEF Spec

\* An upload that nobody interfered with can be read back when store_file returns: the
\* key it was sealed with was active when the bytes were written, and still is.
THEOREM UploadsAreReadable ==
    ASSUME SettledConfigs
    PROVE  Spec => []UploadReadable
<1>1. Exact => UploadReadable
  BY DEF Exact
<1> QED BY <1>1, ExactAlways, PTL

\* A read that nobody interfered with, and that found nothing out of date in the cache, is
\* answered with exactly the bytes its Range header selects of the uploaded content,
\* whichever of the three read paths served it and whether its row and bytes came from
\* the cache or from the table and the disk, for every content size, compressed size,
\* header, key and configuration.
THEOREM RangesAreExact ==
    ASSUME SettledConfigs
    PROVE  Spec => []RangeExact
<1>1. Exact => RangeExact
  BY DEF Exact
<1> QED BY <1>1, ExactAlways, PTL

=============================================================================
