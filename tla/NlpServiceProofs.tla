----------------------------- MODULE NlpServiceProofs -----------------------------
(***************************************************************************)
(* Two parts of the NLP service's process that share nothing but its       *)
(* request threads, each for any number of them: the index of expressions  *)
(* (MweIndexCache) and the llama-server it manages (LlamaRuntime).         *)
(***************************************************************************)
EXTENDS MweIndexCache, LlamaRuntime, TLAPS

-----------------------------------------------------------------------------
(***************************************************************************)
(* What the version check of MweIndexProvider is worth, for any number of  *)
(* parses, expressions and requests: types, CurrentVersionMeansCurrentRows *)
(* and AcknowledgedIsVisible.                                              *)
(*                                                                         *)
(* Neither property is inductive: both speak of the index, and what goes   *)
(* into an index is a version and two lots of rows that a reader took from *)
(* the snapshot cache at three moments.  The argument is about what an     *)
(* answer of the service is worth while it lies in the cache (Sound):      *)
(* unless the store changed while it was read, it has the rows of its      *)
(* version, everything that was acknowledged, and a version no reader has  *)
(* outrun.  Rows wait under the lock, which the invalidation needs too, so *)
(* nothing is acknowledged between loading rows and building the index.    *)
(***************************************************************************)

Beyond == {"locking", "expressions", "senses"}

Payload == [tables : TableContents, torn : BOOLEAN]

(* TypeOK, and the parts of it that depend on the contents of an answer.   *)
Typed ==
    /\ TypeOK
    /\ fetch = [r \in Readers |-> fetch[r]]
    /\ \A r \in Readers : fetch[r] # None =>
         /\ fetch[r] = [t \in DOMAIN fetch[r] |-> fetch[r][t]]
         /\ \A t \in RowTables \intersect DOMAIN fetch[r] :
              fetch[r][t] \in SUBSET Occurrences

(* How far an upsert is says what is in the store. *)
Written ==
    /\ \A w \in Occurrences :
         /\ request[w] \in {"written", "bumped"} => w \in store[upsert[w].table]
         /\ upsert[w].at = "invalidating" => request[w] = "bumped"
         /\ upsert[w].table = "mwe_senses" => w \in store.mwe_expressions
         /\ upsert[w].at = "done" =>
              upsert[w].table = "mwe_senses" /\ w \in store.mwe_senses
    /\ store.mwe_senses \subseteq store.mwe_expressions

LockHeld == \A r \in Readers : rpc[r] \in {"expressions", "senses"} => lock = r

(* An answer that is being read and is not torn is the store so far. *)
Untorn ==
    \A r \in Readers : fetch[r] # None =>
        /\ ~torn[r] => \A t \in DOMAIN fetch[r] : fetch[r][t] = store[t]
        /\ "mwe_meta" \in DOMAIN fetch[r] => fetch[r].mwe_meta <= store.mwe_meta

(* The third pass has the answer of the upsert, or a later one. *)
Told(t) ==
    Acknowledged[t] \union
    {w \in Occurrences : upsert[w].at = "invalidating" /\ upsert[w].table = t}

SameRows(tables) == \A t \in RowTables : tables[t] = store[t]

(* What an answer of the service is worth in the cache. *)
Sound(s) ==
    /\ s \in Payload
    /\ s.tables.mwe_meta <= store.mwe_meta
    /\ ~s.torn =>
         /\ \A t \in RowTables : Told(t) \subseteq s.tables[t]
         /\ s.tables.mwe_meta = store.mwe_meta => unlabelled \/ SameRows(s.tables)
         /\ \A r \in Readers : rpc[r] \in Beyond => label[r] <= s.tables.mwe_meta

CacheSound == cache # None => Sound(cache)

(* What a reader holds, and knows to be acknowledged. *)
HeldSound ==
    \A r \in Readers :
        /\ label[r] <= store.mwe_meta
        /\ \A t \in RowTables : acked[r][t] \subseteq Acknowledged[t]
        /\ rpc[r] = "senses" /\ ~rows[r].torn =>
             /\ Acknowledged["mwe_expressions"] \subseteq rows[r].known
             /\ label[r] = store.mwe_meta =>
                  unlabelled \/ rows[r].known = store.mwe_expressions

IndexSound ==
    index # None =>
        /\ index.version <= store.mwe_meta
        /\ ~index.torn => \A t \in RowTables : Acknowledged[t] \subseteq index[t]
        /\ CurrentVersionMeansCurrentRows

CacheInv ==
    Typed /\ Written /\ LockHeld /\ Untorn /\ CacheSound /\ HeldSound /\ IndexSound

-----------------------------------------------------------------------------
(* The two halves of Acknowledged. *)
LEMMA AckedParts ==
    /\ Acknowledged["mwe_expressions"] =
         {w \in Occurrences : upsert[w].table = "mwe_senses"}
    /\ Acknowledged["mwe_senses"] = {w \in Occurrences : upsert[w].at = "done"}
BY DEF Acknowledged

(* What the third pass was told of is in the store. *)
LEMMA ToldIsStored ==
    ASSUME Typed, Written, NEW t \in RowTables
    PROVE  Told(t) \subseteq store[t]
BY AckedParts DEF Typed, TypeOK, Written, Told, RowTables

(* The initial state: nothing is cached, indexed or acknowledged. *)
LEMMA CacheInit == Init => CacheInv
<1> SUFFICES ASSUME Init PROVE CacheInv
    OBVIOUS
<1>1. Typed
    <2>1. /\ store \in TableContents
          /\ rpc \in [Readers -> Loading \union {"idle", "locking"}]
          /\ reads \in 0..MaxReads /\ label \in [Readers -> Nat]
          /\ rows \in [Readers -> [known : SUBSET Occurrences, torn : BOOLEAN]]
          /\ lock \in Readers \union {None}
        BY MaxReadsAssumption DEF Init, TableContents, NoRows
    <2>2. /\ upsert \in [Occurrences -> [table : RowTables,
                at : {"ready", "waiting", "invalidating", "done", "failed"}]]
          /\ request \in [Occurrences -> {"none", "sent", "written", "bumped", "dropped"}]
          /\ torn \in [Readers -> BOOLEAN] /\ unlabelled \in BOOLEAN
        BY DEF Init, RowTables
    <2>3. NothingAcked \in [RowTables -> SUBSET Occurrences]
        BY DEF NothingAcked, RowTables
    <2>4. acked \in [Readers -> [RowTables -> SUBSET Occurrences]]
        BY <2>3 DEF Init
    <2>5. fetch = [r \in Readers |-> None] /\ cache = None /\ index = None
        BY DEF Init
    <2> QED
        BY <2>1, <2>2, <2>4, <2>5 DEF Typed, TypeOK
<1>2. Written /\ LockHeld /\ Untorn
    BY DEF Init, Written, LockHeld, Untorn
<1>3. CacheSound /\ IndexSound
    BY DEF Init, CacheSound, IndexSound
<1>4. HeldSound
    <2>1. \A t \in RowTables : NothingAcked[t] = {}
        BY DEF NothingAcked, RowTables
    <2>2. store.mwe_meta = 0 /\ \A r \in Readers : label[r] = 0 /\ rpc[r] = "idle"
        BY DEF Init
    <2>3. \A r \in Readers : acked[r] = NothingAcked
        BY DEF Init
    <2>4. \A r \in Readers : label[r] <= store.mwe_meta
        <3>1. \A m, n : m = 0 /\ n = 0 => m <= n
            OBVIOUS
        <3> QED
            BY <2>2, <3>1
    <2>5. \A r \in Readers, t \in RowTables : acked[r][t] \subseteq Acknowledged[t]
        BY <2>1, <2>3
    <2> QED
        BY <2>2, <2>4, <2>5 DEF HeldSound
<1> QED
    BY <1>1, <1>2, <1>3, <1>4 DEF CacheInv

(* What get_snapshot is given is sound, from the cache or from the service.*)
LEMMA SnapshotIsSound ==
    ASSUME CacheInv, NEW r \in Readers, HasSnapshot(r)
    PROVE  Sound(Snapshot(r))
<1>1. CASE fetch[r] = None
    BY <1>1 DEF HasSnapshot, Snapshot, CacheInv, CacheSound
<1>2. CASE fetch[r] # None
    <2>1. DOMAIN fetch[r] = Tables /\ Snapshot(r) = [tables |-> fetch[r], torn |-> torn[r]]
        BY <1>2 DEF HasSnapshot, Snapshot
    <2>2. fetch[r] \in TableContents
        <3>1. Typed /\ TypeOK
            BY DEF CacheInv, Typed
        <3> QED
            BY <1>2, <2>1, <3>1 DEF Typed, TypeOK, Tables, RowTables, TableContents
    <2>3. Snapshot(r) \in Payload /\ fetch[r].mwe_meta <= store.mwe_meta
        BY <1>2, <2>1, <2>2 DEF Payload, CacheInv, Typed, TypeOK, Untorn, Tables
    <2>4. ~torn[r] => \A t \in Tables : fetch[r][t] = store[t]
        BY <1>2, <2>1 DEF CacheInv, Untorn
    <2>5. ~torn[r] => \A t \in RowTables : Told(t) \subseteq fetch[r][t]
        BY <2>4, ToldIsStored DEF CacheInv, Tables
    <2>6. ~torn[r] => SameRows(fetch[r])
        BY <2>4 DEF SameRows, Tables
    <2>7. ~torn[r] => \A q \in Readers : label[q] <= fetch[r].mwe_meta
        BY <2>4 DEF CacheInv, HeldSound, Tables
    <2> QED
        BY <2>1, <2>3, <2>5, <2>6, <2>7 DEF Sound
<1> QED
    BY <1>1, <1>2

-----------------------------------------------------------------------------
(* Statements of the service                                               *)

(* Of one table the statement writes, the rest stays as it is.             *)
LEMMA TableWritten ==
    ASSUME store \in TableContents, NEW t \in RowTables, NEW w \in Occurrences,
           store' = [store EXCEPT ![t] = @ \union {w}]
    PROVE  /\ store' \in TableContents
           /\ store'.mwe_meta = store.mwe_meta
           /\ store'[t] = store[t] \union {w}
           /\ \A u \in RowTables \ {t} : store'[u] = store[u]
BY DEF TableContents, RowTables

LEMMA VersionRaised ==
    ASSUME store \in TableContents, store' = [store EXCEPT !.mwe_meta = @ + 1]
    PROVE  /\ store' \in TableContents
           /\ store'.mwe_meta = store.mwe_meta + 1 /\ store.mwe_meta \in Nat
           /\ \A u \in RowTables : store'[u] = store[u]
BY DEF TableContents, RowTables

(* When the store changes in no more than a row or the version, the answers*)
(* being read are torn, and everything cached or held stays as good as it  *)
(* was: its version is old, or the row is unlabelled.                      *)
LEMMA StoreChangesSafely ==
    ASSUME CacheInv, StoreChanges, store' \in TableContents,
           \A t \in RowTables : store[t] \subseteq store'[t],
           \/ unlabelled' = TRUE /\ store'.mwe_meta = store.mwe_meta
           \/ unlabelled' = FALSE /\ store'.mwe_meta = store.mwe_meta + 1,
           UNCHANGED <<rpc, reads, fetch, label, rows, acked, cache, index, lock, upsert>>
    PROVE  LockHeld' /\ Untorn' /\ CacheSound' /\ HeldSound' /\ IndexSound'
<1>1. store.mwe_meta \in Nat /\ store'.mwe_meta \in Nat /\ store.mwe_meta <= store'.mwe_meta
    BY DEF CacheInv, Typed, TypeOK, TableContents
<1>2. Acknowledged' = Acknowledged /\ \A t : Told(t)' = Told(t)
    BY DEF Acknowledged, Told
<1>3. LockHeld'
    BY DEF CacheInv, LockHeld
<1>4. Untorn'
    <2> SUFFICES ASSUME NEW r \in Readers, fetch[r] # None
                 PROVE  /\ torn'[r]
                        /\ "mwe_meta" \in DOMAIN fetch[r] =>
                               fetch[r].mwe_meta <= store'.mwe_meta
        BY DEF Untorn
    <2>1. torn'[r]
        BY DEF StoreChanges
    <2>2. "mwe_meta" \in DOMAIN fetch[r] =>
              fetch[r].mwe_meta \in Nat /\ fetch[r].mwe_meta <= store.mwe_meta
        BY DEF CacheInv, Typed, TypeOK, Untorn
    <2> QED
        BY <1>1, <2>1, <2>2
<1>5. CacheSound'
    <2> SUFFICES ASSUME cache # None PROVE Sound(cache)'
        BY DEF CacheSound
    <2>1. Sound(cache) /\ cache.tables.mwe_meta \in Nat
        BY DEF CacheInv, CacheSound, Sound, Payload, TableContents
    <2>2. cache \in Payload /\ cache.tables.mwe_meta <= store'.mwe_meta
        BY <1>1, <2>1 DEF Sound
    <2>3. cache.tables.mwe_meta = store'.mwe_meta => unlabelled'
        BY <1>1, <2>1 DEF Sound
    <2> QED
        BY <1>2, <2>1, <2>2, <2>3 DEF Sound, Payload, TableContents
<1>6. HeldSound'
    <2>1. \A r \in Readers : label[r] \in Nat /\ label[r] <= store.mwe_meta
        BY DEF CacheInv, Typed, TypeOK, HeldSound
    <2>2. \A r \in Readers : label[r] <= store'.mwe_meta
        BY <1>1, <2>1
    <2>3. \A r \in Readers : label[r] = store'.mwe_meta => unlabelled'
        BY <1>1, <2>1
    <2> QED
        BY <1>2, <2>2, <2>3 DEF CacheInv, HeldSound
<1>7. IndexSound'
    <2> SUFFICES ASSUME index # None PROVE IndexSound'
        BY DEF IndexSound
    <2>1. index.version \in Nat /\ index.version <= store.mwe_meta
        BY DEF CacheInv, Typed, TypeOK, IndexSound
    <2>2. index.version <= store'.mwe_meta
        BY <1>1, <2>1
    <2>3. index.version = store'.mwe_meta => unlabelled'
        BY <1>1, <2>1
    <2>4. CurrentVersionMeansCurrentRows'
        BY <2>3 DEF CurrentVersionMeansCurrentRows
    <2> QED
        BY <1>2, <2>2, <2>4 DEF CacheInv, IndexSound
<1> QED
    BY <1>3, <1>4, <1>5, <1>6, <1>7

LEMMA StatementKeepsInv ==
    ASSUME CacheInv, NEW w \in Occurrences, StatementRuns(w)
    PROVE  CacheInv'
<1>1. /\ request[w] = "sent" /\ request' = [request EXCEPT ![w] = "written"]
      /\ store' = [store EXCEPT ![upsert[w].table] = @ \union {w}]
      /\ unlabelled' = TRUE /\ StoreChanges
      /\ UNCHANGED <<rpc, reads, fetch, label, rows, acked, cache, index, lock, upsert>>
    BY DEF StatementRuns
<1>2. upsert[w].table \in RowTables /\ store \in TableContents
    BY DEF CacheInv, Typed, TypeOK
<1>3. /\ store' \in TableContents
      /\ store'.mwe_meta = store.mwe_meta
      /\ store'[upsert[w].table] = store[upsert[w].table] \union {w}
      /\ \A u \in RowTables \ {upsert[w].table} : store'[u] = store[u]
    BY <1>1, <1>2, TableWritten
<1>4. \A t \in RowTables : store[t] \subseteq store'[t]
    BY <1>2, <1>3
<1>5. Typed'
    BY <1>1, <1>3 DEF CacheInv, Typed, TypeOK, StoreChanges
<1>6. Written'
    <2>1. store.mwe_expressions \subseteq store'.mwe_expressions
          /\ store.mwe_senses \subseteq store'.mwe_senses
        BY <1>4 DEF RowTables
    <2>2. store'.mwe_senses \subseteq store'.mwe_expressions
        BY <1>2, <1>3, <2>1 DEF CacheInv, Written, RowTables
    <2>3. \A v \in Occurrences : request'[v] \in {"written", "bumped"} =>
              v \in store'[upsert[v].table]
        BY <1>1, <1>3, <1>4 DEF CacheInv, Written, Typed, TypeOK
    <2>4. upsert[w].at # "invalidating"
        BY <1>1 DEF CacheInv, Written
    <2> QED
        BY <1>1, <2>1, <2>2, <2>3, <2>4 DEF CacheInv, Written, Typed, TypeOK
<1> QED
    BY <1>1, <1>3, <1>4, <1>5, <1>6, StoreChangesSafely DEF CacheInv

LEMMA BumpKeepsInv ==
    ASSUME CacheInv, NEW w \in Occurrences, VersionBumps(w)
    PROVE  CacheInv'
<1>1. /\ request[w] = "written" /\ request' = [request EXCEPT ![w] = "bumped"]
      /\ store' = [store EXCEPT !.mwe_meta = @ + 1]
      /\ unlabelled' = FALSE /\ StoreChanges
      /\ UNCHANGED <<rpc, reads, fetch, label, rows, acked, cache, index, lock, upsert>>
    BY DEF VersionBumps
<1>2. /\ store' \in TableContents
      /\ store'.mwe_meta = store.mwe_meta + 1
      /\ \A u \in RowTables : store'[u] = store[u]
    BY <1>1, VersionRaised DEF CacheInv, Typed, TypeOK
<1>3. Typed'
    <2>1. request' \in [Occurrences -> {"none", "sent", "written", "bumped", "dropped"}]
        BY <1>1 DEF CacheInv, Typed, TypeOK
    <2>2. torn' \in [Readers -> BOOLEAN] /\ unlabelled' \in BOOLEAN
        BY <1>1 DEF StoreChanges
    <2> QED
        BY <1>1, <1>2, <2>1, <2>2 DEF CacheInv, Typed, TypeOK
<1>4. Written'
    <2>1. store'.mwe_senses = store.mwe_senses /\ store'.mwe_expressions = store.mwe_expressions
        BY <1>2 DEF RowTables
    <2>2. \A v \in Occurrences : store'[upsert[v].table] = store[upsert[v].table]
        BY <1>2 DEF CacheInv, Typed, TypeOK
    <2>3. \A v \in Occurrences : request'[v] \in {"written", "bumped"} =>
              request[v] \in {"written", "bumped"}
        BY <1>1 DEF CacheInv, Typed, TypeOK
    <2>4. \A v \in Occurrences : request[v] = "bumped" => request'[v] = "bumped"
        BY <1>1 DEF CacheInv, Typed, TypeOK
    <2> QED
        BY <1>1, <2>1, <2>2, <2>3, <2>4 DEF CacheInv, Written
<1> QED
    BY <1>1, <1>2, <1>3, <1>4, StoreChangesSafely DEF CacheInv

-----------------------------------------------------------------------------
(* Steps of the third pass                                                 *)

(* An upsert that goes on without a statement of the service leaves what   *)
(* is cached and held as good as it was, provided that what is newly told  *)
(* empties the snapshot cache, and what is newly acknowledged the index,   *)
(* while nobody builds one.                                                *)
LEMMA UpsertGoesOnSafely ==
    ASSUME CacheInv,
           UNCHANGED <<store, unlabelled, readerVars, lock>>,
           \A t \in RowTables : Acknowledged[t] \subseteq Acknowledged'[t],
           \/ cache' = None
           \/ cache' = cache /\ \A t \in RowTables : Told(t)' \subseteq Told(t),
           \/ index' = None /\ lock = None
           \/ index' = index /\ \A t \in RowTables : Acknowledged'[t] = Acknowledged[t]
    PROVE  LockHeld' /\ Untorn' /\ CacheSound' /\ HeldSound' /\ IndexSound'
<1>1. UNCHANGED <<rpc, reads, fetch, label, rows, torn, acked>>
    BY DEF readerVars
<1>2. LockHeld'
    BY <1>1 DEF CacheInv, LockHeld
<1>3. Untorn'
    BY <1>1 DEF CacheInv, Untorn
<1>4. CacheSound'
    BY <1>1 DEF CacheInv, CacheSound, Sound, SameRows, Payload, TableContents
<1>5. \/ \A r \in Readers : rpc[r] # "senses"
      \/ \A t \in RowTables : Acknowledged'[t] = Acknowledged[t]
    BY NoneAssumption DEF CacheInv, LockHeld
<1>6. HeldSound'
    BY <1>1, <1>5 DEF CacheInv, HeldSound, RowTables
<1>7. IndexSound'
    BY <1>1 DEF CacheInv, IndexSound, CurrentVersionMeansCurrentRows
<1> QED
    BY <1>2, <1>3, <1>4, <1>6, <1>7

(* What is told and acknowledged depends on where the upserts are. *)
LEMMA ToldParts ==
    /\ Told("mwe_expressions") =
         {w \in Occurrences : \/ upsert[w].table = "mwe_senses"
                              \/ upsert[w].at = "invalidating"
                                   /\ upsert[w].table = "mwe_expressions"}
    /\ Told("mwe_senses") =
         {w \in Occurrences : \/ upsert[w].at = "done"
                              \/ upsert[w].at = "invalidating"
                                   /\ upsert[w].table = "mwe_senses"}
BY AckedParts DEF Told

LEMMA ServiceDropsKeepsInv ==
    ASSUME CacheInv, NEW w \in Occurrences, ServiceDrops(w)
    PROVE  CacheInv'
<1>1. /\ request[w] \in {"sent", "written"}
      /\ request' = [request EXCEPT ![w] = "dropped"]
      /\ UNCHANGED <<store, unlabelled, readerVars, cache, index, lock, upsert>>
    BY DEF ServiceDrops
<1>2. Typed'
    BY <1>1 DEF readerVars, CacheInv, Typed, TypeOK
<1>3. Written'
    BY <1>1 DEF CacheInv, Written, Typed, TypeOK
<1>4. Acknowledged' = Acknowledged /\ \A t : Told(t)' = Told(t)
    BY <1>1 DEF Acknowledged, Told
<1> QED
    BY <1>1, <1>2, <1>3, <1>4, UpsertGoesOnSafely DEF CacheInv

(* Sending an upsert, or giving it up, tells nobody anything. *)
LEMMA UpsertKeepsInv ==
    ASSUME CacheInv, NEW w \in Occurrences, UpsertSent(w) \/ UpsertFails(w)
    PROVE  CacheInv'
<1> USE DEF CacheInv
<1>1. /\ upsert[w].at \in {"ready", "waiting"}
      /\ \E next \in {"waiting", "failed"} : upsert' = [upsert EXCEPT ![w].at = next]
      /\ request' = [request EXCEPT ![w] = "sent"] \/ request' = request
      /\ UNCHANGED <<store, unlabelled, readerVars, cache, index, lock>>
    BY DEF UpsertSent, UpsertFails, storeVars
<1>2. PICK next \in {"waiting", "failed"} : upsert' = [upsert EXCEPT ![w].at = next]
    BY <1>1
<1>3. Typed'
    <2>1. upsert' \in [Occurrences -> [table : RowTables,
              at : {"ready", "waiting", "invalidating", "done", "failed"}]]
        BY <1>2 DEF Typed, TypeOK
    <2>2. request' \in [Occurrences -> {"none", "sent", "written", "bumped", "dropped"}]
        BY <1>1 DEF Typed, TypeOK
    <2> QED
        BY <1>1, <2>1, <2>2 DEF readerVars, Typed, TypeOK
<1>4. \A v \in Occurrences :
          /\ upsert'[v].table = upsert[v].table
          /\ upsert'[v].at \in {"invalidating", "done"} <=>
                 upsert[v].at \in {"invalidating", "done"}
          /\ upsert'[v].at \in {"invalidating", "done"} => upsert'[v].at = upsert[v].at
          /\ upsert'[v].at = "invalidating" => request'[v] = request[v]
          /\ request'[v] \in {"written", "bumped"} => request'[v] = request[v]
    BY <1>1, <1>2 DEF Typed, TypeOK
<1>5. Written'
    BY <1>1, <1>4 DEF Written
<1>6. \A v \in Occurrences :
          /\ upsert'[v].at = "done" <=> upsert[v].at = "done"
          /\ upsert'[v].at = "invalidating" <=> upsert[v].at = "invalidating"
    BY <1>4
<1>7. \A t \in RowTables : Acknowledged'[t] = Acknowledged[t] /\ Told(t)' = Told(t)
    <2>1. Acknowledged' = Acknowledged
        BY <1>4, <1>6 DEF Acknowledged
    <2> QED
        BY <1>4, <1>6, <2>1 DEF Told
<1> QED
    BY <1>1, <1>3, <1>5, <1>7, UpsertGoesOnSafely

LEMMA UpsertReturnsKeepsInv ==
    ASSUME CacheInv, NEW w \in Occurrences, UpsertReturns(w)
    PROVE  CacheInv'
<1> USE DEF CacheInv
<1>1. /\ upsert[w].at = "waiting" /\ request[w] = "bumped" /\ cache' = None
      /\ upsert' = [upsert EXCEPT ![w].at = "invalidating"]
      /\ UNCHANGED <<store, unlabelled, request, readerVars, index, lock>>
    BY DEF UpsertReturns, storeVars
<1>2. Typed'
    <2>1. upsert' \in [Occurrences -> [table : RowTables,
              at : {"ready", "waiting", "invalidating", "done", "failed"}]]
        BY <1>1 DEF Typed, TypeOK
    <2> QED
        BY <1>1, <2>1 DEF readerVars, Typed, TypeOK
<1>3. \A v \in Occurrences :
          /\ upsert'[v].table = upsert[v].table
          /\ upsert'[v].at = upsert[v].at \/ (v = w /\ upsert'[v].at = "invalidating")
    <2>1. upsert'[w].table = upsert[w].table /\ upsert'[w].at = "invalidating"
        BY <1>1 DEF Typed, TypeOK
    <2>2. \A v \in Occurrences \ {w} : upsert'[v] = upsert[v]
        BY <1>1 DEF Typed, TypeOK
    <2>3. \A v \in Occurrences : v = w \/ upsert'[v] = upsert[v]
        BY <2>2
    <2> QED
        BY <2>1, <2>3
<1>4. Written'
    BY <1>1, <1>3 DEF Written
<1>5. \A v \in Occurrences : upsert'[v].at = "done" <=> upsert[v].at = "done"
    BY <1>1, <1>3
<1>6. Acknowledged' = Acknowledged
    BY <1>3, <1>5 DEF Acknowledged
<1> QED
    BY <1>1, <1>2, <1>4, <1>6, UpsertGoesOnSafely

LEMMA InvalidationKeepsInv ==
    ASSUME CacheInv, NEW w \in Occurrences, IndexInvalidated(w)
    PROVE  CacheInv'
<1> USE DEF CacheInv
<1>1. /\ upsert[w].at = "invalidating" /\ lock = None /\ index' = None
      /\ upsert' = [upsert EXCEPT ![w] =
                       IF @.table = "mwe_expressions"
                       THEN [table |-> "mwe_senses", at |-> "ready"]
                       ELSE [table |-> "mwe_senses", at |-> "done"]]
      /\ request' = [request EXCEPT ![w] = "none"]
      /\ UNCHANGED <<store, unlabelled, readerVars, cache, lock>>
    BY DEF IndexInvalidated
<1>2. Typed'
    <2>1. upsert' \in [Occurrences -> [table : RowTables,
              at : {"ready", "waiting", "invalidating", "done", "failed"}]]
        BY <1>1 DEF Typed, TypeOK, RowTables
    <2>2. request' \in [Occurrences -> {"none", "sent", "written", "bumped", "dropped"}]
        BY <1>1 DEF Typed, TypeOK
    <2> QED
        BY <1>1, <2>1, <2>2 DEF readerVars, Typed, TypeOK
<1>3. /\ \/ upsert[w].table = "mwe_expressions" /\ upsert'[w].at = "ready"
         \/ upsert[w].table = "mwe_senses" /\ upsert'[w].at = "done"
      /\ upsert'[w].table = "mwe_senses" /\ request'[w] = "none"
      /\ \A v \in Occurrences \ {w} : upsert'[v] = upsert[v] /\ request'[v] = request[v]
    <2>1. upsert[w].table \in RowTables
        BY DEF Typed, TypeOK
    <2>2. upsert'[w] = IF upsert[w].table = "mwe_expressions"
                       THEN [table |-> "mwe_senses", at |-> "ready"]
                       ELSE [table |-> "mwe_senses", at |-> "done"]
        BY <1>1 DEF Typed, TypeOK
    <2>3. request'[w] = "none"
        BY <1>1 DEF Typed, TypeOK
    <2>4. \A v \in Occurrences \ {w} : upsert'[v] = upsert[v] /\ request'[v] = request[v]
        BY <1>1 DEF Typed, TypeOK
    <2> QED
        BY <2>1, <2>2, <2>3, <2>4 DEF RowTables
<1>4. w \in store[upsert[w].table]
    BY <1>1 DEF Written
<1>5. Written'
    BY <1>1, <1>3, <1>4 DEF Written
<1>6. \A t \in RowTables : Acknowledged[t] \subseteq Acknowledged'[t]
    BY <1>1, <1>3, AckedParts DEF Acknowledged, RowTables
<1>7. \A t \in RowTables : Told(t)' \subseteq Told(t)
    <2>1. Told("mwe_expressions")' =
            {v \in Occurrences : \/ upsert'[v].table = "mwe_senses"
                                 \/ upsert'[v].at = "invalidating"
                                      /\ upsert'[v].table = "mwe_expressions"}
        BY DEF Told, Acknowledged
    <2>2. Told("mwe_senses")' =
            {v \in Occurrences : \/ upsert'[v].at = "done"
                                 \/ upsert'[v].at = "invalidating"
                                      /\ upsert'[v].table = "mwe_senses"}
        BY DEF Told, Acknowledged
    <2>3. \A v \in Occurrences : v = w \/ upsert'[v] = upsert[v]
        BY <1>3
    <2>4. Told("mwe_expressions")' \subseteq Told("mwe_expressions")
        BY <1>1, <1>3, <2>1, <2>3, ToldParts
    <2>5. Told("mwe_senses")' \subseteq Told("mwe_senses")
        BY <1>1, <1>3, <2>2, <2>3, ToldParts
    <2> QED
        BY <2>4, <2>5 DEF RowTables
<1> QED
    BY <1>1, <1>2, <1>5, <1>6, <1>7, UpsertGoesOnSafely

-----------------------------------------------------------------------------
(* Steps of the readers                                                    *)

(* Nothing is acknowledged by a reader. *)
LEMMA ReadersTellNobody ==
    ASSUME UNCHANGED upsert
    PROVE  Acknowledged' = Acknowledged /\ \A t : Told(t)' = Told(t)
BY DEF Acknowledged, Told

(* The cache stays sound when it keeps its answer or gets a sound one, and *)
(* no reader goes on with a version that is newer.                         *)
LEMMA CacheStaysSound ==
    ASSUME CacheInv, UNCHANGED <<storeVars, upsert>>,
           cache' = cache \/ Sound(cache'),
           \A q \in Readers : rpc'[q] \in Beyond =>
               \/ rpc[q] \in Beyond /\ label'[q] = label[q]
               \/ label'[q] <= cache'.tables.mwe_meta
    PROVE  CacheSound'
<1> SUFFICES ASSUME cache' # None PROVE Sound(cache)'
    BY DEF CacheSound
<1>1. Sound(cache')
    BY DEF CacheInv, CacheSound
<1>2. UNCHANGED <<store, unlabelled>>
    BY DEF storeVars
<1>3. (cache \in Payload)' /\ cache'.tables.mwe_meta <= store'.mwe_meta
    BY <1>1, <1>2 DEF Sound, Payload, TableContents
<1>4. ~cache'.torn => \A t \in RowTables : Told(t)' \subseteq cache'.tables[t]
    BY <1>1, ReadersTellNobody DEF Sound
<1>5. ~cache'.torn /\ cache'.tables.mwe_meta = store'.mwe_meta =>
          unlabelled' \/ SameRows(cache.tables)'
    BY <1>1, <1>2 DEF Sound, SameRows
<1>6. ~cache'.torn => \A q \in Readers : rpc'[q] \in Beyond =>
          label'[q] <= cache'.tables.mwe_meta
    BY <1>1 DEF Sound
<1> QED
    BY <1>3, <1>4, <1>5, <1>6 DEF Sound

(* A request ends: its reader holds nothing any more. *)
LEMMA ReturnIsSafe ==
    ASSUME CacheInv, NEW r \in Readers, Return(r),
           UNCHANGED <<storeVars, reads, upsert>>, lock' = LockReleased(r),
           cache' = cache \/ Sound(cache'),
           index' # None => index' \in [version : Nat, mwe_expressions : SUBSET Occurrences,
                                        mwe_senses : SUBSET Occurrences, torn : BOOLEAN]
    PROVE  Typed' /\ Written' /\ LockHeld' /\ Untorn' /\ CacheSound' /\ HeldSound'
<1> USE DEF CacheInv
<1>1. /\ rpc' = [rpc EXCEPT ![r] = "idle"]
      /\ fetch' = [fetch EXCEPT ![r] = None]
      /\ label' = [label EXCEPT ![r] = 0]
      /\ rows' = [rows EXCEPT ![r] = NoRows]
      /\ torn' = [torn EXCEPT ![r] = FALSE]
      /\ acked' = [acked EXCEPT ![r] = NothingAcked]
    BY DEF Return
<1>2. UNCHANGED <<store, unlabelled, request>>
    BY DEF storeVars
<1>3. CacheSound'
    BY <1>1, CacheStaysSound DEF Typed, TypeOK, Beyond, Loading
<1>4. Typed'
    <2>1. /\ rpc' \in [Readers -> Loading \union {"idle", "locking"}]
          /\ label' \in [Readers -> Nat] /\ torn' \in [Readers -> BOOLEAN]
        BY <1>1 DEF Typed, TypeOK
    <2>2. /\ rows' \in [Readers -> [known : SUBSET Occurrences, torn : BOOLEAN]]
          /\ acked' \in [Readers -> [RowTables -> SUBSET Occurrences]]
        BY <1>1 DEF Typed, TypeOK, NoRows, NothingAcked, RowTables
    <2>3. lock' \in Readers \union {None}
        BY DEF LockReleased, Typed, TypeOK
    <2>4. cache' # None => cache' \in [tables : TableContents', torn : BOOLEAN]
        BY DEF CacheSound, Sound, Payload, TableContents
    <2>5. fetch' = [q \in Readers |-> fetch'[q]]
          /\ \A q \in Readers : fetch'[q] # None => fetch'[q] = fetch[q]
        BY <1>1 DEF Typed
    <2> QED
        BY <1>2, <2>1, <2>2, <2>3, <2>4, <2>5 DEF Typed, TypeOK, TableContents
<1>5. Written'
    BY <1>2 DEF Written
<1>6. LockHeld'
    BY <1>1, NoneAssumption DEF LockHeld, LockReleased, Typed, TypeOK
<1>7. Untorn'
    BY <1>1, <1>2 DEF Untorn, Typed, TypeOK
<1>8. HeldSound'
    <2>1. \A t \in RowTables : NothingAcked[t] = {}
        BY DEF NothingAcked, RowTables
    <2>2. 0 <= store.mwe_meta
        BY DEF Typed, TypeOK, TableContents
    <2>3. \A q \in Readers \ {r} : /\ label'[q] = label[q] /\ acked'[q] = acked[q]
                                  /\ rpc'[q] = rpc[q] /\ rows'[q] = rows[q]
        BY <1>1 DEF Typed, TypeOK
    <2>4. label'[r] = 0 /\ acked'[r] = NothingAcked /\ rpc'[r] = "idle"
        BY <1>1 DEF Typed, TypeOK
    <2> QED
        BY <1>2, <2>1, <2>2, <2>3, <2>4, ReadersTellNobody DEF HeldSound
<1> QED
    BY <1>3, <1>4, <1>5, <1>6, <1>7, <1>8

(* The index is as good as it was when nobody touches it or the store. *)
LEMMA IndexKept ==
    ASSUME CacheInv, UNCHANGED <<storeVars, upsert, index>>
    PROVE  IndexSound'
BY ReadersTellNobody DEF CacheInv, IndexSound, CurrentVersionMeansCurrentRows, storeVars

LEMMA FetchFailsKeepsInv ==
    ASSUME CacheInv, NEW r \in Readers, FetchFails(r)
    PROVE  CacheInv'
<1>1. /\ Return(r) /\ lock' = LockReleased(r)
      /\ UNCHANGED <<storeVars, reads, cache, index, upsert>>
    BY DEF FetchFails
<1>2. index' # None => index' \in [version : Nat, mwe_expressions : SUBSET Occurrences,
                                   mwe_senses : SUBSET Occurrences, torn : BOOLEAN]
    BY <1>1 DEF CacheInv, Typed, TypeOK
<1> QED
    BY <1>1, <1>2, ReturnIsSafe, IndexKept DEF CacheInv

LEMMA IndexHitKeepsInv ==
    ASSUME CacheInv, NEW r \in Readers, IndexHit(r)
    PROVE  CacheInv'
<1>1. /\ Return(r) /\ lock = None
      /\ UNCHANGED <<storeVars, reads, cache, index, lock, upsert>>
    BY DEF IndexHit
<1>2. lock' = LockReleased(r)
    BY <1>1 DEF LockReleased
<1>3. index' # None => index' \in [version : Nat, mwe_expressions : SUBSET Occurrences,
                                   mwe_senses : SUBSET Occurrences, torn : BOOLEAN]
    BY <1>1 DEF CacheInv, Typed, TypeOK
<1> QED
    BY <1>1, <1>2, <1>3, ReturnIsSafe, IndexKept DEF CacheInv

(* A request begins with what the third pass has been told. *)
LEMMA BeginKeepsInv ==
    ASSUME CacheInv, NEW r \in Readers, Begin(r)
    PROVE  CacheInv'
<1> USE DEF CacheInv
<1>1. /\ rpc[r] = "idle" /\ reads < MaxReads /\ reads' = reads + 1
      /\ rpc' = [rpc EXCEPT ![r] = "version"]
      /\ acked' = [acked EXCEPT ![r] = Acknowledged]
      /\ UNCHANGED <<store, request, unlabelled, fetch, label, rows, torn, cache, index,
                     lock, upsert>>
    BY DEF Begin, storeVars
<1>2. Typed'
    <2>1. reads' \in 0..MaxReads
        BY <1>1, MaxReadsAssumption DEF Typed, TypeOK
    <2>2. rpc' \in [Readers -> Loading \union {"idle", "locking"}]
        BY <1>1 DEF Typed, TypeOK, Loading
    <2>3. Acknowledged \in [RowTables -> SUBSET Occurrences]
        BY DEF Acknowledged, RowTables
    <2>4. acked' \in [Readers -> [RowTables -> SUBSET Occurrences]]
        BY <1>1, <2>3 DEF Typed, TypeOK
    <2> QED
        BY <1>1, <2>1, <2>2, <2>4 DEF Typed, TypeOK
<1>3. Written' /\ LockHeld' /\ Untorn'
    BY <1>1 DEF Written, LockHeld, Untorn, Typed, TypeOK
<1>4. UNCHANGED <<storeVars, upsert, index, cache>>
    BY <1>1 DEF storeVars
<1>5. CacheSound'
    BY <1>1, <1>4, CacheStaysSound DEF Typed, TypeOK, Beyond
<1>6. HeldSound'
    BY <1>1, ReadersTellNobody DEF HeldSound, Typed, TypeOK
<1> QED
    BY <1>2, <1>3, <1>4, <1>5, <1>6, IndexKept

(* A request to the service begins with no table read. *)
LEMMA FetchStartsKeepsInv ==
    ASSUME CacheInv, NEW r \in Readers, FetchStarts(r)
    PROVE  CacheInv'
<1> USE DEF CacheInv
<1>1. /\ fetch' = [fetch EXCEPT ![r] = <<>>]
      /\ UNCHANGED <<store, request, unlabelled, rpc, reads, label, rows, torn, acked,
                     cache, index, lock, upsert>>
    BY DEF FetchStarts, storeVars
<1>2. /\ fetch' = [q \in Readers |-> fetch'[q]] /\ fetch'[r] = <<>>
      /\ \A q \in Readers \ {r} : fetch'[q] = fetch[q]
    BY <1>1 DEF Typed
<1>3. DOMAIN <<>> = {}
    OBVIOUS
<1>4. Typed'
    BY <1>1, <1>2, <1>3 DEF Typed, TypeOK
<1>5. Untorn'
    BY <1>1, <1>2, <1>3 DEF Untorn
<1>6. Written' /\ LockHeld'
    BY <1>1 DEF Written, LockHeld
<1>7. UNCHANGED <<storeVars, upsert, index, cache>>
    BY <1>1 DEF storeVars
<1>8. CacheSound'
    BY <1>1, <1>7, CacheStaysSound
<1>9. HeldSound'
    BY <1>1, ReadersTellNobody DEF HeldSound
<1> QED
    BY <1>4, <1>5, <1>6, <1>7, <1>8, <1>9, IndexKept

LEMMA TableReadKeepsInv ==
    ASSUME CacheInv, NEW r \in Readers, TableRead(r)
    PROVE  CacheInv'
<1> USE DEF CacheInv
<1>1. PICK t \in Tables \ DOMAIN fetch[r] :
          fetch' = [fetch EXCEPT ![r] = WithTable(@, t)]
    BY DEF TableRead
<1>2. /\ fetch[r] # None
      /\ UNCHANGED <<store, request, unlabelled, rpc, reads, label, rows, torn, acked,
                     cache, index, lock, upsert>>
    BY DEF TableRead, storeVars
<1> DEFINE more == WithTable(fetch[r], t)
<1>3. more = [u \in DOMAIN fetch[r] \union {t} |-> IF u = t THEN store[t] ELSE fetch[r][u]]
    BY DEF WithTable
<1>4. /\ fetch' = [q \in Readers |-> fetch'[q]] /\ fetch'[r] = more
      /\ \A q \in Readers \ {r} : fetch'[q] = fetch[q]
    BY <1>1 DEF Typed
<1> HIDE DEF more
<1>5. /\ more = [u \in DOMAIN more |-> more[u]]
      /\ DOMAIN more = DOMAIN fetch[r] \union {t}
      /\ more[t] = store[t] /\ \A u \in DOMAIN fetch[r] : more[u] = fetch[r][u]
    BY <1>1, <1>3
<1>6. /\ store[t] \in SUBSET Occurrences \/ t = "mwe_meta"
      /\ store.mwe_meta \in Nat
    BY DEF Typed, TypeOK, TableContents, Tables, RowTables
<1>7. Typed'
    <2>1. DOMAIN more \subseteq Tables
          /\ ("mwe_meta" \in DOMAIN more => more.mwe_meta \in Nat)
        BY <1>2, <1>5, <1>6 DEF Typed, TypeOK
    <2>2. \A u \in RowTables \intersect DOMAIN more : more[u] \in SUBSET Occurrences
        BY <1>2, <1>5, <1>6 DEF Typed, RowTables
    <2>3. \A q \in Readers : fetch'[q] # None =>
             /\ DOMAIN fetch'[q] \subseteq Tables
             /\ "mwe_meta" \in DOMAIN fetch'[q] => fetch'[q].mwe_meta \in Nat
        BY <1>4, <2>1 DEF Typed, TypeOK
    <2>4. \A q \in Readers : fetch'[q] # None =>
             /\ fetch'[q] = [u \in DOMAIN fetch'[q] |-> fetch'[q][u]]
             /\ \A u \in RowTables \intersect DOMAIN fetch'[q] :
                  fetch'[q][u] \in SUBSET Occurrences
        BY <1>4, <1>5, <2>2 DEF Typed
    <2> QED
        BY <1>2, <1>4, <2>3, <2>4 DEF Typed, TypeOK
<1>8. Untorn'
    <2>1. ~torn[r] => \A u \in DOMAIN more : more[u] = store[u]
        BY <1>2, <1>5 DEF Untorn
    <2>2. "mwe_meta" \in DOMAIN more => more.mwe_meta <= store.mwe_meta
        BY <1>2, <1>5, <1>6 DEF Untorn
    <2> QED
        BY <1>2, <1>4, <2>1, <2>2 DEF Untorn
<1>9. Written' /\ LockHeld'
    BY <1>2 DEF Written, LockHeld
<1>10. UNCHANGED <<storeVars, upsert, index, cache>>
    BY <1>2 DEF storeVars
<1>11. CacheSound'
    BY <1>2, <1>10, CacheStaysSound
<1>12. HeldSound'
    BY <1>2, ReadersTellNobody DEF HeldSound
<1> QED
    BY <1>7, <1>8, <1>9, <1>10, <1>11, <1>12, IndexKept

LEMMA CacheExpiresKeepsInv ==
    ASSUME CacheInv, CacheExpires
    PROVE  CacheInv'
<1>1. /\ cache' = None
      /\ UNCHANGED <<store, request, unlabelled, rpc, reads, fetch, label, rows, torn,
                     acked, index, lock, upsert>>
    BY DEF CacheExpires, storeVars, readerVars
<1>2. Typed' /\ Written' /\ LockHeld' /\ Untorn' /\ CacheSound'
    BY <1>1 DEF CacheInv, Typed, TypeOK, TableContents, Written, LockHeld, Untorn, CacheSound
<1>3. HeldSound'
    BY <1>1, ReadersTellNobody DEF CacheInv, HeldSound
<1>4. UNCHANGED <<storeVars, upsert, index>>
    BY <1>1 DEF storeVars
<1> QED
    BY <1>2, <1>3, <1>4, IndexKept DEF CacheInv

LEMMA RebuildKeepsInv ==
    ASSUME CacheInv, NEW r \in Readers, RebuildBegins(r)
    PROVE  CacheInv'
<1> USE DEF CacheInv
<1>1. /\ rpc[r] = "locking" /\ lock = None /\ lock' = r
      /\ rpc' = [rpc EXCEPT ![r] = "expressions"]
      /\ UNCHANGED <<store, request, unlabelled, reads, fetch, label, rows, torn, acked,
                     cache, index, upsert>>
    BY DEF RebuildBegins, storeVars
<1>2. Typed'
    <2>1. rpc' \in [Readers -> Loading \union {"idle", "locking"}]
        BY <1>1 DEF Typed, TypeOK, Loading
    <2> QED
        BY <1>1, <2>1 DEF Typed, TypeOK
<1>3. Written' /\ Untorn'
    BY <1>1 DEF Written, Untorn
<1>4. \A q \in Readers \ {r} : rpc'[q] = rpc[q]
    BY <1>1 DEF Typed, TypeOK
<1>5. LockHeld'
    BY <1>1, <1>4, NoneAssumption DEF LockHeld
<1>6. UNCHANGED <<storeVars, upsert, index, cache>>
    BY <1>1 DEF storeVars
<1>7. CacheSound'
    BY <1>1, <1>4, <1>6, CacheStaysSound DEF Beyond
<1>8. HeldSound'
    BY <1>1, ReadersTellNobody DEF HeldSound, Typed, TypeOK
<1> QED
    BY <1>2, <1>3, <1>5, <1>6, <1>7, <1>8, IndexKept

(* An answer is in the cache and no longer with the reader, who goes on    *)
(* with its version or its rows.                                           *)
LEMMA AnswerIsKept ==
    ASSUME CacheInv, NEW r \in Readers, SnapshotReturned(r), FetchForgotten(r),
           UNCHANGED <<storeVars, reads, acked, index, lock, upsert>>,
           rpc' \in [Readers -> Loading \union {"idle", "locking"}],
           label' \in [Readers -> Nat],
           rows' \in [Readers -> [known : SUBSET Occurrences, torn : BOOLEAN]]
    PROVE  /\ Typed' /\ Written' /\ Untorn' /\ IndexSound'
           /\ Sound(Snapshot(r)) /\ cache' = Snapshot(r)
<1> USE DEF CacheInv
<1>1. /\ Sound(Snapshot(r)) /\ cache' = Snapshot(r)
      /\ fetch' = [fetch EXCEPT ![r] = None] /\ torn' = [torn EXCEPT ![r] = FALSE]
    BY SnapshotIsSound DEF SnapshotReturned, FetchForgotten
<1>2. UNCHANGED <<store, request, unlabelled>>
    BY DEF storeVars
<1>3. fetch' = [q \in Readers |-> fetch'[q]]
      /\ \A q \in Readers : fetch'[q] # None => fetch'[q] = fetch[q]
    BY <1>1 DEF Typed
<1>4. cache' \in [tables : TableContents', torn : BOOLEAN]
    BY <1>1 DEF Sound, Payload, TableContents
<1>5. torn' \in [Readers -> BOOLEAN]
    BY <1>1 DEF Typed, TypeOK
<1>6. Typed'
    BY <1>2, <1>3, <1>4, <1>5 DEF Typed, TypeOK, TableContents
<1>7. Written'
    BY <1>2 DEF Written
<1>8. Untorn'
    BY <1>1, <1>2 DEF Untorn, Typed, TypeOK
<1> QED
    BY <1>1, <1>6, <1>7, <1>8, IndexKept

LEMMA VersionLoadedKeepsInv ==
    ASSUME CacheInv, NEW r \in Readers, VersionLoaded(r)
    PROVE  CacheInv'
<1> USE DEF CacheInv
<1> DEFINE s == Snapshot(r)
<1>1. /\ rpc[r] = "version" /\ SnapshotReturned(r) /\ FetchForgotten(r)
      /\ label' = [label EXCEPT ![r] = s.tables.mwe_meta]
      /\ rpc' = [rpc EXCEPT ![r] = "locking"]
      /\ UNCHANGED <<storeVars, reads, rows, acked, index, lock, upsert>>
    BY DEF VersionLoaded
<1>2. Sound(s) /\ s.tables.mwe_meta \in Nat
    BY <1>1, SnapshotIsSound DEF SnapshotReturned, Sound, Payload, TableContents
<1>3. /\ rpc' \in [Readers -> Loading \union {"idle", "locking"}]
      /\ label' \in [Readers -> Nat]
      /\ rows' \in [Readers -> [known : SUBSET Occurrences, torn : BOOLEAN]]
    BY <1>1, <1>2 DEF Typed, TypeOK
<1>4. /\ Typed' /\ Written' /\ Untorn' /\ IndexSound' /\ cache' = s
    BY <1>1, <1>3, AnswerIsKept
<1>5. /\ label'[r] = s.tables.mwe_meta /\ rpc'[r] = "locking"
      /\ \A q \in Readers \ {r} : label'[q] = label[q] /\ rpc'[q] = rpc[q]
    BY <1>1 DEF Typed, TypeOK
<1>6. UNCHANGED <<store, unlabelled>>
    BY <1>1 DEF storeVars
<1>7. LockHeld'
    BY <1>1, <1>5 DEF LockHeld
<1>8. CacheSound'
    <2>1. label'[r] <= cache'.tables.mwe_meta
        BY <1>2, <1>4, <1>5
    <2> QED
        BY <1>1, <1>2, <1>4, <1>5, <2>1, CacheStaysSound
<1>9. HeldSound'
    <2>1. label'[r] <= store.mwe_meta
        BY <1>2, <1>5 DEF Sound
    <2> QED
        BY <1>1, <1>5, <1>6, <2>1, ReadersTellNobody DEF HeldSound
<1> HIDE DEF s
<1> QED
    BY <1>4, <1>7, <1>8, <1>9

LEMMA ExpressionsLoadedKeepsInv ==
    ASSUME CacheInv, NEW r \in Readers, ExpressionsLoaded(r)
    PROVE  CacheInv'
<1> USE DEF CacheInv
<1> DEFINE s == Snapshot(r)
<1>1. /\ rpc[r] = "expressions" /\ SnapshotReturned(r) /\ FetchForgotten(r)
      /\ rows' = [rows EXCEPT ![r] = [known |-> s.tables.mwe_expressions, torn |-> s.torn]]
      /\ rpc' = [rpc EXCEPT ![r] = "senses"]
      /\ UNCHANGED <<storeVars, reads, label, acked, index, lock, upsert>>
    BY DEF ExpressionsLoaded
<1>2. Sound(s) /\ s.tables \in TableContents /\ s.torn \in BOOLEAN
    BY <1>1, SnapshotIsSound DEF SnapshotReturned, Sound, Payload
<1>3. /\ rpc' \in [Readers -> Loading \union {"idle", "locking"}]
      /\ label' \in [Readers -> Nat]
    BY <1>1 DEF Typed, TypeOK, Loading
<1>4. rows' \in [Readers -> [known : SUBSET Occurrences, torn : BOOLEAN]]
    BY <1>1, <1>2 DEF Typed, TypeOK, TableContents
<1>5. /\ Typed' /\ Written' /\ Untorn' /\ IndexSound' /\ cache' = s
    BY <1>1, <1>3, <1>4, AnswerIsKept
<1>6. /\ rows'[r].known = s.tables.mwe_expressions /\ rows'[r].torn = s.torn
      /\ \A q \in Readers \ {r} : rows'[q] = rows[q] /\ rpc'[q] = rpc[q]
    BY <1>1 DEF Typed, TypeOK
<1>7. UNCHANGED <<store, unlabelled>>
    BY <1>1 DEF storeVars
<1>8. LockHeld'
    BY <1>1, <1>6 DEF LockHeld
<1>9. CacheSound'
    BY <1>1, <1>2, <1>5, <1>6, CacheStaysSound DEF Beyond
<1>10. ~s.torn => /\ Acknowledged["mwe_expressions"] \subseteq s.tables.mwe_expressions
                  /\ label[r] <= s.tables.mwe_meta
    BY <1>1, <1>2 DEF Sound, Told, RowTables, Beyond
<1>11. ~s.torn /\ label[r] = store.mwe_meta =>
           unlabelled \/ s.tables.mwe_expressions = store.mwe_expressions
    <2>1. label[r] \in Nat /\ s.tables.mwe_meta \in Nat /\ store.mwe_meta \in Nat
        BY <1>2 DEF Typed, TypeOK, TableContents
    <2>2. ~s.torn /\ label[r] = store.mwe_meta => s.tables.mwe_meta = store.mwe_meta
        BY <1>2, <1>10, <2>1 DEF Sound
    <2> QED
        BY <1>2, <2>2 DEF Sound, SameRows, RowTables
<1>12. HeldSound'
    BY <1>1, <1>6, <1>7, <1>10, <1>11, ReadersTellNobody DEF HeldSound
<1> HIDE DEF s
<1> QED
    BY <1>5, <1>8, <1>9, <1>12

(* What goes into an index: a version, and rows of two answers that are    *)
(* worth at least as much.                                                 *)
LEMMA BuiltIndexIsSound ==
    ASSUME CacheInv, NEW r \in Readers, SensesLoaded(r)
    PROVE  /\ index' \in [version : Nat, mwe_expressions : SUBSET Occurrences,
                          mwe_senses : SUBSET Occurrences, torn : BOOLEAN]
           /\ index'.version <= store.mwe_meta
           /\ ~index'.torn =>
                /\ \A t \in RowTables : Acknowledged[t] \subseteq index'[t]
                /\ index'.version = store.mwe_meta =>
                     unlabelled \/ \A t \in RowTables : index'[t] = store[t]
<1> USE DEF CacheInv
<1> DEFINE s == Snapshot(r)
<1>1. /\ rpc[r] = "senses" /\ SnapshotReturned(r)
      /\ index' = [version |-> label[r], mwe_expressions |-> rows[r].known,
                   mwe_senses |-> s.tables.mwe_senses \intersect rows[r].known,
                   torn |-> rows[r].torn \/ s.torn]
    BY DEF SensesLoaded, IndexBuilt, KnownSenses
<1>2. Sound(s) /\ s.tables \in TableContents /\ s.torn \in BOOLEAN
    BY <1>1, SnapshotIsSound DEF SnapshotReturned, Sound, Payload
<1>3. label[r] \in Nat /\ rows[r].known \in SUBSET Occurrences /\ rows[r].torn \in BOOLEAN
    BY DEF Typed, TypeOK
<1> HIDE DEF s
<1>4. index' \in [version : Nat, mwe_expressions : SUBSET Occurrences,
                  mwe_senses : SUBSET Occurrences, torn : BOOLEAN]
    BY <1>1, <1>2, <1>3 DEF TableContents
<1>5. /\ index'.version = label[r] /\ label[r] <= store.mwe_meta
      /\ index'["mwe_expressions"] = rows[r].known
      /\ index'["mwe_senses"] = s.tables.mwe_senses \intersect rows[r].known
      /\ ~index'.torn => ~rows[r].torn /\ ~s.torn
    BY <1>1, <1>3 DEF HeldSound
<1>6. ~s.torn => Acknowledged["mwe_senses"] \subseteq s.tables.mwe_senses
    BY <1>2 DEF Sound, Told, RowTables
<1>7. ~rows[r].torn => Acknowledged["mwe_expressions"] \subseteq rows[r].known
    BY <1>1 DEF HeldSound
<1>8. Acknowledged["mwe_senses"] \subseteq Acknowledged["mwe_expressions"]
    BY AckedParts DEF Written
<1>9. ~rows[r].torn /\ ~s.torn /\ label[r] = store.mwe_meta => unlabelled \/
          (rows[r].known = store.mwe_expressions /\ s.tables.mwe_senses = store.mwe_senses)
    <2> SUFFICES ASSUME ~rows[r].torn, ~s.torn, label[r] = store.mwe_meta, ~unlabelled
                 PROVE  /\ rows[r].known = store.mwe_expressions
                        /\ s.tables.mwe_senses = store.mwe_senses
        OBVIOUS
    <2>1. rows[r].known = store.mwe_expressions
        BY <1>1 DEF HeldSound
    <2>2. s.tables.mwe_meta \in Nat /\ store.mwe_meta \in Nat
        BY <1>2 DEF Typed, TypeOK, TableContents
    <2>3. label[r] <= s.tables.mwe_meta /\ s.tables.mwe_meta <= store.mwe_meta
        BY <1>1, <1>2 DEF Sound, Beyond
    <2>4. s.tables.mwe_meta = store.mwe_meta
        BY <1>3, <2>2, <2>3
    <2> QED
        BY <1>2, <2>1, <2>4 DEF Sound, SameRows, RowTables
<1>10. \A t \in RowTables : t = "mwe_expressions" \/ t = "mwe_senses"
    BY DEF RowTables
<1>11. ~index'.torn => \A t \in RowTables : Acknowledged[t] \subseteq index'[t]
    BY <1>5, <1>6, <1>7, <1>8, <1>10
<1>12. store["mwe_senses"] \subseteq store["mwe_expressions"]
    BY DEF Written
<1>13. ~index'.torn /\ index'.version = store.mwe_meta =>
           unlabelled \/ \A t \in RowTables : index'[t] = store[t]
    BY <1>5, <1>9, <1>10, <1>12
<1> QED
    BY <1>4, <1>5, <1>11, <1>13

LEMMA SensesLoadedKeepsInv ==
    ASSUME CacheInv, NEW r \in Readers, SensesLoaded(r)
    PROVE  CacheInv'
<1>1. /\ rpc[r] = "senses" /\ SnapshotReturned(r) /\ lock' = None /\ Return(r)
      /\ UNCHANGED <<storeVars, reads, upsert>>
    BY DEF SensesLoaded
<1>2. Sound(cache')
    BY <1>1, SnapshotIsSound DEF SnapshotReturned
<1>3. lock' = LockReleased(r)
    BY <1>1 DEF LockReleased, CacheInv, LockHeld
<1>4. Typed' /\ Written' /\ LockHeld' /\ Untorn' /\ CacheSound' /\ HeldSound'
    BY <1>1, <1>2, <1>3, BuiltIndexIsSound, ReturnIsSafe
<1>5. IndexSound'
    <2>1. UNCHANGED <<store, unlabelled>>
        BY <1>1 DEF storeVars
    <2>2. CurrentVersionMeansCurrentRows'
        BY <2>1, BuiltIndexIsSound DEF CurrentVersionMeansCurrentRows, RowTables
    <2> QED
        BY <1>1, <2>1, <2>2, BuiltIndexIsSound, ReadersTellNobody DEF IndexSound
<1> QED
    BY <1>4, <1>5 DEF CacheInv

LEMMA CacheStep ==
    ASSUME CacheInv, [Next]_vars
    PROVE  CacheInv'
<1>1. CASE \E r \in Readers : Begin(r) \/ Continue(r)
    BY <1>1, BeginKeepsInv, FetchStartsKeepsInv, TableReadKeepsInv, FetchFailsKeepsInv,
       VersionLoadedKeepsInv, IndexHitKeepsInv, RebuildKeepsInv,
       ExpressionsLoadedKeepsInv, SensesLoadedKeepsInv DEF Continue
<1>2. CASE \E w \in Occurrences : Writer(w)
    BY <1>2, StatementKeepsInv, BumpKeepsInv, ServiceDropsKeepsInv, UpsertKeepsInv,
       UpsertReturnsKeepsInv, InvalidationKeepsInv DEF Writer
<1>3. CASE CacheExpires
    BY <1>3, CacheExpiresKeepsInv
<1>4. CASE UNCHANGED vars
    <2>1. /\ UNCHANGED <<storeVars, upsert, index, cache>>
          /\ UNCHANGED <<store, request, unlabelled, rpc, reads, fetch, label, rows, torn,
                         acked, lock>>
        BY <1>4 DEF vars, storeVars, readerVars
    <2>2. Typed' /\ Written' /\ LockHeld' /\ Untorn'
        BY <2>1 DEF CacheInv, Typed, TypeOK, TableContents, Written, LockHeld, Untorn
    <2>3. CacheSound'
        BY <2>1, CacheStaysSound
    <2>4. HeldSound'
        BY <2>1, ReadersTellNobody DEF CacheInv, HeldSound
    <2> QED
        BY <2>1, <2>2, <2>3, <2>4, IndexKept DEF CacheInv
<1>5. CASE AllAtRest
    BY <1>4, <1>5 DEF AllAtRest
<1> QED
    BY <1>1, <1>2, <1>3, <1>4, <1>5 DEF Next

-----------------------------------------------------------------------------
(* Every variable of the cache path keeps its type; only complete answers  *)
(* of the service are ever cached.                                         *)
THEOREM SpecTypeOK == Spec => []TypeOK
<1>1. CacheInv => TypeOK
    BY DEF CacheInv, Typed
<1> QED
    BY CacheInit, CacheStep, <1>1, PTL DEF Spec

(* For any number of parses and upserts: an index that carries the current *)
(* version has the rows of the store, unless one is still unlabelled or an *)
(* answer was torn.                                                        *)
THEOREM SpecCurrentVersionMeansCurrentRows == Spec => []CurrentVersionMeansCurrentRows
<1>1. CacheInv => CurrentVersionMeansCurrentRows
    BY DEF CacheInv, IndexSound, CurrentVersionMeansCurrentRows
<1> QED
    BY CacheInit, CacheStep, <1>1, PTL DEF Spec

(* For any number of parses and upserts: a parse that begins after an      *)
(* upsert was acknowledged works with an index that has it, unless an      *)
(* answer was torn.                                                        *)
THEOREM SpecAcknowledgedIsVisible == Spec => AcknowledgedIsVisible
<1> DEFINE Shown ==
        \A r \in Readers :
            (IndexHit(r) \/ SensesLoaded(r)) =>
               (index'.torn \/ \A t \in RowTables : acked[r][t] \subseteq index'[t])
<1>1. CacheInv => Shown
    <2> SUFFICES ASSUME CacheInv, NEW r \in Readers, IndexHit(r) \/ SensesLoaded(r),
                        NEW t \in RowTables, ~index'.torn
                 PROVE  acked[r][t] \subseteq index'[t]
        OBVIOUS
    <2>1. acked[r][t] \subseteq Acknowledged[t]
        BY DEF CacheInv, HeldSound
    <2>2. CASE IndexHit(r)
        BY <2>1, <2>2 DEF IndexHit, IndexServes, CacheInv, IndexSound
    <2>3. CASE SensesLoaded(r)
        BY <2>1, <2>3, BuiltIndexIsSound
    <2> QED
        BY <2>2, <2>3
<1>2. CacheInv /\ [Next]_vars => [Shown]_vars
    BY <1>1
<1> QED
    BY CacheInit, CacheStep, <1>2, PTL DEF Spec, AcknowledgedIsVisible

-----------------------------------------------------------------------------
(***************************************************************************)
(* For any number of request threads and processes: no llama-server is     *)
(* left running without an owner unless two calls of ensure_started have   *)
(* overlapped.  The invariant adds what holds while they have not: one     *)
(* caller at most is under way, and a process is only forgotten, by        *)
(* self._process = process, when it has ended.                             *)
(***************************************************************************)

\* At most one caller is inside ensure_started or close.
OneCaller == \A c, d \in Callers : pc[c] # "idle" /\ pc[d] # "idle" => c = d

\* What the manager names has been started, and so has what a caller holds.
Started ==
    /\ managed # NoProc => proc[managed] # "unborn"
    /\ \A c \in Callers : pc[c] \in {"record", "wait", "kill"} =>
          own[c] \in Procs /\ proc[own[c]] # "unborn"

\* Nothing alive is named when a new process is about to take its place.
Replaceable ==
    \A c \in Callers :
        /\ pc[c] \in {"spawn", "record"} => ~IsServerAlive
        /\ pc[c] = "kill" => managed = NoProc

RuntimeInv ==
    /\ RuntimeTypeOK
    /\ Started
    /\ ~overlap => OneCaller /\ Replaceable /\ \A p \in Procs : Alive(p) => Accounted(p)

USE DEF ProcStates, Returns, Points

\* The state the service starts in satisfies the invariant.
LEMMA RuntimeInitInv == RuntimeInit => RuntimeInv
  <1> SUFFICES ASSUME RuntimeInit PROVE RuntimeInv
    OBVIOUS
  <1>1. RuntimeTypeOK
    BY DEF RuntimeInit, RuntimeTypeOK
  <1>2. Started /\ OneCaller /\ Replaceable
    BY RuntimeAssumption DEF RuntimeInit, Started, OneCaller, Replaceable, IsServerAlive
  <1>3. \A p \in Procs : ~Alive(p)
    BY DEF RuntimeInit, Alive
  <1> QED BY <1>1, <1>2, <1>3 DEF RuntimeInv

\* What the external process does on its own disturbs nothing: it never gets
\* from ended or unborn to alive.
LEMMA ProcessStep ==
  ASSUME RuntimeInv, NEW p \in Procs, Bind(p) \/ Loaded(p) \/ Stall(p) \/ Recover(p) \/ Crash(p)
  PROVE  RuntimeInv'
  <1>1. RuntimeTypeOK'
    BY DEF RuntimeInv, RuntimeTypeOK, Bind, Loaded, Stall, Recover, Crash
  <1>2. /\ Alive(p) /\ UNCHANGED <<pc, own, managed, overlap>>
        /\ \A q \in Procs : q # p => proc'[q] = proc[q]
        /\ proc'[p] # "unborn"
    BY DEF RuntimeInv, RuntimeTypeOK, Bind, Loaded, Stall, Recover, Crash, Alive
  <1>3. Started'
    BY <1>2 DEF RuntimeInv, RuntimeTypeOK, Started
  <1>4. \A q \in Procs : Alive(q)' => Alive(q)
    BY <1>2 DEF Alive
  <1>5. ~overlap' => OneCaller' /\ Replaceable' /\ \A q \in Procs : Alive(q)' => Accounted(q)'
    BY <1>2, <1>4, RuntimeAssumption DEF RuntimeInv, RuntimeTypeOK, OneCaller, Replaceable, IsServerAlive, Accounted
  <1> QED BY <1>1, <1>3, <1>5 DEF RuntimeInv

\* A call that begins alone keeps the callers one at a time.
LEMMA CallBegins ==
  ASSUME RuntimeInv, NEW c \in Callers, EnsureStarted(c)
  PROVE  RuntimeInv'
  <1>1. RuntimeTypeOK'
    BY DEF RuntimeInv, RuntimeTypeOK, EnsureStarted, Goto
  <1>2. /\ pc[c] = "idle" /\ \A d \in Callers : d # c => pc'[d] = pc[d]
        /\ pc'[c] \in {"idle", "check"}
        /\ overlap' = (overlap \/ \E d \in Callers : pc[d] # "idle")
        /\ UNCHANGED <<proc, own, managed>>
    BY DEF RuntimeInv, RuntimeTypeOK, EnsureStarted, Goto
  <1>3. Started'
    BY <1>2 DEF RuntimeInv, Started
  <1>4. ~overlap' => OneCaller' /\ Replaceable' /\ \A q \in Procs : Alive(q)' => Accounted(q)'
    BY <1>2 DEF RuntimeInv, OneCaller, Replaceable, IsServerAlive, Accounted, Alive
  <1> QED BY <1>1, <1>3, <1>4 DEF RuntimeInv

\* No step of a caller lets go of a process that still runs.
LEMMA CallerStep ==
  ASSUME RuntimeInv, NEW c \in Callers, Step(c)
  PROVE  RuntimeInv'
  <1> USE RuntimeAssumption
  <1>1. CASE CheckExited(c)
    BY <1>1 DEF RuntimeInv, RuntimeTypeOK, CheckExited, CloseTo, Goto, Started, OneCaller, Replaceable, IsServerAlive, Accounted, Alive
  <1>2. CASE Probe(c)
    BY <1>2 DEF RuntimeInv, RuntimeTypeOK, Probe, Goto, Started, OneCaller, Replaceable, IsServerAlive, Accounted, Alive
  <1>3. CASE Decide(c)
    BY <1>3 DEF RuntimeInv, RuntimeTypeOK, Decide, CloseTo, Goto, Started, OneCaller, Replaceable, IsServerAlive, Accounted, Alive
  <1>4. CASE NoConfig(c) \/ PopenFails(c)
    BY <1>4 DEF RuntimeInv, RuntimeTypeOK, NoConfig, PopenFails, Goto, Started, OneCaller, Replaceable, IsServerAlive, Accounted, Alive
  <1>5. CASE Popen(c)
    <2>1. PICK p \in Procs : proc[p] = "unborn" /\ proc' = [proc EXCEPT ![p] = "unbound"]
                               /\ own' = [own EXCEPT ![c] = p]
      BY <1>5 DEF Popen
    <2>2. RuntimeTypeOK'
      BY <1>5, <2>1 DEF RuntimeInv, RuntimeTypeOK, Popen, Goto
    <2>3. Started'
      BY <1>5, <2>1 DEF RuntimeInv, RuntimeTypeOK, Started, Popen, Goto
    <2>4. ~overlap' => OneCaller' /\ Replaceable'
      BY <1>5, <2>1 DEF RuntimeInv, RuntimeTypeOK, Started, OneCaller, Replaceable, IsServerAlive, Alive, Popen, Goto
    <2>5. ~overlap' => \A q \in Procs : Alive(q)' => Accounted(q)'
      BY <1>5, <2>1 DEF RuntimeInv, RuntimeTypeOK, Started, Accounted, Alive, Popen, Goto
    <2> QED BY <2>2, <2>3, <2>4, <2>5 DEF RuntimeInv
  <1>6. CASE Record(c)
    <2>1. RuntimeTypeOK' /\ Started'
      BY <1>6 DEF RuntimeInv, RuntimeTypeOK, Started, Record, Goto
    <2>2. ~overlap' => OneCaller' /\ Replaceable'
      BY <1>6 DEF RuntimeInv, RuntimeTypeOK, OneCaller, Replaceable, IsServerAlive, Alive, Record, Goto
    <2>3. ~overlap' => \A q \in Procs : Alive(q)' => Accounted(q)'
      BY <1>6 DEF RuntimeInv, RuntimeTypeOK, Replaceable, IsServerAlive, Accounted, Alive, Record, Goto
    <2> QED BY <2>1, <2>2, <2>3 DEF RuntimeInv
  <1>7. CASE WaitEnds(c)
    BY <1>7 DEF RuntimeInv, RuntimeTypeOK, WaitEnds, CloseTo, Goto, Started, OneCaller, Replaceable, IsServerAlive, Accounted, Alive
  <1>8. CASE WaitTimesOut(c)
    BY <1>8 DEF RuntimeInv, RuntimeTypeOK, WaitTimesOut, CloseTo, Goto, Started, OneCaller, Replaceable, IsServerAlive, Accounted, Alive
  <1>9. CASE Take(c)
    <2>1. RuntimeTypeOK' /\ Started'
      BY <1>9 DEF RuntimeInv, RuntimeTypeOK, Started, IsServerAlive, Take, Goto
    <2>2. ~overlap' => OneCaller' /\ Replaceable'
      BY <1>9 DEF RuntimeInv, RuntimeTypeOK, OneCaller, Replaceable, IsServerAlive, Alive, Take, Goto
    <2>3. ~overlap' => \A q \in Procs : Alive(q)' => Accounted(q)'
      BY <1>9 DEF RuntimeInv, RuntimeTypeOK, OneCaller, IsServerAlive, Accounted, Alive, Take, Goto
    <2> QED BY <2>1, <2>2, <2>3 DEF RuntimeInv
  <1>10. CASE Kill(c)
    <2>1. RuntimeTypeOK' /\ Started'
      BY <1>10 DEF RuntimeInv, RuntimeTypeOK, Started, Kill, Goto
    <2>2. ~overlap' => OneCaller' /\ Replaceable'
      BY <1>10 DEF RuntimeInv, RuntimeTypeOK, OneCaller, Replaceable, IsServerAlive, Alive, Kill, Goto
    <2>3. ~overlap' => \A q \in Procs : Alive(q)' => Accounted(q)'
      BY <1>10 DEF RuntimeInv, RuntimeTypeOK, Started, Accounted, Alive, Kill, Goto
    <2> QED BY <2>1, <2>2, <2>3 DEF RuntimeInv
  <1> QED BY <1>1, <1>2, <1>3, <1>4, <1>5, <1>6, <1>7, <1>8, <1>9, <1>10 DEF Step

\* Start-up, shutdown and warm-up leave the processes alone; the shutdown is
\* a caller of its own that comes when all others are done.
LEMMA ServiceStep ==
  ASSUME RuntimeInv, WarmUpEnds \/ StartWarmUp \/ Serve \/ Shutdown \/ Stopped
  PROVE  RuntimeInv'
  <1> USE RuntimeAssumption
  <1>1. CASE WarmUpEnds \/ StartWarmUp \/ Serve \/ Stopped
    BY <1>1 DEF RuntimeInv, RuntimeTypeOK, WarmUpEnds, StartWarmUp, Serve, Stopped, Started, OneCaller, Replaceable, IsServerAlive, Accounted, Alive
  <1>2. CASE Shutdown
    BY <1>2 DEF RuntimeInv, RuntimeTypeOK, Shutdown, CloseTo, Goto, Started, OneCaller, Replaceable, IsServerAlive, Accounted, Alive
  <1> QED BY <1>1, <1>2

\* Every reachable state satisfies the invariant.
LEMMA SpecRuntimeInv == RuntimeSpec => []RuntimeInv
  <1>1. RuntimeInv /\ [RuntimeNext]_runtimeVars => RuntimeInv'
    <2> SUFFICES ASSUME RuntimeInv, [RuntimeNext]_runtimeVars PROVE RuntimeInv'
      OBVIOUS
    <2>1. CASE UNCHANGED runtimeVars
      BY <2>1 DEF runtimeVars, RuntimeInv, RuntimeTypeOK, Started, OneCaller, Replaceable, IsServerAlive, Accounted, Alive
    <2>2. CASE RuntimeNext
      BY <2>2, ProcessStep, CallBegins, CallerStep, ServiceStep DEF RuntimeNext
    <2> QED BY <2>1, <2>2
  <1> QED BY RuntimeInitInv, <1>1, PTL DEF RuntimeSpec

\* For any number of threads and processes, a llama-server that runs has an
\* owner unless calls of ensure_started have overlapped.
THEOREM SpecOrphanNeedsOverlap == RuntimeSpec => []OrphanNeedsOverlap
  <1>1. RuntimeInv => OrphanNeedsOverlap
    BY DEF RuntimeInv, OrphanNeedsOverlap
  <1> QED BY SpecRuntimeInv, <1>1, PTL

---------------------------------------------------------------------------
\* One server at a time, and none kept that was never ready.

Waiting(c) == pc[c] = "wait" \/ (pc[c] = "take" /\ ret[c] = "idle")

\* Once ready, whatever has become of it.
WasReady(p) == proc[p] \in {"serving", "stalled", "exited", "killed"}

\* Unless somebody still waits for it, what the manager names has been ready
\* once, or has ended.
KeptWasReady == (\A c \in Callers : ~Waiting(c)) /\ managed # NoProc => WasReady(managed)

KeptInv == RuntimeInv /\ (~overlap => KeptWasReady)

LEMMA KeptInit == RuntimeInit => KeptInv
  BY RuntimeInitInv DEF RuntimeInit, KeptInv, KeptWasReady

\* A process never forgets that it was ready.
LEMMA ProcessKept ==
  ASSUME KeptInv, NEW p \in Procs,
         Bind(p) \/ Loaded(p) \/ Stall(p) \/ Recover(p) \/ Crash(p), ~overlap'
  PROVE  KeptWasReady'
  <1>1. /\ UNCHANGED <<pc, managed, ret, overlap>>
        /\ \A q \in Procs : WasReady(q) => WasReady(q)'
    BY DEF KeptInv, RuntimeInv, RuntimeTypeOK, Bind, Loaded, Stall, Recover, Crash, Alive, WasReady
  <1>2. KeptWasReady /\ (managed # NoProc => managed \in Procs)
    BY <1>1 DEF KeptInv, RuntimeInv, RuntimeTypeOK
  <1> HIDE DEF WasReady
  <1>3. (\A c \in Callers : ~Waiting(c)') <=> (\A c \in Callers : ~Waiting(c))
    BY <1>1 DEF Waiting
  <1>4. managed # NoProc => (WasReady(managed) => WasReady(managed)')
    BY <1>1, <1>2
  <1> QED BY <1>1, <1>2, <1>3, <1>4 DEF KeptWasReady, WasReady

\* Calls that begin and the service leave the processes alone.
LEMMA OthersKept ==
  ASSUME KeptInv, ~overlap',
         \/ \E c \in Callers : EnsureStarted(c)
         \/ WarmUpEnds \/ StartWarmUp \/ Serve \/ Shutdown \/ Stopped
  PROVE  KeptWasReady'
  <1>1. UNCHANGED <<managed, proc>> /\ ~overlap
    BY DEF KeptInv, RuntimeInv, RuntimeTypeOK, EnsureStarted, WarmUpEnds, StartWarmUp, Serve, Shutdown, Stopped
  <1>2. \A c \in Callers : Waiting(c) => Waiting(c)'
    BY DEF KeptInv, RuntimeInv, RuntimeTypeOK, EnsureStarted, WarmUpEnds, StartWarmUp, Serve, Shutdown, Stopped,
       CloseTo, Goto, Waiting
  <1> QED BY <1>1, <1>2 DEF KeptInv, KeptWasReady, WasReady

\* The one caller under way waits until its process is ready, or has it stopped.
LEMMA StepKept ==
  ASSUME KeptInv, NEW c \in Callers, Step(c), ~overlap'
  PROVE  KeptWasReady'
  <1>0. pc[c] # "idle" /\ overlap' = overlap
    BY DEF Step, CheckExited, Probe, Decide, NoConfig, PopenFails, Popen, Record, WaitEnds, WaitTimesOut, Take, Kill
  <1>1. /\ RuntimeTypeOK /\ Started /\ OneCaller /\ Replaceable /\ KeptWasReady
        /\ \A p \in Procs : Alive(p) => Accounted(p)
    BY <1>0 DEF KeptInv, RuntimeInv
  <1>2. \A d \in Callers : d # c => pc[d] = "idle"
    BY <1>0, <1>1 DEF OneCaller
  <1>3. ~Waiting(c) /\ managed # NoProc => WasReady(managed)
    BY <1>1, <1>2 DEF KeptWasReady, Waiting
  <1>4. SUFFICES ~Waiting(c)' /\ managed' # NoProc => WasReady(managed)'
    BY DEF KeptWasReady
  <1>5. CASE CheckExited(c)
    BY <1>1, <1>3, <1>5 DEF CheckExited, CloseTo, Goto, RuntimeTypeOK, Waiting, WasReady
  <1>6. CASE Probe(c)
    BY <1>1, <1>3, <1>6 DEF Probe, Goto, RuntimeTypeOK, Waiting, WasReady
  <1>7. CASE Decide(c)
    BY <1>1, <1>3, <1>7 DEF Decide, CloseTo, Goto, RuntimeTypeOK, Waiting, WasReady
  <1>8. CASE NoConfig(c) \/ PopenFails(c)
    BY <1>1, <1>3, <1>8 DEF NoConfig, PopenFails, Goto, RuntimeTypeOK, Waiting, WasReady
  <1>9. CASE Popen(c)
    <2>1. /\ UNCHANGED managed /\ pc' = [pc EXCEPT ![c] = "record"]
          /\ \A q \in Procs : proc[q] # "unborn" => proc'[q] = proc[q]
      BY <1>1, <1>9 DEF Popen, Goto, RuntimeTypeOK
    <2> QED BY <1>1, <1>3, <1>9, <2>1 DEF Popen, Goto, RuntimeTypeOK, Waiting, WasReady, Started
  <1>10. CASE Record(c)
    BY <1>1, <1>10 DEF Record, Goto, RuntimeTypeOK, Waiting
  <1>11. CASE WaitEnds(c)
    <2>1. CASE CloseTo(c, "idle")
      BY <1>1, <1>11, <2>1 DEF WaitEnds, CloseTo, Goto, RuntimeTypeOK, Waiting
    <2>2. CASE EndpointReady /\ Goto(c, "idle") /\ UNCHANGED ret
      <3>1. PICK p \in Procs : proc[p] = "serving"
        BY <2>2 DEF EndpointReady
      <3>2. Accounted(p)
        BY <1>1, <3>1 DEF Alive
      <3>3. managed = p
        BY <1>2, <1>11, <3>2 DEF Accounted, WaitEnds
      <3> QED BY <1>1, <1>11, <2>2, <3>1, <3>3 DEF WaitEnds, WasReady
    <2> QED BY <1>11, <2>1, <2>2 DEF WaitEnds
  <1>12. CASE WaitTimesOut(c)
    BY <1>1, <1>12 DEF WaitTimesOut, CloseTo, Goto, RuntimeTypeOK, Waiting
  <1>13. CASE Take(c)
    BY <1>13 DEF Take
  <1>14. CASE Kill(c)
    BY <1>1, <1>14 DEF Kill, Replaceable
  <1> QED BY <1>5, <1>6, <1>7, <1>8, <1>9, <1>10, <1>11, <1>12, <1>13, <1>14 DEF Step

LEMMA SpecKeptInv == RuntimeSpec => []KeptInv
  <1>1. KeptInv /\ RuntimeInv' /\ [RuntimeNext]_runtimeVars => KeptInv'
    <2> SUFFICES ASSUME KeptInv, RuntimeInv', [RuntimeNext]_runtimeVars, ~overlap'
                 PROVE  KeptWasReady'
      BY DEF KeptInv
    <2>1. CASE UNCHANGED runtimeVars
      BY <2>1 DEF runtimeVars, KeptInv, KeptWasReady, Waiting, WasReady
    <2>2. CASE RuntimeNext
      BY <2>2, ProcessKept, OthersKept, StepKept DEF RuntimeNext
    <2> QED BY <2>1, <2>2
  <1> QED BY KeptInit, SpecRuntimeInv, <1>1, PTL DEF RuntimeSpec

\* For any number of threads and processes, calls that do not overlap run one
\* server at a time and leave none to the manager that was never ready.
THEOREM SpecOneServerAtATime == RuntimeSpec => []OneServerAtATime
  <1>1. KeptInv => OneServerAtATime
    <2> SUFFICES ASSUME KeptInv, ~overlap PROVE OneServerAtATime
      BY DEF OneServerAtATime
    <2>1. /\ RuntimeTypeOK /\ OneCaller /\ Replaceable /\ KeptWasReady
          /\ \A p \in Procs : Alive(p) => Accounted(p)
      BY DEF KeptInv, RuntimeInv
    <2>2. ASSUME NEW p \in Procs, NEW q \in Procs, Alive(p), Alive(q)
          PROVE  p = q
      <3>1. Accounted(p) /\ Accounted(q)
        BY <2>1, <2>2
      <3>2. \A c \in Callers : pc[c] \in {"record", "kill"} => ~IsServerAlive
        BY <2>1, RuntimeAssumption DEF Replaceable, IsServerAlive
      <3>3. CASE managed = p \/ managed = q
        <4>1. IsServerAlive
          BY <2>2, <3>3, RuntimeAssumption DEF IsServerAlive
        <4> QED BY <3>1, <3>2, <4>1 DEF Accounted
      <3>4. CASE managed # p /\ managed # q
        BY <2>1, <3>1, <3>4 DEF Accounted, OneCaller
      <3> QED BY <3>3, <3>4
    <2>3. ASSUME \A c \in Callers : pc[c] = "idle", IsServerAlive
          PROVE  proc[managed] \in {"serving", "stalled"}
      BY <2>1, <2>3 DEF KeptWasReady, WasReady, Waiting, IsServerAlive, Alive
    <2> QED BY <2>2, <2>3 DEF OneServerAtATime
  <1> QED BY SpecKeptInv, <1>1, PTL
=============================================================================
