--------------------------- MODULE MweIndexCache ---------------------------
(***************************************************************************)
(* How the NLP service sees the multi-word expressions of the lexicon.     *)
(* A parse takes an index from MweIndexProvider, which rebuilds it when    *)
(* the mwe_version differs; version and rows come through the snapshot     *)
(* cache of _HttpLexiconSnapshotClient, which asks the lexicon service for *)
(* all tables at once; the service reads every table in a statement of its *)
(* own.  The third pass upserts an expression and then its sense; the      *)
(* service writes the row and bumps the version in two statements.         *)
(*                                                                         *)
(* The contents of a table are the set of upserts it has absorbed.  Each   *)
(* occurrence names an expression of its own.                              *)
(***************************************************************************)
EXTENDS Naturals

CONSTANTS
    Readers,        \* threads of the NLP service that ask for an index
    Occurrences,    \* expressions the third pass found, each upserted once
    MaxReads,       \* bound on the requests of all readers together
    None            \* no payload, no index, no lock holder

ASSUME MaxReadsAssumption == MaxReads \in Nat
ASSUME NoneAssumption == None \notin Readers

VARIABLES
    store,      \* the tables mwe_meta, mwe_expressions and mwe_senses
    rpc,        \* where each reader is; "idle" between requests
    reads,      \* how many requests the readers have made
    fetch,      \* the export-snapshot answer each reader is waiting for
    label,      \* current_version of get_snapshot
    rows,       \* expression_rows of _build_snapshot
    cache,      \* _snapshot_cache, None also when its TTL has passed
    index,      \* _snapshot of MweIndexProvider
    lock,       \* the reader in the "with self._lock" of get_snapshot
    upsert,     \* the upsert each occurrence is at, and where its thread is
    request,    \* what the lexicon service has done of that upsert
    torn,       \* history: fetches during which the store changed
    unlabelled, \* history: a row has changed since the version last did
    acked       \* history: what was acknowledged when a reader began

storeVars == <<store, request, unlabelled>>
readerVars == <<rpc, reads, fetch, label, rows, torn, acked>>
vars == <<storeVars, readerVars, cache, index, lock, upsert>>

RowTables == {"mwe_expressions", "mwe_senses"}
Tables == RowTables \union {"mwe_meta"}

Loading == {"version", "expressions", "senses"}

NoRows == [known |-> {}, torn |-> FALSE]
NothingAcked == [mwe_expressions |-> {}, mwe_senses |-> {}]

Init ==
    /\ store = [mwe_meta |-> 0, mwe_expressions |-> {}, mwe_senses |-> {}]
    /\ rpc = [r \in Readers |-> "idle"]
    /\ reads = 0
    /\ fetch = [r \in Readers |-> None]
    /\ label = [r \in Readers |-> 0]
    /\ rows = [r \in Readers |-> NoRows]
    /\ cache = None
    /\ index = None
    /\ lock = None
    /\ upsert = [w \in Occurrences |-> [table |-> "mwe_expressions", at |-> "ready"]]
    /\ request = [w \in Occurrences |-> "none"]
    /\ torn = [r \in Readers |-> FALSE]
    /\ unlabelled = FALSE
    /\ acked = [r \in Readers |-> NothingAcked]

-----------------------------------------------------------------------------
(* The lexicon service: one statement at a time.                           *)

(* A statement that changes the store while a fetch is under way.          *)
StoreChanges == torn' = [r \in Readers |-> torn[r] \/ fetch[r] # None]

(* Mutation: the version first and the row after it. *)
StatementRunsAfterBump(w) ==
    /\ request[w] = "sent"
    /\ store' = [store EXCEPT ![upsert[w].table] = @ \union {w},
                              !.mwe_meta = @ + 1]
    /\ unlabelled' = FALSE
    /\ request' = [request EXCEPT ![w] = "written"]
    /\ UNCHANGED <<rpc, reads, fetch, label, rows, acked, cache, index, lock,
                   upsert, torn>>

(* INSERT ... ON CONFLICT DO UPDATE, committed by itself. *)
StatementRuns(w) ==
    /\ request[w] = "sent"
    /\ store' = [store EXCEPT ![upsert[w].table] = @ \union {w}]
    /\ unlabelled' = TRUE
    /\ request' = [request EXCEPT ![w] = "written"]
    /\ StoreChanges
    /\ UNCHANGED <<rpc, reads, fetch, label, rows, acked, cache, index, lock, upsert>>

(* bumpMeta, a statement of its own on the pool. *)
VersionBumps(w) ==
    /\ request[w] = "written"
    /\ store' = [store EXCEPT !.mwe_meta = @ + 1]
    /\ unlabelled' = FALSE
    /\ request' = [request EXCEPT ![w] = "bumped"]
    /\ StoreChanges
    /\ UNCHANGED <<rpc, reads, fetch, label, rows, acked, cache, index, lock, upsert>>

(* The service dies, or its statement fails, before the upsert is whole.   *)
ServiceDrops(w) ==
    /\ request[w] \in {"sent", "written"}
    /\ request' = [request EXCEPT ![w] = "dropped"]
    /\ UNCHANGED <<store, unlabelled, readerVars, cache, index, lock, upsert>>

-----------------------------------------------------------------------------
(* The third pass: upsert_mwe_records_from_occurrences.                    *)

UpsertSent(w) ==
    /\ upsert[w].at = "ready"
    /\ upsert' = [upsert EXCEPT ![w].at = "waiting"]
    /\ request' = [request EXCEPT ![w] = "sent"]
    /\ UNCHANGED <<store, unlabelled, readerVars, cache, index, lock>>

(* An error answer or the timeout: the occurrence is given up, nothing is  *)
(* invalidated, and the service may still be at work.                      *)
UpsertFails(w) ==
    /\ upsert[w].at = "waiting"
    /\ upsert' = [upsert EXCEPT ![w].at = "failed"]
    /\ UNCHANGED <<storeVars, readerVars, cache, index, lock>>

(* Mutation: the snapshot cache survives the upsert. *)
UpsertReturnsCached(w) ==
    /\ upsert[w].at = "waiting"
    /\ request[w] = "bumped"
    /\ upsert' = [upsert EXCEPT ![w].at = "invalidating"]
    /\ UNCHANGED <<storeVars, readerVars, cache, index, lock>>

(* The answer arrives and the snapshot client drops its cache. *)
UpsertReturns(w) ==
    /\ upsert[w].at = "waiting"
    /\ request[w] = "bumped"
    /\ cache' = None
    /\ upsert' = [upsert EXCEPT ![w].at = "invalidating"]
    /\ UNCHANGED <<storeVars, readerVars, index, lock>>

(* MweIndexProvider.invalidate, then the sense of the expression is next.  *)
IndexInvalidated(w) ==
    /\ upsert[w].at = "invalidating"
    /\ lock = None
    /\ index' = None
    /\ upsert' = [upsert EXCEPT ![w] =
                    IF @.table = "mwe_expressions"
                    THEN [table |-> "mwe_senses", at |-> "ready"]
                    ELSE [table |-> "mwe_senses", at |-> "done"]]
    /\ request' = [request EXCEPT ![w] = "none"]
    /\ UNCHANGED <<store, unlabelled, readerVars, cache, lock>>

Writer(w) ==
    \/ StatementRuns(w) \/ VersionBumps(w) \/ ServiceDrops(w)
    \/ UpsertSent(w) \/ UpsertFails(w) \/ UpsertReturns(w) \/ IndexInvalidated(w)

-----------------------------------------------------------------------------
(* lexicon_snapshot: from the cache, or from the service.                  *)

(* What third-pass threads have been told is in the store. *)
Acknowledged ==
    [mwe_expressions |-> {w \in Occurrences : upsert[w].table = "mwe_senses"},
     mwe_senses |-> {w \in Occurrences : upsert[w].at = "done"}]

(* A parse asks for an index.  Other readers of the snapshot cache, such as*)
(* statistics(), do to it what a parse does that has loaded its version.   *)
Begin(r) ==
    /\ rpc[r] = "idle"
    /\ reads < MaxReads
    /\ reads' = reads + 1
    /\ rpc' = [rpc EXCEPT ![r] = "version"]
    /\ acked' = [acked EXCEPT ![r] = Acknowledged]
    /\ UNCHANGED <<storeVars, fetch, label, rows, torn, cache, index, lock, upsert>>

FetchStarts(r) ==
    /\ rpc[r] \in Loading
    /\ fetch[r] = None
    /\ cache = None
    /\ fetch' = [fetch EXCEPT ![r] = <<>>]
    /\ UNCHANGED <<storeVars, rpc, reads, label, rows, torn, acked, cache, index,
                   lock, upsert>>

WithTable(answer, t) ==
    [u \in DOMAIN answer \union {t} |-> IF u = t THEN store[t] ELSE answer[u]]

(* One statement of exportSnapshot; the tables are read in any order. *)
TableRead(r) ==
    /\ fetch[r] # None
    /\ \E t \in Tables \ DOMAIN fetch[r] :
         fetch' = [fetch EXCEPT ![r] = WithTable(@, t)]
    /\ UNCHANGED <<storeVars, rpc, reads, label, rows, torn, acked, cache, index,
                   lock, upsert>>

(* The request ends, and its local variables with it. *)
Return(r) ==
    /\ rpc' = [rpc EXCEPT ![r] = "idle"]
    /\ fetch' = [fetch EXCEPT ![r] = None]
    /\ label' = [label EXCEPT ![r] = 0]
    /\ rows' = [rows EXCEPT ![r] = NoRows]
    /\ torn' = [torn EXCEPT ![r] = FALSE]
    /\ acked' = [acked EXCEPT ![r] = NothingAcked]

LockReleased(r) == IF lock = r THEN None ELSE lock

(* The error leaves get_snapshot through the "with" and ends the request.  *)
FetchFails(r) ==
    /\ fetch[r] # None
    /\ Return(r)
    /\ lock' = LockReleased(r)
    /\ UNCHANGED <<storeVars, reads, cache, index, upsert>>

(* A cached payload is used until its TTL passes. *)
CacheExpires ==
    /\ cache # None
    /\ cache' = None
    /\ UNCHANGED <<storeVars, readerVars, index, lock, upsert>>

HasSnapshot(r) ==
    IF fetch[r] = None THEN cache # None ELSE DOMAIN fetch[r] = Tables

(* What lexicon_snapshot returns: the reader's own answer goes into the    *)
(* cache, whatever happened there since the request was sent.              *)
Snapshot(r) ==
    IF fetch[r] = None THEN cache ELSE [tables |-> fetch[r], torn |-> torn[r]]

SnapshotReturned(r) ==
    /\ HasSnapshot(r)
    /\ cache' = Snapshot(r)

FetchForgotten(r) ==
    /\ fetch' = [fetch EXCEPT ![r] = None]
    /\ torn' = [torn EXCEPT ![r] = FALSE]

-----------------------------------------------------------------------------
(* get_snapshot                                                            *)

(* _version_loader, before the lock is taken. *)
VersionLoaded(r) ==
    /\ rpc[r] = "version"
    /\ SnapshotReturned(r)
    /\ FetchForgotten(r)
    /\ label' = [label EXCEPT ![r] = Snapshot(r).tables.mwe_meta]
    /\ rpc' = [rpc EXCEPT ![r] = "locking"]
    /\ UNCHANGED <<storeVars, reads, rows, acked, index, lock, upsert>>

IndexServes(r) == index # None /\ index.version = label[r]

IndexHit(r) ==
    /\ rpc[r] = "locking"
    /\ lock = None
    /\ IndexServes(r)
    /\ Return(r)
    /\ UNCHANGED <<storeVars, reads, cache, index, lock, upsert>>

(* The lock is held from here until the index is built. *)
RebuildBegins(r) ==
    /\ rpc[r] = "locking"
    /\ lock = None
    /\ ~IndexServes(r)
    /\ lock' = r
    /\ rpc' = [rpc EXCEPT ![r] = "expressions"]
    /\ UNCHANGED <<storeVars, reads, fetch, label, rows, torn, acked, cache, index,
                   upsert>>

ExpressionsLoaded(r) ==
    /\ rpc[r] = "expressions"
    /\ SnapshotReturned(r)
    /\ FetchForgotten(r)
    /\ rows' = [rows EXCEPT ![r] = [known |-> Snapshot(r).tables.mwe_expressions,
                                    torn |-> Snapshot(r).torn]]
    /\ rpc' = [rpc EXCEPT ![r] = "senses"]
    /\ UNCHANGED <<storeVars, reads, label, acked, index, lock, upsert>>

(* A sense whose expression is not in the index is skipped. *)
KnownSenses(r) == Snapshot(r).tables.mwe_senses \intersect rows[r].known

(* Mutation: the version that came with the rows loaded last. *)
IndexBuiltLatest(r) ==
    [version |-> Snapshot(r).tables.mwe_meta,
     mwe_expressions |-> rows[r].known,
     mwe_senses |-> KnownSenses(r),
     torn |-> rows[r].torn \/ Snapshot(r).torn]

IndexBuilt(r) ==
    [version |-> label[r],
     mwe_expressions |-> rows[r].known,
     mwe_senses |-> KnownSenses(r),
     torn |-> rows[r].torn \/ Snapshot(r).torn]

SensesLoaded(r) ==
    /\ rpc[r] = "senses"
    /\ SnapshotReturned(r)
    /\ index' = IndexBuilt(r)
    /\ lock' = None
    /\ Return(r)
    /\ UNCHANGED <<storeVars, reads, upsert>>

(* What a reader does when it is not starting a request of its own will. *)
Continue(r) ==
    \/ FetchStarts(r) \/ TableRead(r) \/ FetchFails(r)
    \/ VersionLoaded(r)
    \/ IndexHit(r) \/ RebuildBegins(r) \/ ExpressionsLoaded(r) \/ SensesLoaded(r)

(* The bounds are spent and nobody waits for anything: the only states in  *)
(* which the system may stop, since the lock is held across two requests   *)
(* and a writer needs it twice.                                            *)
AllAtRest ==
    /\ reads = MaxReads
    /\ \A r \in Readers : rpc[r] = "idle"
    /\ \A w \in Occurrences : upsert[w].at \in {"done", "failed"}
    /\ UNCHANGED vars

Next ==
    \/ \E r \in Readers : Begin(r) \/ Continue(r)
    \/ \E w \in Occurrences : Writer(w)
    \/ CacheExpires
    \/ AllAtRest

Spec == Init /\ [][Next]_vars

-----------------------------------------------------------------------------
(* Properties                                                              *)

TableContents ==
    [mwe_meta : Nat, mwe_expressions : SUBSET Occurrences,
     mwe_senses : SUBSET Occurrences]

(* Every variable has its type; in particular only complete answers of the *)
(* service are ever cached.                                                *)
TypeOK ==
    /\ store \in TableContents
    /\ rpc \in [Readers -> Loading \union {"idle", "locking"}]
    /\ reads \in 0..MaxReads
    /\ \A r \in Readers : fetch[r] # None =>
         /\ DOMAIN fetch[r] \subseteq Tables
         /\ "mwe_meta" \in DOMAIN fetch[r] => fetch[r].mwe_meta \in Nat
    /\ label \in [Readers -> Nat]
    /\ rows \in [Readers -> [known : SUBSET Occurrences, torn : BOOLEAN]]
    /\ cache # None => cache \in [tables : TableContents, torn : BOOLEAN]
    /\ index # None => index \in [version : Nat, mwe_expressions : SUBSET Occurrences,
                                  mwe_senses : SUBSET Occurrences, torn : BOOLEAN]
    /\ lock \in Readers \union {None}
    /\ upsert \in [Occurrences -> [table : RowTables,
                     at : {"ready", "waiting", "invalidating", "done", "failed"}]]
    /\ request \in [Occurrences -> {"none", "sent", "written", "bumped", "dropped"}]
    /\ torn \in [Readers -> BOOLEAN] /\ unlabelled \in BOOLEAN
    /\ acked \in [Readers -> [RowTables -> SUBSET Occurrences]]

(* What the version check is worth: an index that carries the current      *)
(* version, and is therefore served from the cache until the next write,   *)
(* has the rows of the store, except when a row has changed since the last *)
(* bump, or when the index was built from an answer during which the store *)
(* changed.                                                                *)
CurrentVersionMeansCurrentRows ==
    (index # None /\ index.version = store.mwe_meta)
      => \/ index.torn \/ unlabelled
         \/ /\ index.mwe_expressions = store.mwe_expressions
            /\ index.mwe_senses = store.mwe_senses

(* A parse that begins after an upsert was acknowledged and invalidated    *)
(* both caches works with an index that has it, unless the index was built *)
(* from an answer during which the store changed.                          *)
AcknowledgedIsVisible ==
    [][\A r \in Readers :
         (IndexHit(r) \/ SensesLoaded(r)) =>
            (index'.torn \/ \A t \in RowTables : acked[r][t] \subseteq index'[t])]_vars
=============================================================================
