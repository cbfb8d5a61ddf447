---------------------------- MODULE LexiconStore ----------------------------
(***************************************************************************)
(* The lexicon service over Postgres: entries, categories and the version  *)
(* of the lexicon (lexicon-service/src/postgres_repository.ts).  addEntry, *)
(* addEntries, bulkUpdateStatus and the last part of syncRow are           *)
(* transactions at READ COMMITTED; updateEntry, deleteEntries and the two  *)
(* category operations are several statements with no transaction around   *)
(* them.  Requests of any number of users run at the same time.            *)
(*                                                                         *)
(* Of Postgres the model has what these statements rely on: a statement    *)
(* sees what is committed and what its own transaction wrote; a row that   *)
(* was updated stays locked until the end; who writes a key waits for the  *)
(* end of every transaction that has inserted it or holds the row that has *)
(* it; ids are never given twice.  The UPDATE of updateEntry takes its row *)
(* before it looks for its key; DELETE takes its rows at once.  A word     *)
(* stands for an entry's normalized value; category names that differ in   *)
(* case only, the review columns and the pages that answers carry are left *)
(* out.                                                                    *)
(***************************************************************************)
EXTENDS Integers, Sequences, FiniteSets

CONSTANTS
    Requests,      \* HTTP requests, each handled once
    Words,         \* normalized values
    Categories,    \* category names
    AutoAdded,     \* the fallback category, always listed
    AutoCreate,    \* categories syncRow may create
    MaxId,         \* bound on the ids the sequence gives
    MaxStored,     \* bound on the entries there are at the start
    MaxItems,      \* bound on the items of one request
    None           \* no entry, no hint

ASSUME BoundsAssumption ==
    MaxId \in Nat /\ MaxStored \in 0..MaxId /\ MaxItems \in Nat \ {0}
ASSUME CategoriesAssumption == AutoAdded \in Categories /\ AutoCreate \subseteq Categories

Ids == 1..MaxId

(* Two of three: to these operations "rejected" is a status like "approved". *)
Statuses == {"pending_review", "approved"}

(* The columns of the UNIQUE constraint. *)
Keys == [category : Categories, word : Words]

(* For requests about a category, whose word does not matter. *)
KeysOfOneWord == {k \in Keys : k.word = CHOOSE w \in Words : TRUE}

Entry == [key : Keys, status : Statuses]

ASSUME NoneAssumption == None \notin Entry \union Categories

VARIABLES
    entries,      \* committed: the entry of each id, or None
    categories,   \* committed: the rows of lexicon_categories
    version,      \* lexicon_meta.lexicon_version
    lastId,       \* the sequence behind lexicon_entries.id
    pc,           \* the next statement of each request
    keys,         \* the keys a request has still to write
    ids,          \* the ids a request has still to write
    kind,         \* what it is, the status it writes, how many items it was given
    draft,        \* uncommitted: categories, rows by id, and the version
    counted,      \* history: the entries when the version was last raised
    lost,         \* history: a bump was lost since then
    raced         \* history: categories dropped while they were put to use

plan == <<keys, ids, kind>>
store == <<entries, categories, version, lastId>>
history == <<counted, lost, raced>>
vars == <<store, pc, plan, draft, history>>

Existing == {i \in Ids : entries[i] # None}

InUse == {entries[i].key.category : i \in Existing}

(* listCategories: the table, the categories of the entries, the fallback. *)
Listed == categories \union InUse \union {AutoAdded}

Taken == {entries[i].key : i \in Existing}

NoKind == [name |-> "none", status |-> "approved", size |-> 0]

NoDraft == [categories |-> {}, rows |-> <<>>, bumps |-> FALSE]

Init ==
    /\ lastId \in 0..MaxStored
    /\ \E stored \in [1..lastId -> Keys] :
         /\ \A i, j \in 1..lastId : i # j => stored[i] # stored[j]
         /\ entries = [i \in Ids |-> IF i <= lastId
                                     THEN [key |-> stored[i], status |-> "approved"]
                                     ELSE None]
    /\ \E unused \in SUBSET Categories : categories = unused \union InUse
    /\ version = 0
    /\ pc = [r \in Requests |-> "new"]
    /\ keys = [r \in Requests |-> <<>>]
    /\ ids = [r \in Requests |-> <<>>]
    /\ kind = [r \in Requests |-> NoKind]
    /\ draft = [r \in Requests |-> NoDraft]
    /\ counted = entries
    /\ lost = FALSE
    /\ raced = {}

AtLeast(m, n) == IF m > n THEN m ELSE n

Goto(r, next) == pc' = [pc EXCEPT ![r] = next]

(* What a request is asked to do: its kind, keys and ids, and its status.  *)
Plan(r, name, s, ks, is) ==
    /\ kind' = [kind EXCEPT ![r] = [name |-> name, status |-> s,
                                    size |-> AtLeast(Len(ks), Len(is))]]
    /\ keys' = [keys EXCEPT ![r] = ks]
    /\ ids' = [ids EXCEPT ![r] = is]

(* The answer is sent, whatever it is, and the request forgotten. *)
Answer(r) ==
    /\ Goto(r, "answered")
    /\ kind' = [kind EXCEPT ![r] = NoKind]
    /\ keys' = [keys EXCEPT ![r] = <<>>]
    /\ ids' = [ids EXCEPT ![r] = <<>>]

(* "key" is the transaction that the UPDATE of updateEntry is by itself.   *)
InTransaction == {"category", "entry", "row", "write", "key", "meta", "commit"}

Key(r) == Head(keys[r])

Id(r) == Head(ids[r])

ListsUpTo(S) == UNION {[1..n -> S] : n \in 1..MaxItems}

-----------------------------------------------------------------------------
(* Waiting for the end of another transaction                              *)

Others(r) == Requests \ {r}

CategoryRivals(r, c) == {q \in Others(r) : c \in draft[q].categories}

(* Transactions that have inserted the same key, or hold the row with it.  *)
KeyRivals(r, k) == {q \in Others(r) : \E i \in DOMAIN draft[q].rows : draft[q].rows[i].key = k}

RowHolders(r, i) == {q \in Others(r) : i \in DOMAIN draft[q].rows}

MetaHolders(r) == {q \in Others(r) : draft[q].bumps}

(* The transactions that the next statement of a request waits for. *)
WaitsFor(r) ==
    CASE pc[r] \in {"category", "create"} -> CategoryRivals(r, Key(r).category)
      [] pc[r] \in {"entry", "key"} -> KeyRivals(r, Key(r))
      [] pc[r] \in {"write", "update"} -> RowHolders(r, Id(r))
      [] pc[r] = "delete" -> UNION {RowHolders(r, ids[r][n]) : n \in DOMAIN ids[r]}
      [] pc[r] \in {"meta", "bump"} -> MetaHolders(r)
      [] OTHER -> {}

(* A request runs its next statement when nobody is in its way. *)
Runs(r, statement) == pc[r] = statement /\ WaitsFor(r) = {}

(* Mutation: syncRow raises the version before it inserts. *)
BumpsFirst(r, done, more, wrote) ==
    IF kind[r].name = "sync"
    THEN CASE done = "check" -> "meta"
           [] done = "meta" -> "category"
           [] done = "category" -> "entry"
           [] OTHER -> "commit"
    ELSE CASE done \in {"check", "item"} /\ more ->
                IF kind[r].name = "status" THEN "row" ELSE "category"
           [] done = "category" -> "entry"
           [] done = "item" /\ ~more /\ wrote -> "meta"
           [] OTHER -> "commit"

(* The statement that follows one that is done, in the transactions of     *)
(* addEntry, addEntries, syncRow and bulkUpdateStatus.                     *)
After(r, done, more, wrote) ==
    CASE done \in {"check", "item"} /\ more ->
           IF kind[r].name = "status" THEN "row" ELSE "category"
      [] done = "category" -> "entry"
      [] done = "item" /\ ~more /\ wrote -> "meta"
      [] OTHER -> "commit"

Rollback(r) == draft' = [draft EXCEPT ![r] = NoDraft] /\ Answer(r)

-----------------------------------------------------------------------------
(* addEntry, addEntries, and the transaction of syncRow                    *)

AddBegins(r) ==
    /\ pc[r] = "new"
    /\ \E list \in ListsUpTo(Keys) : Plan(r, "add", "approved", list, <<>>)
    /\ Goto(r, "category")
    /\ UNCHANGED <<store, draft, history>>

(* Mutation: the category of an entry is never inserted. *)
NoCategory(r) == draft[r].categories

(* INSERT INTO lexicon_categories ... ON CONFLICT DO NOTHING. *)
WithCategory(r) == draft[r].categories \union ({Key(r).category} \ categories)

InsertCategory(r) ==
    /\ Runs(r, "category")
    /\ draft' = [draft EXCEPT ![r].categories = WithCategory(r)]
    /\ Goto(r, After(r, "category", TRUE, FALSE))
    /\ UNCHANGED <<store, plan, history>>

OwnKeys(r) == {draft[r].rows[i].key : i \in DOMAIN draft[r].rows}

WithRow(rows, i, e) == [j \in DOMAIN rows \union {i} |-> IF j = i THEN e ELSE rows[j]]

(* Mutation: the row count of the last insert only. *)
LastInserted(rows, conflict) == ~conflict

(* insertedCount > 0. *)
Inserted(rows, conflict) == DOMAIN rows # {}

(* INSERT INTO lexicon_entries: of addEntries with ON CONFLICT DO NOTHING, *)
(* of syncRow without.  The sequence moves even when nothing is inserted.  *)
InsertEntry(r) ==
    LET conflict == Key(r) \in Taken \union OwnKeys(r)
        e == [key |-> Key(r), status |-> kind[r].status]
        rows == IF conflict THEN draft[r].rows
                ELSE WithRow(draft[r].rows, lastId + 1, e)
    IN  /\ Runs(r, "entry")
        /\ lastId < MaxId
        /\ lastId' = lastId + 1
        /\ IF conflict /\ kind[r].name = "sync"
           THEN Rollback(r)
           ELSE /\ draft' = [draft EXCEPT ![r].rows = rows]
                /\ keys' = [keys EXCEPT ![r] = Tail(@)]
                /\ Goto(r, After(r, "item", Len(keys[r]) > 1, Inserted(rows, conflict)))
                /\ UNCHANGED <<ids, kind>>
        /\ UNCHANGED <<entries, categories, version, history>>

(* bumpMeta inside the transaction: the row of lexicon_meta is locked. *)
BumpInTransaction(r) ==
    /\ Runs(r, "meta")
    /\ draft' = [draft EXCEPT ![r].bumps = TRUE]
    /\ Goto(r, After(r, "meta", FALSE, TRUE))
    /\ UNCHANGED <<store, plan, history>>

(* The version changes for all: it stands for the entries of this moment.  *)
Raise == version' = version + 1 /\ counted' = entries' /\ lost' = FALSE

Commit(r) ==
    LET d == draft[r] IN
    /\ pc[r] = "commit"
    /\ entries' = [i \in Ids |-> IF i \in DOMAIN d.rows THEN d.rows[i] ELSE entries[i]]
    /\ categories' = categories \union d.categories
    /\ IF d.bumps THEN Raise ELSE UNCHANGED <<version, counted, lost>>
    /\ Rollback(r)
    /\ UNCHANGED <<lastId, raced>>

(* A statement fails, Postgres picks a victim among transactions that wait *)
(* for each other, or the service dies.                                    *)
TransactionFails(r) ==
    /\ pc[r] \in InTransaction
    /\ Rollback(r)
    /\ UNCHANGED <<store, history>>

-----------------------------------------------------------------------------
(* bulkUpdateStatus                                                        *)

StatusBegins(r) ==
    /\ pc[r] = "new"
    /\ \E list \in ListsUpTo(1..lastId), s \in Statuses :
         /\ \A m, n \in DOMAIN list : m # n => list[m] # list[n]
         /\ Plan(r, "status", s, <<>>, list)
    /\ Goto(r, "row")
    /\ UNCHANGED <<store, draft, history>>

NextRow(r, rows) ==
    /\ ids' = [ids EXCEPT ![r] = Tail(@)]
    /\ Goto(r, After(r, "item", Len(ids[r]) > 1, DOMAIN rows # {}))

(* The SELECT of one row: an id that is not there is skipped. *)
ReadRow(r) ==
    /\ pc[r] = "row"
    /\ IF Id(r) \in Existing THEN Goto(r, "write") /\ UNCHANGED ids
       ELSE NextRow(r, draft[r].rows)
    /\ UNCHANGED <<store, keys, kind, draft, history>>

(* Its UPDATE, which meets the row as it is when nobody holds it.          *)
WriteStatus(r) ==
    LET e == [entries[Id(r)] EXCEPT !.status = kind[r].status]
        rows == IF Id(r) \in Existing THEN WithRow(draft[r].rows, Id(r), e)
                ELSE draft[r].rows
    IN  /\ Runs(r, "write")
        /\ draft' = [draft EXCEPT ![r].rows = rows]
        /\ NextRow(r, rows)
        /\ UNCHANGED <<store, keys, kind, history>>

-----------------------------------------------------------------------------
(* updateEntry and deleteEntries: no transaction                           *)

(* The entry must exist and its new category be listed. *)
UpdateBegins(r) ==
    /\ pc[r] = "new"
    /\ \E i \in Existing, k \in Keys, s \in Statuses : Plan(r, "update", s, <<k>>, <<i>>)
    /\ Goto(r, "listed")
    /\ UNCHANGED <<store, draft, history>>

CheckCategory(r) ==
    /\ pc[r] = "listed"
    /\ IF Key(r).category \in Listed THEN Goto(r, "update") /\ UNCHANGED plan
       ELSE Answer(r)
    /\ UNCHANGED <<store, draft, history>>

(* The UPDATE finds its row and locks it, as it is. *)
LockEntry(r) ==
    /\ Runs(r, "update")
    /\ IF Id(r) \in Existing
       THEN /\ draft' = [draft EXCEPT ![r].rows = WithRow(@, Id(r), entries[Id(r)])]
            /\ Goto(r, "key")
            /\ UNCHANGED plan
       ELSE Answer(r) /\ UNCHANGED draft
    /\ UNCHANGED <<store, history>>

(* It goes through unless the key is that of another entry. *)
UpdateEntry(r) ==
    LET i == Id(r)
        e == [key |-> Key(r), status |-> kind[r].status]
    IN  /\ Runs(r, "key")
        /\ draft' = [draft EXCEPT ![r] = NoDraft]
        /\ IF e.key \in {entries[j].key : j \in Existing \ {i}}
           THEN Answer(r) /\ UNCHANGED entries
           ELSE /\ entries' = [entries EXCEPT ![i] = e]
                /\ Goto(r, "bump")
                /\ UNCHANGED plan
        /\ UNCHANGED <<categories, version, lastId, history>>

DeleteBegins(r) ==
    /\ pc[r] = "new"
    /\ \E list \in ListsUpTo(1..lastId) :
         /\ \A m, n \in DOMAIN list : m < n => list[m] < list[n]
         /\ Plan(r, "delete", "approved", <<>>, list)
    /\ Goto(r, "delete")
    /\ UNCHANGED <<store, draft, history>>

DeleteEntries(r) ==
    LET gone == {ids[r][n] : n \in DOMAIN ids[r]} IN
    /\ Runs(r, "delete")
    /\ entries' = [i \in Ids |-> IF i \in gone THEN None ELSE entries[i]]
    /\ IF gone \intersect Existing = {} THEN Answer(r)
       ELSE Goto(r, "bump") /\ UNCHANGED plan
    /\ UNCHANGED <<categories, version, lastId, draft, history>>

(* bumpMeta on its own connection, after the change is visible. *)
Bump(r) ==
    /\ Runs(r, "bump")
    /\ UNCHANGED entries
    /\ Raise
    /\ Answer(r)
    /\ UNCHANGED <<categories, lastId, draft, raced>>

(* The service dies, or the statement fails, between change and bump. *)
BumpLost(r) ==
    /\ pc[r] = "bump"
    /\ lost' = TRUE
    /\ Answer(r)
    /\ UNCHANGED <<store, draft, counted, raced>>

-----------------------------------------------------------------------------
(* syncRow up to its transaction, createCategory                           *)

(* resolveSyncCategory: the hint, if any, when listed or to be created. *)
SyncBegins(r) ==
    /\ pc[r] = "new"
    /\ \E hint \in Categories \union {None}, w \in Words :
         LET c == IF hint \in Listed \union AutoCreate THEN hint ELSE AutoAdded
         IN  /\ Plan(r, "sync", "pending_review", <<[category |-> c, word |-> w]>>, <<>>)
             /\ Goto(r, IF c \in Listed THEN "check" ELSE "create")
    /\ UNCHANGED <<store, draft, history>>

CreateBegins(r) ==
    /\ pc[r] = "new"
    /\ \E k \in KeysOfOneWord : Plan(r, "create", "approved", <<k>>, <<>>)
    /\ Goto(r, "create")
    /\ UNCHANGED <<store, draft, history>>

CreateCategory(r) ==
    /\ Runs(r, "create")
    /\ categories' = categories \union {Key(r).category}
    /\ IF kind[r].name = "sync" THEN Goto(r, "check") /\ UNCHANGED plan
       ELSE Answer(r)
    /\ UNCHANGED <<entries, version, lastId, draft, history>>

CheckExisting(r) ==
    /\ pc[r] = "check"
    /\ IF Key(r) \in Taken THEN Answer(r)
       ELSE Goto(r, After(r, "check", TRUE, FALSE)) /\ UNCHANGED plan
    /\ UNCHANGED <<store, draft, history>>

-----------------------------------------------------------------------------
(* deleteCategory                                                          *)

(* Mutation: nobody counts. *)
NeverUsed(c) == TRUE

Unused(c) == c \notin InUse

(* SELECT COUNT: a category that is in use stays.  The kind remembers what *)
(* was true of the category then.                                          *)
CountUses(r) ==
    /\ pc[r] = "new"
    /\ \E k \in KeysOfOneWord :
         IF Unused(k.category)
         THEN /\ Plan(r, IF k.category \in InUse THEN "drop_used" ELSE "drop",
                      "approved", <<k>>, <<>>)
              /\ Goto(r, "drop")
         ELSE Answer(r)
    /\ UNCHANGED <<store, draft, history>>

(* Requests that are past their look at a category and before their write. *)
Heading(c) ==
    {q \in Requests : \/ c \in {k.category : k \in OwnKeys(q)}
                      \/ /\ pc[q] \in {"entry", "update", "key"}
                         /\ Key(q).category = c}

DropCategory(r) ==
    LET c == Key(r).category IN
    /\ pc[r] = "drop"
    /\ categories' = categories \ {c}
    /\ raced' = IF kind[r].name = "drop" /\ (c \in InUse \/ Heading(c) # {})
                THEN raced \union {c} ELSE raced
    /\ Answer(r)
    /\ UNCHANGED <<entries, version, lastId, draft, counted, lost>>

-----------------------------------------------------------------------------
Begins(r) ==
    \/ AddBegins(r) \/ SyncBegins(r) \/ StatusBegins(r) \/ UpdateBegins(r)
    \/ DeleteBegins(r) \/ CreateBegins(r) \/ CountUses(r)

Continue(r) ==
    \/ InsertCategory(r) \/ InsertEntry(r) \/ ReadRow(r) \/ WriteStatus(r)
    \/ BumpInTransaction(r) \/ Commit(r) \/ TransactionFails(r)
    \/ CheckCategory(r) \/ LockEntry(r) \/ UpdateEntry(r) \/ DeleteEntries(r) \/ Bump(r)
    \/ BumpLost(r) \/ CreateCategory(r) \/ CheckExisting(r) \/ DropCategory(r)

Next == \E r \in Requests : Begins(r) \/ Continue(r)

Spec == Init /\ [][Next]_vars

-----------------------------------------------------------------------------
(* Properties                                                              *)

Names == {"none", "add", "sync", "status", "update", "delete", "create", "drop", "drop_used"}

Rows == UNION {[S -> Entry] : S \in SUBSET Ids}

(* Every variable has its type; keys are unique, no two transactions have  *)
(* written the same row, and nobody has a draft outside a transaction.     *)
TypeOK ==
    /\ entries \in [Ids -> Entry \union {None}]
    /\ categories \subseteq Categories
    /\ version \in Nat /\ lastId \in 0..MaxId
    /\ pc \in [Requests -> InTransaction \union {"new", "listed", "update", "delete", "bump",
                                                "check", "create", "drop", "answered"}]
    /\ keys \in [Requests -> Seq(Keys)] /\ ids \in [Requests -> Seq(Ids)]
    /\ kind \in [Requests -> [name : Names, status : Statuses, size : Nat]]
    /\ draft \in [Requests -> [categories : SUBSET Categories, rows : Rows, bumps : BOOLEAN]]
    /\ counted \in [Ids -> Entry \union {None}] /\ lost \in BOOLEAN /\ raced \subseteq Categories
    /\ \A i, j \in Existing : entries[i].key = entries[j].key => i = j
    /\ \A r \in Requests :
         /\ draft[r] # NoDraft => pc[r] \in InTransaction
         /\ \A i \in DOMAIN draft[r].rows : RowHolders(r, i) = {}

(* Who holds a version of the lexicon has every change of it, except those *)
(* that updateEntry and deleteEntries make before they raise the version.  *)
VersionCountsChanges ==
    entries # counted => lost \/ \E r \in Requests : pc[r] = "bump"

(* An entry is in a category of the table, or in the fallback, unless its  *)
(* category was dropped between the check and the write of a request that  *)
(* put it to use, or between the two statements of the drop itself.        *)
OrphansAreARace ==
    \A i \in Existing :
        entries[i].key.category \in categories \union {AutoAdded} \union raced

(* Transactions that wait for each other in a circle.                      *)
Deadlocked(S) == S # {} /\ \A r \in S : WaitsFor(r) \intersect S # {}

(* Of requests that write a single entry, only updates deadlock, and only  *)
(* by trading keys: in every deadlock without a request of several items   *)
(* there are updateEntry requests that hold their entries while each waits *)
(* for a key that another one of them is about to give up.                 *)
DeadlocksNeedABulkOrATrade ==
    \A S \in SUBSET Requests :
        Deadlocked(S) =>
            \/ \E r \in S : kind[r].size > 1
            \/ \E T \in SUBSET S \ {{}} :
                 \A r \in T : /\ pc[r] = "key"
                              /\ \E q \in T \ {r} : entries[Id(q)].key = Key(r)
=============================================================================
