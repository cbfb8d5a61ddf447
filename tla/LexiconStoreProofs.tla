------------------------- MODULE LexiconStoreProofs -------------------------
(***************************************************************************)
(* The lexicon store for any number of requests, words and categories, and *)
(* bulk requests of any size: types and unique keys, VersionCountsChanges, *)
(* OrphansAreARace and DeadlocksNeedABulkOrATrade.                         *)
(*                                                                         *)
(* What is committed is sound because every draft was: a written row is    *)
(* that of an existing entry or a new key (Slot), drafts of two            *)
(* transactions do not meet (Apart), a draft with rows is not committed    *)
(* without its bump, and the category of a draft is in the table, in the   *)
(* draft, or was dropped under it (Known).  An UPDATE that looks for its   *)
(* key holds the row of its entry, which is there (Locked); any other      *)
(* request of one item holds nothing that comes after what it waits for    *)
(* (Paced).                                                                *)
(***************************************************************************)
EXTENDS LexiconStore, SequenceTheorems, TLAPS

Points == InTransaction \union {"new", "listed", "update", "delete", "bump", "check",
                                "create", "drop", "answered"}

Kinds == [name : Names, status : Statuses, size : Nat]

Drafts == [categories : SUBSET Categories, rows : Rows, bumps : BOOLEAN]

(* The categories a request may count on, unless they were dropped. *)
Known(r) == categories \union {AutoAdded} \union raced \union draft[r].categories

WithKeys == {"category", "entry", "create", "check", "listed", "update", "key", "drop"}

WithIds == {"row", "write", "listed", "update", "key"}

(* What one request has in hand. *)
Typed(r) ==
    /\ pc[r] \in Points /\ keys[r] \in Seq(Keys) /\ ids[r] \in Seq(Ids)
    /\ kind[r] \in Kinds /\ draft[r] \in Drafts

Working(r) ==
    /\ pc[r] \in WithKeys => keys[r] # <<>>
    /\ pc[r] \in WithIds => ids[r] # <<>>
    /\ pc[r] \in {"row", "write"} => kind[r].name = "status"
    /\ pc[r] \in {"category", "entry", "check"} => kind[r].name \in {"add", "sync"}
    /\ pc[r] = "drop" => kind[r].name = "drop"
    /\ pc[r] \notin InTransaction => draft[r] = NoDraft
    /\ pc[r] = "commit" => draft[r].bumps \/ DOMAIN draft[r].rows = {}
    /\ pc[r] = "key" => draft[r].categories = {}

Categorized(r) ==
    /\ pc[r] \in {"entry", "update", "key"} => Key(r).category \in Known(r)
    /\ \A i \in DOMAIN draft[r].rows : draft[r].rows[i].key.category \in Known(r)

Holding(r) ==
    \A i \in DOMAIN draft[r].rows :
        /\ i <= lastId
        /\ i \in Existing => draft[r].rows[i].key = entries[i].key
        /\ i \notin Existing => draft[r].rows[i].key \notin Taken

Slot(r) == Typed(r) /\ Working(r) /\ Categorized(r) /\ Holding(r)

(* Two rows that are written are two rows, and two keys. *)
Apart ==
    \A q, r \in Requests :
        \A i \in DOMAIN draft[q].rows, j \in DOMAIN draft[r].rows :
            /\ q # r => i # j
            /\ draft[q].rows[i].key = draft[r].rows[j].key => q = r /\ i = j

(* The UPDATE of updateEntry has locked the row of its entry. *)
Locked ==
    \A r \in Requests : pc[r] = "key" => DOMAIN draft[r].rows = {Id(r)} /\ Id(r) \in Existing

Arrays ==
    /\ pc = [r \in Requests |-> pc[r]] /\ draft = [r \in Requests |-> draft[r]]
    /\ keys = [r \in Requests |-> keys[r]] /\ ids = [r \in Requests |-> ids[r]]
    /\ kind = [r \in Requests |-> kind[r]]

Stored ==
    /\ entries \in [Ids -> Entry \union {None}]
    /\ categories \subseteq Categories
    /\ version \in Nat /\ lastId \in 0..MaxId
    /\ counted \in [Ids -> Entry \union {None}] /\ lost \in BOOLEAN
    /\ raced \subseteq Categories
    /\ \A i \in Existing : i <= lastId
    /\ \A i, j \in Existing : entries[i].key = entries[j].key => i = j

StoreInv ==
    /\ Stored /\ Arrays /\ \A r \in Requests : Slot(r)
    /\ Apart /\ VersionCountsChanges /\ OrphansAreARace

-----------------------------------------------------------------------------
(* A draft is a function from ids to entries. *)
LEMMA RowsAreFunctions ==
    \A rows : rows \in Rows <=>
        /\ DOMAIN rows \subseteq Ids
        /\ rows = [i \in DOMAIN rows |-> rows[i]]
        /\ \A i \in DOMAIN rows : rows[i] \in Entry
<1> TAKE rows
<1>1. ASSUME rows \in Rows
      PROVE  /\ DOMAIN rows \subseteq Ids
             /\ rows = [i \in DOMAIN rows |-> rows[i]]
             /\ \A i \in DOMAIN rows : rows[i] \in Entry
    <2>1. PICK S \in SUBSET Ids : rows \in [S -> Entry]
        BY <1>1 DEF Rows
    <2> QED
        BY <2>1
<1>2. ASSUME DOMAIN rows \subseteq Ids, rows = [i \in DOMAIN rows |-> rows[i]],
             \A i \in DOMAIN rows : rows[i] \in Entry
      PROVE  rows \in Rows
    <2>1. rows \in [DOMAIN rows -> Entry]
        BY <1>2
    <2> QED
        BY <1>2, <2>1 DEF Rows
<1> QED
    BY <1>1, <1>2

LEMMA NoRowsAtAll == <<>> \in Rows /\ DOMAIN <<>> = {}
<1>1. <<>> \in Seq(Entry) /\ Len(<<>>) = 0
    OBVIOUS
<1>2. <<>> \in [1..0 -> Entry]
    BY <1>1, LenProperties
<1>3. 1..0 \in SUBSET Ids /\ 1..0 = {}
    OBVIOUS
<1> QED
    BY <1>2, <1>3 DEF Rows

LEMMA NoDraftIsADraft ==
    /\ NoDraft \in Drafts /\ DOMAIN NoDraft.rows = {} /\ NoDraft.categories = {}
    /\ NoDraft.bumps = FALSE
BY NoRowsAtAll DEF NoDraft, Drafts

LEMMA KindTyped == NoKind \in Kinds
BY DEF NoKind, Kinds, Names, Statuses

LEMMA EmptyLists == <<>> \in Seq(Keys) /\ <<>> \in Seq(Ids)
OBVIOUS

(* The list of a bulk request is not empty. *)
LEMMA ListsAreSequences ==
    ASSUME NEW S, NEW T, S \subseteq T, NEW list \in ListsUpTo(S)
    PROVE  list \in Seq(T) /\ list # <<>>
<1>1. PICK n \in 1..MaxItems : list \in [1..n -> S]
    BY DEF ListsUpTo
<1>2. n \in Nat /\ n # 0 /\ list \in [1..n -> T]
    BY <1>1, BoundsAssumption
<1> QED
    BY <1>2

(* What the invariant says of the variables. *)
LEMMA InvIsTypeOK == StoreInv => TypeOK
<1> SUFFICES ASSUME StoreInv PROVE TypeOK
    OBVIOUS
<1>1. /\ pc \in [Requests -> Points] /\ keys \in [Requests -> Seq(Keys)]
      /\ ids \in [Requests -> Seq(Ids)] /\ kind \in [Requests -> Kinds]
      /\ draft \in [Requests -> Drafts]
    BY DEF StoreInv, Arrays, Slot, Typed
<1>2. \A r \in Requests : draft[r] # NoDraft => pc[r] \in InTransaction
    BY DEF StoreInv, Slot, Working
<1>3. \A r \in Requests : \A i \in DOMAIN draft[r].rows : RowHolders(r, i) = {}
    BY DEF StoreInv, Apart, RowHolders, Others
<1> QED
    BY <1>1, <1>2, <1>3 DEF TypeOK, StoreInv, Stored, Points, Kinds, Drafts

LEMMA StoreInit == Init => StoreInv
<1> SUFFICES ASSUME Init PROVE StoreInv
    OBVIOUS
<1>1. PICK stored \in [1..lastId -> Keys] :
        /\ \A i, j \in 1..lastId : i # j => stored[i] # stored[j]
        /\ entries = [i \in Ids |-> IF i <= lastId
                                    THEN [key |-> stored[i], status |-> "approved"]
                                    ELSE None]
    BY DEF Init
<1>2. lastId \in 0..MaxStored /\ lastId \in 0..MaxId /\ 1..lastId \subseteq Ids
    BY BoundsAssumption DEF Init, Ids
<1>3. \A i \in 1..lastId : entries[i] \in Entry /\ entries[i].key = stored[i]
    BY <1>1, <1>2 DEF Ids, Entry, Statuses
<1>4. \A i \in Existing : i \in 1..lastId
    BY <1>1, <1>2 DEF Existing, Ids
<1>5. entries \in [Ids -> Entry \union {None}]
    <2>1. \A i \in Ids : i <= lastId => i \in 1..lastId
        BY <1>2, BoundsAssumption DEF Ids
    <2>2. \A i \in Ids : entries[i] \in Entry \union {None}
        BY <1>1, <1>3, <2>1
    <2>3. entries = [i \in Ids |-> entries[i]]
        BY <1>1
    <2> QED
        BY <2>2, <2>3
<1>6. PICK unused \in SUBSET Categories : categories = unused \union InUse
    BY DEF Init
<1>7. categories \subseteq Categories
    BY <1>3, <1>4, <1>6 DEF InUse, Entry, Keys
<1>8. Stored
    <2>1. \A i \in Existing : i <= lastId
        BY <1>2, <1>4
    <2>2. \A i, j \in Existing : entries[i].key = entries[j].key => i = j
        <3>1. \A i \in Existing : i \in 1..lastId /\ entries[i].key = stored[i]
            BY <1>3, <1>4
        <3>2. \A i, j \in 1..lastId : i # j => stored[i] # stored[j]
            BY <1>1
        <3> QED
            BY <3>1, <3>2
    <2>3. /\ version \in Nat /\ lost \in BOOLEAN /\ raced \subseteq Categories
          /\ counted = entries
        BY DEF Init
    <2> QED
        BY <1>2, <1>5, <1>7, <2>1, <2>2, <2>3 DEF Stored
<1>9. Arrays
    BY DEF Init, Arrays
<1>10. \A r \in Requests : /\ pc[r] = "new" /\ keys[r] = <<>> /\ ids[r] = <<>>
                           /\ kind[r] = NoKind /\ draft[r] = NoDraft
    BY DEF Init
<1>11. \A r \in Requests : Slot(r)
    <2> SUFFICES ASSUME NEW r \in Requests PROVE Slot(r)
        OBVIOUS
    <2>1. Typed(r)
        BY <1>10, NoDraftIsADraft, KindTyped, EmptyLists DEF Typed, Points
    <2>2. Working(r)
        BY <1>10 DEF Working, WithKeys, WithIds, InTransaction
    <2>3. Categorized(r) /\ Holding(r)
        BY <1>10, NoDraftIsADraft DEF Categorized, Holding
    <2> QED
        BY <2>1, <2>2, <2>3 DEF Slot
<1>12. Apart
    BY <1>10, NoDraftIsADraft DEF Apart
<1>13. VersionCountsChanges
    BY DEF Init, VersionCountsChanges
<1>14. OrphansAreARace
    BY <1>6 DEF OrphansAreARace, InUse
<1> QED
    BY <1>8, <1>9, <1>11, <1>12, <1>13, <1>14 DEF StoreInv

-----------------------------------------------------------------------------
(* Steps of one request that leave the store alone                         *)

Locals == <<pc, keys, ids, kind, draft>>

(* The variables of one request, before and after a step of another. *)
LEMMA SlotsOfOthers ==
    ASSUME NEW q \in Requests, Slot(q), UNCHANGED <<entries, categories, lastId, raced>>,
           pc'[q] = pc[q], keys'[q] = keys[q], ids'[q] = ids[q], kind'[q] = kind[q],
           draft'[q] = draft[q]
    PROVE  Slot(q)'
<1>1. Typed(q)' /\ Working(q)'
    BY DEF Slot, Typed, Working
<1>2. Categorized(q)'
    BY DEF Slot, Categorized, Known, Key
<1>3. Holding(q)'
    BY DEF Slot, Holding, Existing, Taken
<1> QED
    BY <1>1, <1>2, <1>3 DEF Slot

(* A step of r that writes nothing, and gives no entry a new row, keeps    *)
(* the invariant when it keeps what r has in hand; a change that is still  *)
(* to be counted is not left by the way.                                   *)
LEMMA LocalStep ==
    ASSUME StoreInv, NEW r \in Requests, Slot(r)', Arrays',
           UNCHANGED <<store, history>>, pc[r] # "bump",
           DOMAIN draft'[r].rows = {} \/ draft'[r].rows = draft[r].rows,
           \A q \in Requests \ {r} :
               /\ pc'[q] = pc[q] /\ keys'[q] = keys[q] /\ ids'[q] = ids[q]
               /\ kind'[q] = kind[q] /\ draft'[q] = draft[q]
    PROVE  StoreInv'
<1> USE DEF StoreInv
<1>1. UNCHANGED <<entries, categories, version, lastId, counted, lost, raced>>
    BY DEF store, history
<1>2. \A q \in Requests : Slot(q)'
    BY <1>1, SlotsOfOthers
<1>3. Stored'
    BY <1>1 DEF Stored, Existing
<1>4. Apart'
    BY DEF Apart
<1>5. VersionCountsChanges'
    BY <1>1 DEF VersionCountsChanges
<1>6. OrphansAreARace'
    BY <1>1 DEF OrphansAreARace, Existing
<1> QED
    BY <1>2, <1>3, <1>4, <1>5, <1>6

(* What Plan, Goto, Answer and Rollback do to the request that calls them, *)
(* and to nobody else.                                                     *)
LEMMA PlanDoes ==
    ASSUME Arrays, NEW r \in Requests, NEW name, NEW s, NEW ks, NEW is, NEW next,
           Plan(r, name, s, ks, is), Goto(r, next)
    PROVE  /\ pc'[r] = next /\ keys'[r] = ks /\ ids'[r] = is
           /\ kind'[r] = [name |-> name, status |-> s, size |-> AtLeast(Len(ks), Len(is))]
           /\ \A q \in Requests \ {r} :
                pc'[q] = pc[q] /\ keys'[q] = keys[q] /\ ids'[q] = ids[q] /\ kind'[q] = kind[q]
           /\ pc' = [q \in Requests |-> pc'[q]] /\ keys' = [q \in Requests |-> keys'[q]]
           /\ ids' = [q \in Requests |-> ids'[q]] /\ kind' = [q \in Requests |-> kind'[q]]
BY DEF Arrays, Plan, Goto

LEMMA GotoDoes ==
    ASSUME Arrays, NEW r \in Requests, NEW next, Goto(r, next)
    PROVE  /\ pc'[r] = next /\ \A q \in Requests \ {r} : pc'[q] = pc[q]
           /\ pc' = [q \in Requests |-> pc'[q]]
BY DEF Arrays, Goto

LEMMA AnswerDoes ==
    ASSUME Arrays, NEW r \in Requests, Answer(r)
    PROVE  /\ pc'[r] = "answered" /\ keys'[r] = <<>> /\ ids'[r] = <<>> /\ kind'[r] = NoKind
           /\ \A q \in Requests \ {r} :
                pc'[q] = pc[q] /\ keys'[q] = keys[q] /\ ids'[q] = ids[q] /\ kind'[q] = kind[q]
           /\ pc' = [q \in Requests |-> pc'[q]] /\ keys' = [q \in Requests |-> keys'[q]]
           /\ ids' = [q \in Requests |-> ids'[q]] /\ kind' = [q \in Requests |-> kind'[q]]
BY DEF Arrays, Answer, Goto

LEMMA RollbackDoes ==
    ASSUME Arrays, NEW r \in Requests, Rollback(r)
    PROVE  /\ Answer(r) /\ draft'[r] = NoDraft
           /\ \A q \in Requests \ {r} : draft'[q] = draft[q]
           /\ draft' = [q \in Requests |-> draft'[q]]
BY DEF Arrays, Rollback

(* A request that has answered has nothing in hand. *)
LEMMA AnsweredSlot ==
    ASSUME NEW r \in Requests, pc'[r] = "answered", keys'[r] = <<>>, ids'[r] = <<>>,
           kind'[r] = NoKind, draft'[r] = NoDraft
    PROVE  Slot(r)'
<1>1. Typed(r)'
    BY NoDraftIsADraft, KindTyped, EmptyLists DEF Typed, Points
<1>2. Working(r)'
    BY DEF Working, WithKeys, WithIds
<1>3. Categorized(r)' /\ Holding(r)'
    BY NoDraftIsADraft DEF Categorized, Holding
<1> QED
    BY <1>1, <1>2, <1>3 DEF Slot

(* A request that has begun has a plan and no draft. *)
LEMMA PlannedSlot ==
    ASSUME NEW r \in Requests, pc'[r] \in Points \ {"entry", "update", "key"},
           keys'[r] \in Seq(Keys), ids'[r] \in Seq(Ids), kind'[r] \in Kinds,
           draft'[r] = NoDraft, Working(r)'
    PROVE  Slot(r)'
<1>1. Typed(r)'
    BY NoDraftIsADraft DEF Typed
<1>2. Categorized(r)' /\ Holding(r)'
    BY NoDraftIsADraft DEF Categorized, Holding
<1> QED
    BY <1>1, <1>2 DEF Slot

LEMMA SizeIsANumber ==
    ASSUME NEW m \in Nat, NEW n \in Nat
    PROVE  AtLeast(m, n) \in Nat
BY DEF AtLeast

LEMMA PlansAreTyped ==
    ASSUME NEW name \in Names, NEW st \in Statuses, NEW ks \in Seq(Keys), NEW is \in Seq(Ids)
    PROVE  [name |-> name, status |-> st, size |-> AtLeast(Len(ks), Len(is))] \in Kinds
<1>1. AtLeast(Len(ks), Len(is)) \in Nat
    BY SizeIsANumber
<1> QED
    BY <1>1 DEF Kinds

(* Every operation begins with a plan that its first statement can carry   *)
(* out.                                                                    *)
LEMMA BeginKeepsInv ==
    ASSUME StoreInv, NEW r \in Requests, NEW name \in Names, NEW st \in Statuses,
           NEW ks \in Seq(Keys), NEW is \in Seq(Ids),
           NEW next \in {"category", "row", "listed", "delete", "check", "create", "drop"},
           pc[r] = "new", Plan(r, name, st, ks, is), Goto(r, next),
           UNCHANGED <<store, draft, history>>,
           next \in WithKeys => ks # <<>>, next \in WithIds => is # <<>>,
           next = "row" => name = "status",
           next \in {"category", "check"} => name \in {"add", "sync"},
           next = "drop" => name = "drop"
    PROVE  StoreInv'
<1>1. /\ pc'[r] = next /\ keys'[r] = ks /\ ids'[r] = is
      /\ kind'[r] = [name |-> name, status |-> st, size |-> AtLeast(Len(ks), Len(is))]
      /\ \A q \in Requests \ {r} :
           pc'[q] = pc[q] /\ keys'[q] = keys[q] /\ ids'[q] = ids[q] /\ kind'[q] = kind[q]
      /\ pc' = [q \in Requests |-> pc'[q]] /\ keys' = [q \in Requests |-> keys'[q]]
      /\ ids' = [q \in Requests |-> ids'[q]] /\ kind' = [q \in Requests |-> kind'[q]]
    BY PlanDoes DEF StoreInv
<1>2. draft'[r] = NoDraft /\ kind'[r] \in Kinds /\ kind'[r].name = name
    <2>1. draft'[r] = NoDraft
        BY DEF StoreInv, Slot, Working, InTransaction
    <2>2. kind'[r] \in Kinds
        BY <1>1, PlansAreTyped
    <2> QED
        BY <1>1, <2>1, <2>2
<1>3. Working(r)'
    BY <1>1, <1>2 DEF Working
<1>4. Slot(r)'
    BY <1>1, <1>2, <1>3, PlannedSlot DEF Points, InTransaction
<1>5. Arrays'
    BY <1>1 DEF StoreInv, Arrays
<1> QED
    BY <1>1, <1>4, <1>5, LocalStep

(* A request that has nothing to do but to answer. *)
LEMMA AnswerKeepsInv ==
    ASSUME StoreInv, NEW r \in Requests, Answer(r), UNCHANGED <<store, draft, history>>,
           pc[r] \notin InTransaction, pc[r] # "bump"
    PROVE  StoreInv'
<1>1. draft'[r] = NoDraft
    BY DEF StoreInv, Slot, Working
<1>2. Slot(r)'
    BY <1>1, AnswerDoes, AnsweredSlot DEF StoreInv
<1>3. Arrays'
    BY AnswerDoes DEF StoreInv, Arrays
<1> QED
    BY <1>2, <1>3, AnswerDoes, LocalStep DEF StoreInv

(* A request goes on to its next statement with the plan it has. *)
LEMMA GotoKeepsInv ==
    ASSUME StoreInv, NEW r \in Requests,
           NEW next \in Points, Goto(r, next), UNCHANGED <<store, plan, draft, history>>,
           pc[r] # "bump", Working(r)',
           next \in {"entry", "update", "key"} => Key(r).category \in Known(r)
    PROVE  StoreInv'
<1>1. /\ pc'[r] = next /\ \A q \in Requests \ {r} : pc'[q] = pc[q]
      /\ pc' = [q \in Requests |-> pc'[q]]
    BY GotoDoes DEF StoreInv
<1>2. UNCHANGED <<entries, categories, lastId, raced, keys, ids, kind, draft>>
    BY DEF store, plan, history
<1>3. Slot(r)'
    <2>1. Typed(r)'
        BY <1>1, <1>2 DEF StoreInv, Slot, Typed
    <2>2. Categorized(r)'
        BY <1>1, <1>2 DEF StoreInv, Slot, Categorized, Known, Key
    <2>3. Holding(r)'
        BY <1>2 DEF StoreInv, Slot, Holding, Existing, Taken
    <2> QED
        BY <2>1, <2>2, <2>3 DEF Slot
<1>4. Arrays'
    BY <1>1, <1>2 DEF StoreInv, Arrays
<1> QED
    BY <1>1, <1>2, <1>3, <1>4, LocalStep

LEMMA OneKey ==
    ASSUME NEW k \in Keys
    PROVE  <<k>> \in Seq(Keys) /\ <<k>> # <<>> /\ Head(<<k>>) = k
OBVIOUS

LEMMA BeginsKeepInv ==
    ASSUME StoreInv, NEW r \in Requests, Begins(r)
    PROVE  StoreInv'
<1>1. CASE AddBegins(r)
    <2>1. PICK list \in ListsUpTo(Keys) : Plan(r, "add", "approved", list, <<>>)
        BY <1>1 DEF AddBegins
    <2>2. pc[r] = "new" /\ Goto(r, "category") /\ UNCHANGED <<store, draft, history>>
        BY <1>1 DEF AddBegins
    <2>3. list \in Seq(Keys) /\ list # <<>>
        BY ListsAreSequences
    <2> QED
        BY <2>1, <2>2, <2>3, EmptyLists, BeginKeepsInv DEF Names, Statuses, WithIds
<1>2. CASE StatusBegins(r)
    <2>1. PICK list \in ListsUpTo(1..lastId), s \in Statuses : Plan(r, "status", s, <<>>, list)
        BY <1>2 DEF StatusBegins
    <2>2. pc[r] = "new" /\ Goto(r, "row") /\ UNCHANGED <<store, draft, history>>
        BY <1>2 DEF StatusBegins
    <2>3. 1..lastId \subseteq Ids
        BY BoundsAssumption DEF StoreInv, Stored, Ids
    <2>4. list \in Seq(Ids) /\ list # <<>>
        BY <2>3, ListsAreSequences
    <2> QED
        BY <2>1, <2>2, <2>4, EmptyLists, BeginKeepsInv DEF Names, WithKeys
<1>3. CASE UpdateBegins(r)
    <2>1. PICK i \in Existing, k \in Keys, s \in Statuses :
              Plan(r, "update", s, <<k>>, <<i>>)
        BY <1>3 DEF UpdateBegins
    <2>2. pc[r] = "new" /\ Goto(r, "listed") /\ UNCHANGED <<store, draft, history>>
        BY <1>3 DEF UpdateBegins
    <2>3. <<i>> \in Seq(Ids) /\ <<i>> # <<>>
        BY DEF Existing
    <2> QED
        BY <2>1, <2>2, <2>3, OneKey, BeginKeepsInv DEF Names
<1>4. CASE DeleteBegins(r)
    <2>1. PICK list \in ListsUpTo(1..lastId) : Plan(r, "delete", "approved", <<>>, list)
        BY <1>4 DEF DeleteBegins
    <2>2. pc[r] = "new" /\ Goto(r, "delete") /\ UNCHANGED <<store, draft, history>>
        BY <1>4 DEF DeleteBegins
    <2>3. 1..lastId \subseteq Ids
        BY BoundsAssumption DEF StoreInv, Stored, Ids
    <2>4. list \in Seq(Ids)
        BY <2>3, ListsAreSequences
    <2> QED
        BY <2>1, <2>2, <2>4, EmptyLists, BeginKeepsInv DEF Names, Statuses, WithKeys, WithIds
<1>5. CASE SyncBegins(r)
    <2>1. PICK hint \in Categories \union {None}, w \in Words :
              LET c == IF hint \in Listed \union AutoCreate THEN hint ELSE AutoAdded
              IN  /\ Plan(r, "sync", "pending_review", <<[category |-> c, word |-> w]>>, <<>>)
                  /\ Goto(r, IF c \in Listed THEN "check" ELSE "create")
        BY <1>5 DEF SyncBegins
    <2>2. pc[r] = "new" /\ UNCHANGED <<store, draft, history>>
        BY <1>5 DEF SyncBegins
    <2>3. PICK c : /\ c = IF hint \in Listed \union AutoCreate THEN hint ELSE AutoAdded
                   /\ Plan(r, "sync", "pending_review", <<[category |-> c, word |-> w]>>, <<>>)
                   /\ Goto(r, IF c \in Listed THEN "check" ELSE "create")
        BY <2>1
    <2>4. Listed \subseteq Categories
        <3>1. \A i \in Existing : entries[i] \in Entry
            BY DEF StoreInv, Stored, Existing
        <3> QED
            BY <3>1, CategoriesAssumption DEF StoreInv, Stored, Listed, InUse, Entry, Keys
    <2>5. [category |-> c, word |-> w] \in Keys
        BY <2>3, <2>4, CategoriesAssumption DEF Keys
    <2>6. CASE c \in Listed
        BY <2>2, <2>3, <2>5, <2>6, OneKey, EmptyLists, BeginKeepsInv DEF Names, Statuses, WithIds
    <2>7. CASE c \notin Listed
        BY <2>2, <2>3, <2>5, <2>7, OneKey, EmptyLists, BeginKeepsInv DEF Names, Statuses, WithIds
    <2> QED
        BY <2>6, <2>7
<1>6. CASE CreateBegins(r)
    <2>1. PICK k \in KeysOfOneWord : Plan(r, "create", "approved", <<k>>, <<>>)
        BY <1>6 DEF CreateBegins
    <2>2. pc[r] = "new" /\ Goto(r, "create") /\ UNCHANGED <<store, draft, history>>
        BY <1>6 DEF CreateBegins
    <2> QED
        BY <2>1, <2>2, OneKey, EmptyLists, BeginKeepsInv
               DEF Names, Statuses, KeysOfOneWord, WithIds
<1>7. CASE CountUses(r)
    <2>1. PICK k \in KeysOfOneWord :
            IF Unused(k.category)
            THEN /\ Plan(r, IF k.category \in InUse THEN "drop_used" ELSE "drop",
                         "approved", <<k>>, <<>>)
                 /\ Goto(r, "drop")
            ELSE Answer(r)
        BY <1>7 DEF CountUses
    <2>2. pc[r] = "new" /\ UNCHANGED <<store, draft, history>>
        BY <1>7 DEF CountUses
    <2>3. CASE Unused(k.category)
        <3>1. Plan(r, "drop", "approved", <<k>>, <<>>) /\ Goto(r, "drop")
            BY <2>1, <2>3 DEF Unused
        <3> QED
            BY <2>2, <3>1, OneKey, EmptyLists, BeginKeepsInv
               DEF Names, Statuses, KeysOfOneWord, WithIds
    <2>4. CASE ~Unused(k.category)
        BY <2>1, <2>2, <2>4, AnswerKeepsInv DEF InTransaction
    <2> QED
        BY <2>3, <2>4
<1> QED
    BY <1>1, <1>2, <1>3, <1>4, <1>5, <1>6, <1>7 DEF Begins

-----------------------------------------------------------------------------
(* Statements that write nothing to a row                                  *)

(* The order of the statements in a transaction. *)
LEMMA AfterValues ==
    ASSUME NEW r \in Requests
    PROVE  /\ After(r, "category", TRUE, FALSE) = "entry"
           /\ After(r, "check", TRUE, FALSE) =
                IF kind[r].name = "status" THEN "row" ELSE "category"
           /\ After(r, "meta", FALSE, TRUE) = "commit"
BY DEF After

LEMMA NextItem ==
    ASSUME NEW S, NEW list \in Seq(S), list # <<>>
    PROVE  /\ Head(list) \in S /\ Tail(list) \in Seq(S)
           /\ Len(list) > 1 => Tail(list) # <<>>
<1>1. Head(list) \in S /\ Tail(list) \in Seq(S) /\ Len(Tail(list)) = Len(list) - 1
    BY HeadTailProperties
<1>2. Len(list) \in Nat /\ Len(<<>>) = 0
    BY LenProperties
<1>3. Len(list) > 1 => Len(Tail(list)) # 0
    BY <1>1, <1>2
<1>4. Tail(list) = <<>> => Len(Tail(list)) = 0
    BY <1>2
<1> QED
    BY <1>1, <1>3, <1>4

(* The next key of a request, and what is left when it is done. *)
LEMMA NextKey ==
    ASSUME NEW r \in Requests, Typed(r), keys[r] # <<>>
    PROVE  /\ Key(r) \in Keys /\ Tail(keys[r]) \in Seq(Keys)
           /\ Len(keys[r]) > 1 => Tail(keys[r]) # <<>>
BY NextItem DEF Typed, Key

LEMMA NextId ==
    ASSUME NEW r \in Requests, Typed(r), ids[r] # <<>>
    PROVE  /\ Id(r) \in Ids /\ Tail(ids[r]) \in Seq(Ids)
           /\ Len(ids[r]) > 1 => Tail(ids[r]) # <<>>
BY NextItem DEF Typed, Id

LEMMA InsertCategoryKeepsInv ==
    ASSUME StoreInv, NEW r \in Requests, InsertCategory(r)
    PROVE  StoreInv'
<1> USE DEF StoreInv
<1>1. /\ pc[r] = "category" /\ draft' = [draft EXCEPT ![r].categories = WithCategory(r)]
      /\ Goto(r, "entry") /\ UNCHANGED <<store, plan, history>>
    BY AfterValues DEF InsertCategory, Runs
<1>2. Slot(r) /\ draft[r] \in Drafts
    BY DEF Slot, Typed
<1>3. Typed(r) /\ keys[r] # <<>> /\ kind[r].name \in {"add", "sync"}
    BY <1>1, <1>2 DEF Slot, Working, WithKeys
<1>4. Key(r).category \in Categories
    BY <1>3, NextKey DEF Keys
<1>5. WithCategory(r) \in SUBSET Categories
    BY <1>2, <1>4 DEF WithCategory, Drafts
<1>6. /\ pc'[r] = "entry" /\ \A q \in Requests \ {r} : pc'[q] = pc[q]
      /\ pc' = [q \in Requests |-> pc'[q]]
    BY <1>1, GotoDoes
<1>7. /\ draft'[r] = [draft[r] EXCEPT !.categories = WithCategory(r)]
      /\ \A q \in Requests \ {r} : draft'[q] = draft[q]
      /\ draft' = [q \in Requests |-> draft'[q]]
    BY <1>1 DEF Arrays
<1>8. /\ draft'[r] \in Drafts /\ draft'[r].rows = draft[r].rows
      /\ draft'[r].categories = WithCategory(r)
    BY <1>2, <1>5, <1>7 DEF Drafts
<1>9. UNCHANGED <<entries, categories, lastId, raced, keys, ids, kind>>
    BY <1>1 DEF store, plan, history
<1>10. Known(r) \subseteq Known(r)' /\ Key(r).category \in Known(r)'
    BY <1>8, <1>9 DEF Known, WithCategory
<1>11. Slot(r)'
    <2>1. Typed(r)'
        BY <1>3, <1>6, <1>8, <1>9 DEF Typed, Points, InTransaction
    <2>2. Working(r)'
        BY <1>3, <1>6, <1>9 DEF Working, WithKeys, WithIds, InTransaction
    <2>3. Categorized(r)'
        BY <1>2, <1>8, <1>9, <1>10 DEF Slot, Categorized, Key
    <2>4. Holding(r)'
        BY <1>2, <1>8, <1>9 DEF Slot, Holding, Existing, Taken
    <2> QED
        BY <2>1, <2>2, <2>3, <2>4 DEF Slot
<1>12. Arrays'
    BY <1>6, <1>7, <1>9 DEF Arrays
<1> QED
    BY <1>1, <1>6, <1>7, <1>8, <1>9, <1>11, <1>12, LocalStep

LEMMA BumpInTransactionKeepsInv ==
    ASSUME StoreInv, NEW r \in Requests, BumpInTransaction(r)
    PROVE  StoreInv'
<1> USE DEF StoreInv
<1>1. /\ pc[r] = "meta" /\ draft' = [draft EXCEPT ![r].bumps = TRUE]
      /\ Goto(r, "commit") /\ UNCHANGED <<store, plan, history>>
    BY AfterValues DEF BumpInTransaction, Runs
<1>2. Slot(r) /\ draft[r] \in Drafts
    BY DEF Slot, Typed
<1>3. /\ pc'[r] = "commit" /\ \A q \in Requests \ {r} : pc'[q] = pc[q]
      /\ pc' = [q \in Requests |-> pc'[q]]
    BY <1>1, GotoDoes
<1>4. /\ draft'[r] = [draft[r] EXCEPT !.bumps = TRUE]
      /\ \A q \in Requests \ {r} : draft'[q] = draft[q]
      /\ draft' = [q \in Requests |-> draft'[q]]
    BY <1>1 DEF Arrays
<1>5. /\ draft'[r] \in Drafts /\ draft'[r].rows = draft[r].rows
      /\ draft'[r].categories = draft[r].categories /\ draft'[r].bumps
    BY <1>2, <1>4 DEF Drafts
<1>6. UNCHANGED <<entries, categories, lastId, raced, keys, ids, kind>>
    BY <1>1 DEF store, plan, history
<1>7. Slot(r)'
    <2>1. Typed(r)'
        BY <1>2, <1>3, <1>5, <1>6 DEF Slot, Typed, Points, InTransaction
    <2>2. Working(r)'
        BY <1>3, <1>5 DEF Working, WithKeys, WithIds, InTransaction
    <2>3. Categorized(r)'
        BY <1>2, <1>3, <1>5, <1>6 DEF Slot, Categorized, Known
    <2>4. Holding(r)'
        BY <1>2, <1>5, <1>6 DEF Slot, Holding, Existing, Taken
    <2> QED
        BY <2>1, <2>2, <2>3, <2>4 DEF Slot
<1>8. Arrays'
    BY <1>3, <1>4, <1>6 DEF Arrays
<1> QED
    BY <1>1, <1>3, <1>4, <1>5, <1>6, <1>7, <1>8, LocalStep

LEMMA FailureKeepsInv ==
    ASSUME StoreInv, NEW r \in Requests, TransactionFails(r)
    PROVE  StoreInv'
<1>1. pc[r] \in InTransaction /\ Rollback(r) /\ UNCHANGED <<store, history>>
    BY DEF TransactionFails
<1>2. Slot(r)' /\ Arrays'
    BY <1>1, RollbackDoes, AnswerDoes, AnsweredSlot DEF StoreInv, Arrays
<1> QED
    BY <1>1, <1>2, RollbackDoes, AnswerDoes, NoDraftIsADraft, LocalStep
       DEF StoreInv, InTransaction

(* A row that is not there is skipped. *)
LEMMA ReadRowKeepsInv ==
    ASSUME StoreInv, NEW r \in Requests, ReadRow(r)
    PROVE  StoreInv'
<1> USE DEF StoreInv
<1>1. pc[r] = "row" /\ UNCHANGED <<store, keys, kind, draft, history>>
    BY DEF ReadRow
<1>2. Typed(r) /\ ids[r] # <<>> /\ kind[r].name = "status"
    BY <1>1 DEF Slot, Working, WithIds
<1>3. UNCHANGED <<entries, categories, lastId, raced>>
    BY <1>1 DEF store, history
<1>4. CASE Id(r) \in Existing
    <2>1. Goto(r, "write") /\ UNCHANGED <<plan>>
        BY <1>1, <1>4 DEF ReadRow, plan
    <2>2. Working(r)'
        BY <1>1, <1>2, <2>1, GotoDoes DEF plan, Working, WithKeys, WithIds, InTransaction
    <2> QED
        BY <1>1, <2>1, <2>2, GotoKeepsInv DEF Points, InTransaction
<1>5. CASE Id(r) \notin Existing
    <2> DEFINE wrote == DOMAIN draft[r].rows # {}
               next == After(r, "item", Len(ids[r]) > 1, wrote)
    <2>1. Goto(r, next) /\ ids' = [ids EXCEPT ![r] = Tail(@)]
        BY <1>5 DEF ReadRow, NextRow
    <2>2. next = IF Len(ids[r]) > 1 THEN "row" ELSE IF wrote THEN "meta" ELSE "commit"
        BY <1>2 DEF After
    <2>3. /\ ids'[r] = Tail(ids[r]) /\ ids' = [q \in Requests |-> ids'[q]]
          /\ \A q \in Requests \ {r} : ids'[q] = ids[q]
        BY <2>1 DEF Arrays
    <2>4. /\ pc'[r] = next /\ \A q \in Requests \ {r} : pc'[q] = pc[q]
          /\ pc' = [q \in Requests |-> pc'[q]]
        BY <2>1, GotoDoes
    <2> HIDE DEF next
    <2>5. Slot(r)'
        <3>1. Typed(r)'
            BY <1>1, <1>2, <2>2, <2>3, <2>4, NextId DEF Typed, Points, InTransaction
        <3>2. Working(r)'
            BY <1>1, <1>2, <2>2, <2>3, <2>4, NextId
               DEF Working, WithKeys, WithIds, InTransaction
        <3>3. Categorized(r)'
            BY <1>1, <1>3, <2>2, <2>4 DEF Slot, Categorized, Known
        <3>4. Holding(r)'
            BY <1>1, <1>3 DEF Slot, Holding, Existing, Taken
        <3> QED
            BY <3>1, <3>2, <3>3, <3>4 DEF Slot
    <2>6. Arrays'
        BY <1>1, <2>3, <2>4 DEF Arrays
    <2> QED
        BY <1>1, <2>3, <2>4, <2>5, <2>6, LocalStep
<1> QED
    BY <1>4, <1>5

LEMMA CheckKeepsInv ==
    ASSUME StoreInv, NEW r \in Requests, CheckCategory(r) \/ CheckExisting(r)
    PROVE  StoreInv'
<1> USE DEF StoreInv
<1>1. pc[r] \in {"listed", "check"} /\ UNCHANGED <<store, draft, history>>
    BY DEF CheckCategory, CheckExisting
<1>2. Typed(r) /\ Working(r) /\ draft[r] = NoDraft /\ keys[r] # <<>>
    BY <1>1 DEF Slot, Working, WithKeys, InTransaction
<1>3. CASE Answer(r)
    BY <1>1, <1>3, AnswerKeepsInv DEF InTransaction
<1>4. CASE CheckCategory(r) /\ ~Answer(r)
    <2>1. pc[r] = "listed" /\ Key(r).category \in Listed /\ Goto(r, "update") /\ UNCHANGED plan
        BY <1>4 DEF CheckCategory
    <2>2. Key(r).category \in Known(r)
        BY <2>1 DEF Listed, InUse, Known, OrphansAreARace
    <2>3. ids[r] # <<>>
        BY <1>2, <2>1 DEF Working, WithIds
    <2>4. Working(r)'
        BY <1>1, <1>2, <2>1, <2>3, GotoDoes DEF plan, Working, WithKeys, WithIds, InTransaction
    <2> QED
        BY <1>1, <2>1, <2>2, <2>4, GotoKeepsInv DEF Points
<1>5. CASE CheckExisting(r) /\ ~Answer(r)
    <2>1. pc[r] = "check" /\ Goto(r, After(r, "check", TRUE, FALSE)) /\ UNCHANGED plan
        BY <1>5 DEF CheckExisting
    <2>2. kind[r].name \in {"add", "sync"}
        BY <1>2, <2>1 DEF Working
    <2>3. Goto(r, "category")
        BY <2>1, <2>2, AfterValues
    <2>4. Working(r)'
        BY <1>1, <1>2, <2>1, <2>2, <2>3, GotoDoes
           DEF plan, Working, WithKeys, WithIds, InTransaction
    <2> QED
        BY <1>1, <2>1, <2>3, <2>4, GotoKeepsInv DEF Points, InTransaction
<1> QED
    BY <1>3, <1>4, <1>5

-----------------------------------------------------------------------------
(* Statements that write                                                   *)

(* Whom a step leaves alone. *)
Untouched(q) ==
    /\ pc'[q] = pc[q] /\ keys'[q] = keys[q] /\ ids'[q] = ids[q]
    /\ kind'[q] = kind[q] /\ draft'[q] = draft[q]

LEMMA UntouchedWorks ==
    ASSUME NEW q \in Requests, Slot(q), Untouched(q)
    PROVE  Typed(q)' /\ Working(q)'
BY DEF Untouched, Slot, Typed, Working

LEMMA UntouchedCategories ==
    ASSUME NEW q \in Requests, Slot(q), Untouched(q),
           categories \union raced \subseteq categories' \union raced'
    PROVE  Categorized(q)'
BY DEF Untouched, Slot, Categorized, Known, Key

LEMMA UntouchedRows ==
    ASSUME NEW q \in Requests, Slot(q), Untouched(q), UNCHANGED entries,
           lastId \in Nat, lastId' = lastId \/ lastId' = lastId + 1
    PROVE  Holding(q)'
<1>1. \A i \in DOMAIN draft[q].rows : i \in Nat
    BY RowsAreFunctions DEF Slot, Typed, Drafts, Ids
<1> QED
    BY <1>1 DEF Untouched, Slot, Holding, Existing, Taken

(* A draft with one more row, or with one replaced. *)
LEMMA RowIsAdded ==
    ASSUME NEW rows \in Rows, NEW i \in Ids, NEW e \in Entry
    PROVE  /\ WithRow(rows, i, e) \in Rows
           /\ DOMAIN WithRow(rows, i, e) = DOMAIN rows \union {i}
           /\ WithRow(rows, i, e)[i] = e
           /\ \A j \in DOMAIN rows \ {i} : WithRow(rows, i, e)[j] = rows[j]
<1>1. DOMAIN rows \subseteq Ids /\ \A j \in DOMAIN rows : rows[j] \in Entry
    BY RowsAreFunctions
<1> DEFINE more == WithRow(rows, i, e)
<1>2. more = [j \in DOMAIN rows \union {i} |-> IF j = i THEN e ELSE rows[j]]
    BY DEF WithRow
<1> HIDE DEF more
<1>3. /\ DOMAIN more = DOMAIN rows \union {i} /\ more[i] = e
      /\ \A j \in DOMAIN rows \ {i} : more[j] = rows[j]
      /\ more = [j \in DOMAIN more |-> more[j]]
    BY <1>2
<1>4. more \in Rows
    BY <1>1, <1>3, RowsAreFunctions
<1> QED
    BY <1>3, <1>4 DEF more

(* A transaction writes a row, with a new id or one nobody else has        *)
(* written, and with a key that no other draft has.                        *)
LEMMA WriteStep ==
    ASSUME StoreInv, NEW r \in Requests, Arrays',
           UNCHANGED <<entries, categories, version, history>>,
           lastId' \in 0..MaxId, lastId' = lastId \/ lastId' = lastId + 1,
           pc[r] # "bump", Typed(r)', Working(r)', Categorized(r)', Holding(r)',
           \A q \in Requests \ {r} : Untouched(q),
           \A i, j \in DOMAIN draft'[r].rows :
               draft'[r].rows[i].key = draft'[r].rows[j].key => i = j,
           \A q \in Requests \ {r} :
               \A i \in DOMAIN draft'[r].rows, j \in DOMAIN draft[q].rows :
                   i # j /\ draft'[r].rows[i].key # draft[q].rows[j].key
    PROVE  StoreInv'
<1> USE DEF StoreInv
<1>1. UNCHANGED <<counted, lost, raced>>
    BY DEF history
<1>2. lastId \in Nat /\ lastId' \in Nat
    BY BoundsAssumption DEF Stored
<1>3. \A q \in Requests : Slot(q)'
    BY <1>1, <1>2, UntouchedWorks, UntouchedCategories, UntouchedRows DEF Slot
<1>4. Stored'
    <2>1. \A i \in Existing : i \in Nat /\ i <= lastId
        BY DEF Stored, Existing, Ids
    <2>2. \A i \in Existing : i <= lastId'
        BY <1>2, <2>1
    <2> QED
        BY <1>1, <2>2 DEF Stored, Existing
<1>5. Apart'
    BY DEF Apart, Untouched
<1>6. VersionCountsChanges'
    BY <1>1 DEF VersionCountsChanges, Untouched
<1>7. OrphansAreARace'
    BY <1>1 DEF OrphansAreARace, Existing
<1> QED
    BY <1>3, <1>4, <1>5, <1>6, <1>7

LEMMA InsertEntryKeepsInv ==
    ASSUME StoreInv, NEW r \in Requests, InsertEntry(r)
    PROVE  StoreInv'
<1> USE DEF StoreInv
<1> DEFINE conflict == Key(r) \in Taken \union OwnKeys(r)
           e == [key |-> Key(r), status |-> kind[r].status]
           rows == IF conflict THEN draft[r].rows ELSE WithRow(draft[r].rows, lastId + 1, e)
           next == After(r, "item", Len(keys[r]) > 1, Inserted(rows, conflict))
<1>1. /\ pc[r] = "entry" /\ lastId < MaxId /\ lastId' = lastId + 1
      /\ UNCHANGED <<entries, categories, version, history>> /\ KeyRivals(r, Key(r)) = {}
    BY DEF InsertEntry, Runs, WaitsFor
<1>2. /\ Slot(r) /\ Typed(r) /\ keys[r] # <<>> /\ kind[r].name \in {"add", "sync"}
      /\ Key(r).category \in Known(r) /\ draft[r].rows \in Rows
    BY <1>1 DEF Slot, Typed, Working, WithKeys, Categorized, Drafts
<1>3. lastId \in Nat /\ lastId' \in 0..MaxId /\ lastId + 1 \in Ids
    BY <1>1, BoundsAssumption DEF Stored, Ids
<1>4. e \in Entry /\ e.key = Key(r)
    BY <1>2, NextKey DEF Typed, Kinds, Entry
<1>5. UNCHANGED <<raced>>
    BY <1>1 DEF history
<1>6. CASE conflict /\ kind[r].name = "sync"
    <2>1. Rollback(r)
        BY <1>6 DEF InsertEntry
    <2>2. Arrays' /\ \A q \in Requests \ {r} : Untouched(q)
        BY <2>1, RollbackDoes, AnswerDoes DEF Arrays, Untouched
    <2>3. Slot(r)' /\ DOMAIN draft'[r].rows = {}
        BY <2>1, RollbackDoes, AnswerDoes, AnsweredSlot, NoDraftIsADraft
    <2> QED
        BY <1>1, <1>3, <2>2, <2>3, WriteStep DEF Slot
<1>7. CASE ~(conflict /\ kind[r].name = "sync")
    <2>1. /\ draft' = [draft EXCEPT ![r].rows = rows] /\ keys' = [keys EXCEPT ![r] = Tail(@)]
          /\ Goto(r, next) /\ UNCHANGED <<ids, kind>>
        BY <1>7 DEF InsertEntry
    <2>2. next = IF Len(keys[r]) > 1 THEN "category"
                 ELSE IF DOMAIN rows # {} THEN "meta" ELSE "commit"
        BY <1>2 DEF After, Inserted
    <2> HIDE DEF next
    <2>3. /\ pc'[r] = next /\ \A q \in Requests \ {r} : pc'[q] = pc[q]
          /\ pc' = [q \in Requests |-> pc'[q]]
        BY <2>1, GotoDoes
    <2>4. /\ keys'[r] = Tail(keys[r]) /\ draft'[r] = [draft[r] EXCEPT !.rows = rows]
          /\ \A q \in Requests \ {r} : keys'[q] = keys[q] /\ draft'[q] = draft[q]
          /\ keys' = [q \in Requests |-> keys'[q]] /\ draft' = [q \in Requests |-> draft'[q]]
        BY <2>1 DEF Arrays
    <2>5. Arrays' /\ \A q \in Requests \ {r} : Untouched(q)
        BY <2>1, <2>3, <2>4 DEF Arrays, Untouched
    <2>6. \/ rows = draft[r].rows
          \/ /\ ~conflict /\ DOMAIN rows = DOMAIN draft[r].rows \union {lastId + 1}
             /\ rows[lastId + 1] = e
             /\ \A j \in DOMAIN draft[r].rows \ {lastId + 1} : rows[j] = draft[r].rows[j]
        <3>1. CASE conflict
            BY <3>1
        <3>2. CASE ~conflict
            <4>1. rows = WithRow(draft[r].rows, lastId + 1, e)
                BY <3>2
            <4> HIDE DEF e, rows, conflict
            <4>2. PICK id \in Ids, old \in Rows, new \in Entry :
                      id = lastId + 1 /\ old = draft[r].rows /\ new = e
                BY <1>2, <1>3, <1>4
            <4>3. /\ DOMAIN WithRow(old, id, new) = DOMAIN old \union {id}
                  /\ WithRow(old, id, new)[id] = new
                  /\ \A j \in DOMAIN old \ {id} : WithRow(old, id, new)[j] = old[j]
                BY RowIsAdded
            <4>4. rows = WithRow(old, id, new)
                BY <4>1, <4>2
            <4> QED
                BY <3>2, <4>2, <4>3, <4>4
        <3> QED
            BY <3>1, <3>2
    <2>7. rows \in Rows
        <3>1. CASE conflict
            BY <1>2, <3>1
        <3>2. CASE ~conflict
            <4>1. rows = WithRow(draft[r].rows, lastId + 1, e)
                BY <3>2
            <4> HIDE DEF e, rows, conflict
            <4> QED
                BY <1>2, <1>3, <1>4, <4>1, RowIsAdded
        <3> QED
            BY <3>1, <3>2
    <2> HIDE DEF rows, e, conflict
    <2>8. /\ draft'[r].rows = rows /\ draft'[r].categories = draft[r].categories
          /\ draft'[r] \in Drafts
        BY <1>2, <2>4, <2>7 DEF Typed, Drafts
    <2>9. \A i \in DOMAIN draft[r].rows : i \in Nat /\ i <= lastId
        BY <1>2, RowsAreFunctions DEF Slot, Holding, Ids
    <2>10. lastId + 1 \notin DOMAIN draft[r].rows
        BY <1>3, <2>9
    <2>11. Typed(r)'
        BY <1>2, <2>1, <2>2, <2>3, <2>4, <2>8, NextKey DEF Typed, Points, InTransaction
    <2>12. Working(r)'
        BY <1>2, <2>1, <2>2, <2>3, <2>4, <2>8, NextKey
           DEF Working, WithKeys, WithIds, InTransaction
    <2>13. Categorized(r)'
        <3>1. Known(r)' = Known(r)
            BY <1>1, <1>5, <2>8 DEF Known
        <3>2. \A i \in DOMAIN rows : rows[i].key.category \in Known(r)
            BY <1>2, <1>4, <2>6 DEF Slot, Categorized
        <3> QED
            BY <2>2, <2>3, <2>8, <3>1, <3>2 DEF Categorized
    <2>14. conflict \/ (Key(r) \notin Taken /\ Key(r) \notin OwnKeys(r))
        BY DEF conflict
    <2>15. Holding(r)'
        <3>1. lastId + 1 \notin Existing
            BY <1>3 DEF Stored, Existing, Ids
        <3>2. Existing' = Existing /\ Taken' = Taken
            BY <1>1 DEF Existing, Taken
        <3>3. \A i \in DOMAIN rows : i <= lastId + 1
            BY <1>3, <2>6, <2>9
        <3>4. \A i \in DOMAIN rows :
                  /\ i \in Existing => rows[i].key = entries[i].key
                  /\ i \notin Existing => rows[i].key \notin Taken
            BY <1>2, <1>4, <2>6, <2>10, <2>14, <3>1 DEF Slot, Holding
        <3> QED
            BY <1>1, <2>8, <3>2, <3>3, <3>4 DEF Holding
    <2>16. \A i, j \in DOMAIN rows : rows[i].key = rows[j].key => i = j
        <3>1. \A i, j \in DOMAIN draft[r].rows :
                  draft[r].rows[i].key = draft[r].rows[j].key => i = j
            BY DEF Apart
        <3>2. ~conflict => \A j \in DOMAIN draft[r].rows : draft[r].rows[j].key # Key(r)
            BY <2>14 DEF OwnKeys
        <3> QED
            BY <1>4, <2>6, <2>10, <3>1, <3>2
    <2>17. \A q \in Requests \ {r} : \A i \in DOMAIN rows, j \in DOMAIN draft[q].rows :
               i # j /\ rows[i].key # draft[q].rows[j].key
        <3> SUFFICES ASSUME NEW q \in Requests \ {r}, NEW i \in DOMAIN rows,
                            NEW j \in DOMAIN draft[q].rows
                     PROVE  i # j /\ rows[i].key # draft[q].rows[j].key
            OBVIOUS
        <3>1. CASE i \in DOMAIN draft[r].rows /\ rows[i] = draft[r].rows[i]
            BY <3>1 DEF Apart
        <3>2. CASE i = lastId + 1 /\ rows[i] = e /\ ~conflict
            <4>1. j \in Nat /\ j <= lastId
                BY RowsAreFunctions DEF Slot, Typed, Drafts, Holding, Ids
            <4> QED
                BY <1>1, <1>3, <1>4, <3>2, <4>1 DEF KeyRivals, Others
        <3> QED
            BY <2>6, <2>10, <3>1, <3>2
    <2> QED
        BY <1>1, <1>3, <2>5, <2>8, <2>11, <2>12, <2>13, <2>15, <2>16, <2>17, WriteStep
<1> QED
    BY <1>6, <1>7

(* A draft has the key of an entry in the row of that entry only. *)
LEMMA KeyOfEntry ==
    ASSUME StoreInv, NEW q \in Requests, NEW j \in DOMAIN draft[q].rows, NEW i \in Existing,
           draft[q].rows[j].key = entries[i].key
    PROVE  j = i
<1>1. entries[i].key \in Taken
    BY DEF Taken
<1>2. j \in Existing /\ draft[q].rows[j].key = entries[j].key
    BY <1>1 DEF StoreInv, Slot, Holding
<1> QED
    BY <1>2 DEF StoreInv, Stored

LEMMA WriteStatusKeepsInv ==
    ASSUME StoreInv, NEW r \in Requests, WriteStatus(r)
    PROVE  StoreInv'
<1> USE DEF StoreInv
<1> DEFINE e == [entries[Id(r)] EXCEPT !.status = kind[r].status]
           rows == IF Id(r) \in Existing THEN WithRow(draft[r].rows, Id(r), e)
                   ELSE draft[r].rows
           next == After(r, "item", Len(ids[r]) > 1, DOMAIN rows # {})
<1>1. /\ pc[r] = "write" /\ RowHolders(r, Id(r)) = {} /\ UNCHANGED <<store, keys, kind, history>>
      /\ draft' = [draft EXCEPT ![r].rows = rows] /\ NextRow(r, rows)
    BY DEF WriteStatus, Runs, WaitsFor
<1>2. /\ Slot(r) /\ Typed(r) /\ ids[r] # <<>> /\ kind[r].name = "status"
      /\ draft[r] \in Drafts /\ draft[r].rows \in Rows
    BY <1>1 DEF Slot, Typed, Working, WithIds, Drafts
<1>3. UNCHANGED <<entries, categories, version, lastId, counted, lost, raced>>
    BY <1>1 DEF store, history
<1>4. Id(r) \in Existing => e \in Entry /\ e.key = entries[Id(r)].key
    <2>1. Id(r) \in Existing => entries[Id(r)] \in Entry
        BY DEF Stored, Existing
    <2> QED
        BY <1>2, <2>1 DEF Typed, Kinds, Entry
<1>5. /\ rows \in Rows
      /\ \/ rows = draft[r].rows
         \/ /\ Id(r) \in Existing /\ DOMAIN rows = DOMAIN draft[r].rows \union {Id(r)}
            /\ rows[Id(r)] = e
            /\ \A j \in DOMAIN draft[r].rows \ {Id(r)} : rows[j] = draft[r].rows[j]
    <2>1. CASE Id(r) \in Existing
        <3>1. rows = WithRow(draft[r].rows, Id(r), e)
            BY <2>1
        <3> HIDE DEF e, rows
        <3>2. PICK id \in Ids, old \in Rows, new \in Entry :
                  id = Id(r) /\ old = draft[r].rows /\ new = e
            BY <1>2, <1>4, <2>1 DEF Existing
        <3>3. /\ DOMAIN WithRow(old, id, new) = DOMAIN old \union {id}
              /\ WithRow(old, id, new)[id] = new /\ WithRow(old, id, new) \in Rows
              /\ \A j \in DOMAIN old \ {id} : WithRow(old, id, new)[j] = old[j]
            BY RowIsAdded
        <3>4. rows = WithRow(old, id, new)
            BY <3>1, <3>2
        <3> QED
            BY <2>1, <3>2, <3>3, <3>4
    <2>2. CASE Id(r) \notin Existing
        BY <1>2, <2>2
    <2> QED
        BY <2>1, <2>2
<1>6. next = IF Len(ids[r]) > 1 THEN "row" ELSE IF DOMAIN rows # {} THEN "meta" ELSE "commit"
    BY <1>2 DEF After
<1>7. Goto(r, next) /\ ids' = [ids EXCEPT ![r] = Tail(@)]
    BY <1>1 DEF NextRow
<1> HIDE DEF next, rows, e
<1>8. /\ pc'[r] = next /\ \A q \in Requests \ {r} : pc'[q] = pc[q]
      /\ pc' = [q \in Requests |-> pc'[q]]
    BY <1>7, GotoDoes
<1>9. /\ ids'[r] = Tail(ids[r]) /\ draft'[r] = [draft[r] EXCEPT !.rows = rows]
      /\ \A q \in Requests \ {r} : ids'[q] = ids[q] /\ draft'[q] = draft[q]
      /\ ids' = [q \in Requests |-> ids'[q]] /\ draft' = [q \in Requests |-> draft'[q]]
    BY <1>1, <1>7 DEF Arrays
<1>10. Arrays' /\ \A q \in Requests \ {r} : Untouched(q)
    BY <1>1, <1>8, <1>9 DEF Arrays, Untouched
<1>11. /\ draft'[r].rows = rows /\ draft'[r].categories = draft[r].categories
       /\ draft'[r] \in Drafts
    BY <1>2, <1>5, <1>9 DEF Drafts
<1>12. Typed(r)'
    BY <1>1, <1>2, <1>6, <1>8, <1>9, <1>11, NextId DEF Typed, Points, InTransaction
<1>13. Working(r)'
    BY <1>1, <1>2, <1>6, <1>8, <1>9, <1>11, NextId DEF Working, WithKeys, WithIds, InTransaction
<1>14. Categorized(r)'
    <2>1. Known(r)' = Known(r)
        BY <1>3, <1>11 DEF Known
    <2>2. Id(r) \in Existing => e.key.category \in Known(r)
        BY <1>4 DEF OrphansAreARace, Known
    <2>3. \A i \in DOMAIN rows : rows[i].key.category \in Known(r)
        BY <1>2, <1>5, <2>2 DEF Slot, Categorized
    <2> QED
        BY <1>6, <1>8, <1>11, <2>1, <2>3 DEF Categorized
<1>15. Holding(r)'
    <2>1. Existing' = Existing /\ Taken' = Taken
        BY <1>3 DEF Existing, Taken
    <2>2. \A i \in DOMAIN rows :
              /\ i <= lastId
              /\ i \in Existing => rows[i].key = entries[i].key
              /\ i \notin Existing => rows[i].key \notin Taken
        BY <1>2, <1>4, <1>5 DEF Slot, Holding, Stored
    <2> QED
        BY <1>3, <1>11, <2>1, <2>2 DEF Holding
<1>16. \A i, j \in DOMAIN rows : rows[i].key = rows[j].key => i = j
    <2>1. \A i, j \in DOMAIN draft[r].rows :
              draft[r].rows[i].key = draft[r].rows[j].key => i = j
        BY DEF Apart
    <2>2. Id(r) \in Existing =>
              \A j \in DOMAIN draft[r].rows : draft[r].rows[j].key = e.key => j = Id(r)
        BY <1>4, KeyOfEntry
    <2> QED
        BY <1>5, <2>1, <2>2
<1>17. \A q \in Requests \ {r} : \A i \in DOMAIN rows, j \in DOMAIN draft[q].rows :
           i # j /\ rows[i].key # draft[q].rows[j].key
    <2> SUFFICES ASSUME NEW q \in Requests \ {r}, NEW i \in DOMAIN rows,
                        NEW j \in DOMAIN draft[q].rows
                 PROVE  i # j /\ rows[i].key # draft[q].rows[j].key
        OBVIOUS
    <2>1. CASE i \in DOMAIN draft[r].rows /\ rows[i] = draft[r].rows[i]
        BY <2>1 DEF Apart
    <2>2. CASE i = Id(r) /\ rows[i] = e /\ Id(r) \in Existing
        <3>1. j # Id(r)
            BY <1>1 DEF RowHolders, Others
        <3> QED
            BY <1>4, <2>2, <3>1, KeyOfEntry
    <2> QED
        BY <1>5, <2>1, <2>2
<1>18. pc[r] # "bump" /\ lastId' \in 0..MaxId
    BY <1>1, <1>3 DEF Stored
<1> QED
    BY <1>1, <1>3, <1>10, <1>11, <1>12, <1>13, <1>14, <1>15, <1>16, <1>17, <1>18, WriteStep

-----------------------------------------------------------------------------
(* Statements that change what is committed                                *)

LEMMA CommitKeepsInv ==
    ASSUME StoreInv, NEW r \in Requests, Commit(r)
    PROVE  StoreInv'
<1> USE DEF StoreInv
<1> DEFINE rows == draft[r].rows
<1>1. /\ pc[r] = "commit" /\ Rollback(r) /\ UNCHANGED <<lastId, raced>>
      /\ entries' = [i \in Ids |-> IF i \in DOMAIN rows THEN rows[i] ELSE entries[i]]
      /\ categories' = categories \union draft[r].categories
      /\ IF draft[r].bumps THEN Raise ELSE UNCHANGED <<version, counted, lost>>
    BY DEF Commit
<1>2. /\ Slot(r) /\ draft[r] \in Drafts /\ rows \in Rows
      /\ draft[r].bumps \/ DOMAIN rows = {}
    BY <1>1 DEF Slot, Typed, Working, Drafts
<1>3. DOMAIN rows \subseteq Ids /\ \A i \in DOMAIN rows : rows[i] \in Entry
    BY <1>2, RowsAreFunctions
<1>4. /\ pc'[r] = "answered" /\ Slot(r)' /\ draft'[r] = NoDraft
      /\ Arrays' /\ \A q \in Requests \ {r} : Untouched(q)
    BY <1>1, RollbackDoes, AnswerDoes, AnsweredSlot DEF Arrays, Untouched
<1>5. /\ Existing' = Existing \union DOMAIN rows
      /\ \A i \in DOMAIN rows : entries'[i] = rows[i]
      /\ \A i \in Existing \ DOMAIN rows : entries'[i] = entries[i]
    BY <1>1, <1>3, NoneAssumption DEF Existing
<1>6. \A i \in DOMAIN rows : /\ i <= lastId
                             /\ i \in Existing => rows[i].key = entries[i].key
                             /\ i \notin Existing => rows[i].key \notin Taken
    BY <1>2 DEF Slot, Holding
<1>7. \A i, j \in DOMAIN rows : rows[i].key = rows[j].key => i = j
    BY DEF Apart
<1>8. \A i \in DOMAIN rows, j \in Existing : rows[i].key = entries[j].key => i = j
    BY KeyOfEntry
<1>9. \A q \in Requests \ {r} : \A i \in DOMAIN draft[q].rows :
          i \notin DOMAIN rows /\ \A j \in DOMAIN rows : draft[q].rows[i].key # rows[j].key
    BY DEF Apart
<1> HIDE DEF rows
<1>10. Stored'
    <2>1. entries' \in [Ids -> Entry \union {None}]
        BY <1>1, <1>3 DEF Stored
    <2>2. categories' \subseteq Categories
        BY <1>1, <1>2 DEF Stored, Drafts
    <2>3. version' \in Nat /\ lastId' \in 0..MaxId /\ raced' \subseteq Categories
        BY <1>1 DEF Stored, Raise
    <2>4. counted' \in [Ids -> Entry \union {None}] /\ lost' \in BOOLEAN
        BY <1>1, <2>1 DEF Stored, Raise
    <2>5. \A i \in Existing' : i <= lastId'
        BY <1>1, <1>5, <1>6 DEF Stored
    <2>6. \A i, j \in Existing' : entries'[i].key = entries'[j].key => i = j
        <3>1. \A i, j \in Existing : entries[i].key = entries[j].key => i = j
            BY DEF Stored
        <3> QED
            BY <1>5, <1>7, <1>8, <3>1
    <2> QED
        BY <2>1, <2>2, <2>3, <2>4, <2>5, <2>6 DEF Stored
<1>11. \A q \in Requests : Slot(q)'
    <2> SUFFICES ASSUME NEW q \in Requests \ {r} PROVE Slot(q)'
        BY <1>4
    <2>1. Typed(q)' /\ Working(q)' /\ Categorized(q)'
        BY <1>1, <1>4, UntouchedWorks, UntouchedCategories
    <2>2. ASSUME NEW i \in DOMAIN draft[q].rows
          PROVE  /\ i <= lastId
                 /\ i \in Existing' => draft[q].rows[i].key = entries'[i].key
                 /\ i \notin Existing' => draft[q].rows[i].key \notin Taken'
        <3>1. /\ i <= lastId
              /\ i \in Existing => draft[q].rows[i].key = entries[i].key
              /\ i \notin Existing => draft[q].rows[i].key \notin Taken
            BY DEF Slot, Holding
        <3>2. CASE i \in Existing
            BY <1>5, <1>9, <3>1, <3>2
        <3>3. CASE i \notin Existing
            <4>1. i \notin Existing'
                BY <1>5, <1>9, <3>3
            <4>2. \A j \in Existing' : entries'[j].key # draft[q].rows[i].key
                BY <1>5, <1>9, <3>1, <3>3 DEF Taken
            <4> QED
                BY <3>1, <4>1, <4>2 DEF Taken
        <3> QED
            BY <3>2, <3>3
    <2>3. Holding(q)'
        BY <1>1, <1>4, <2>2 DEF Holding, Untouched
    <2> QED
        BY <2>1, <2>3 DEF Slot
<1>12. Apart'
    BY <1>4, NoDraftIsADraft DEF Apart, Untouched
<1>13. VersionCountsChanges'
    <2>1. CASE draft[r].bumps
        BY <1>1, <2>1 DEF Raise, VersionCountsChanges
    <2>2. CASE ~draft[r].bumps
        <3>1. entries' = entries
            BY <1>1, <1>2, <2>2 DEF Stored
        <3> QED
            BY <1>1, <1>4, <2>2, <3>1 DEF VersionCountsChanges, Untouched
    <2> QED
        BY <2>1, <2>2
<1>14. OrphansAreARace'
    <2>1. \A i \in DOMAIN rows : rows[i].key.category \in Known(r)
        BY <1>2 DEF Slot, Categorized, rows
    <2>2. Known(r) = categories' \union {AutoAdded} \union raced'
        BY <1>1 DEF Known
    <2>3. \A i \in Existing : entries[i].key.category \in categories' \union {AutoAdded} \union raced'
        BY <1>1 DEF OrphansAreARace
    <2> QED
        BY <1>5, <2>1, <2>2, <2>3 DEF OrphansAreARace
<1> QED
    BY <1>4, <1>10, <1>11, <1>12, <1>13, <1>14

(* A change that is visible at once; its bump is to come. *)
LEMMA ChangeStep ==
    ASSUME StoreInv, NEW r \in Requests, Goto(r, "bump"),
           UNCHANGED <<plan, categories, version, lastId, history>>,
           draft' = [draft EXCEPT ![r] = NoDraft],
           entries' \in [Ids -> Entry \union {None}], Existing' \subseteq Existing,
           \A i, j \in Existing' : entries'[i].key = entries'[j].key => i = j,
           \A q \in Requests \ {r} : Holding(q)', OrphansAreARace'
    PROVE  StoreInv'
<1> USE DEF StoreInv
<1>1. /\ pc'[r] = "bump" /\ \A q \in Requests \ {r} : pc'[q] = pc[q]
      /\ pc' = [q \in Requests |-> pc'[q]]
    BY GotoDoes
<1>2. /\ UNCHANGED <<keys, ids, kind, counted, lost, raced>> /\ draft'[r] = NoDraft
      /\ \A q \in Requests \ {r} : draft'[q] = draft[q]
      /\ draft' = [q \in Requests |-> draft'[q]]
    BY DEF plan, history, Arrays
<1>3. Arrays' /\ \A q \in Requests \ {r} : Untouched(q)
    BY <1>1, <1>2 DEF Arrays, Untouched
<1>4. Slot(r)'
    <2>1. Typed(r)'
        BY <1>1, <1>2, NoDraftIsADraft DEF Slot, Typed, Points
    <2>2. Working(r)'
        BY <1>1, <1>2 DEF Working, WithKeys, WithIds
    <2>3. Categorized(r)' /\ Holding(r)'
        BY <1>1, <1>2, NoDraftIsADraft DEF Categorized, Holding
    <2> QED
        BY <2>1, <2>2, <2>3 DEF Slot
<1>5. \A q \in Requests : Slot(q)'
    BY <1>2, <1>3, <1>4, UntouchedWorks, UntouchedCategories DEF Slot
<1>6. Stored'
    BY <1>2 DEF Stored
<1>7. Apart'
    BY <1>2, NoDraftIsADraft DEF Apart
<1>8. VersionCountsChanges'
    BY <1>1 DEF VersionCountsChanges
<1> QED
    BY <1>3, <1>5, <1>6, <1>7, <1>8

(* The UPDATE takes the row of its entry as it is. *)
LEMMA LockEntryKeepsInv ==
    ASSUME StoreInv, NEW r \in Requests, LockEntry(r)
    PROVE  StoreInv'
<1> USE DEF StoreInv
<1> DEFINE rows == WithRow(draft[r].rows, Id(r), entries[Id(r)])
<1>1. pc[r] = "update" /\ RowHolders(r, Id(r)) = {} /\ UNCHANGED <<store, history>>
    BY DEF LockEntry, Runs, WaitsFor
<1>2. /\ Typed(r) /\ keys[r] # <<>> /\ ids[r] # <<>> /\ draft[r] = NoDraft
      /\ Key(r).category \in Known(r)
    BY <1>1 DEF Slot, Working, Categorized, WithKeys, WithIds, InTransaction
<1>3. UNCHANGED <<entries, categories, version, lastId, counted, lost, raced>>
    BY <1>1 DEF store, history
<1>4. CASE Id(r) \notin Existing
    BY <1>1, <1>4, AnswerKeepsInv DEF LockEntry, InTransaction
<1>5. CASE Id(r) \in Existing
    <2>1. /\ draft' = [draft EXCEPT ![r].rows = rows] /\ Goto(r, "key")
          /\ UNCHANGED <<keys, ids, kind>>
        BY <1>5 DEF LockEntry, plan
    <2>2. Id(r) \in Ids /\ entries[Id(r)] \in Entry /\ Id(r) <= lastId
        BY <1>5 DEF Stored, Existing
    <2>3. rows \in Rows /\ DOMAIN rows = {Id(r)} /\ rows[Id(r)] = entries[Id(r)]
        <3>1. draft[r].rows \in Rows /\ DOMAIN draft[r].rows = {}
            BY <1>2, NoDraftIsADraft DEF Drafts
        <3>2. PICK id \in Ids, old \in Rows, e \in Entry :
                  id = Id(r) /\ old = draft[r].rows /\ e = entries[Id(r)]
            BY <2>2, <3>1
        <3>3. /\ WithRow(old, id, e) \in Rows /\ WithRow(old, id, e)[id] = e
              /\ DOMAIN WithRow(old, id, e) = DOMAIN old \union {id}
            BY RowIsAdded
        <3> HIDE DEF rows
        <3>4. rows = WithRow(old, id, e)
            BY <3>2 DEF rows
        <3> QED
            BY <3>1, <3>2, <3>3, <3>4
    <2> HIDE DEF rows
    <2>4. /\ pc'[r] = "key" /\ \A q \in Requests \ {r} : pc'[q] = pc[q]
          /\ pc' = [q \in Requests |-> pc'[q]]
        BY <2>1, GotoDoes
    <2>5. /\ draft'[r] = [draft[r] EXCEPT !.rows = rows]
          /\ \A q \in Requests \ {r} : draft'[q] = draft[q]
          /\ draft' = [q \in Requests |-> draft'[q]]
        BY <2>1 DEF Arrays
    <2>6. Arrays' /\ \A q \in Requests \ {r} : Untouched(q)
        BY <2>1, <2>4, <2>5 DEF Arrays, Untouched
    <2>7. /\ draft'[r].rows = rows /\ draft'[r].categories = draft[r].categories
          /\ draft'[r] \in Drafts
        BY <1>2, <2>3, <2>5 DEF Typed, Drafts
    <2>8. Typed(r)'
        BY <1>2, <2>1, <2>4, <2>7 DEF Typed, Points, InTransaction
    <2>9. Working(r)'
        BY <1>2, <2>1, <2>4, <2>7, NoDraftIsADraft DEF Working, WithKeys, WithIds, InTransaction
    <2>10. Categorized(r)'
        <3>1. Known(r)' = Known(r)
            BY <1>3, <2>7 DEF Known
        <3>2. entries[Id(r)].key.category \in Known(r)
            BY <1>5 DEF OrphansAreARace, Known
        <3> QED
            BY <1>2, <2>1, <2>3, <2>7, <3>1, <3>2 DEF Categorized, Key
    <2>11. Holding(r)'
        BY <1>3, <1>5, <2>2, <2>3, <2>7 DEF Holding, Existing
    <2>12. \A q \in Requests \ {r} : \A i \in DOMAIN rows, j \in DOMAIN draft[q].rows :
               i # j /\ rows[i].key # draft[q].rows[j].key
        <3> SUFFICES ASSUME NEW q \in Requests \ {r}, NEW j \in DOMAIN draft[q].rows
                     PROVE  Id(r) # j /\ entries[Id(r)].key # draft[q].rows[j].key
            BY <2>3
        <3>1. j # Id(r)
            BY <1>1 DEF RowHolders, Others
        <3> QED
            BY <1>5, <3>1, KeyOfEntry
    <2>13. lastId' \in 0..MaxId /\ pc[r] # "bump"
        BY <1>1, <1>3 DEF Stored
    <2>14. \A i, j \in DOMAIN draft'[r].rows :
               draft'[r].rows[i].key = draft'[r].rows[j].key => i = j
        BY <2>3, <2>7
    <2> QED
        BY <1>1, <1>3, <2>6, <2>7, <2>8, <2>9, <2>10, <2>11, <2>12, <2>13, <2>14, WriteStep
<1> QED
    BY <1>4, <1>5

(* Nobody else has the key, in an entry or in a draft, when it is written. *)
LEMMA UpdateEntryKeepsInv ==
    ASSUME StoreInv, Locked, NEW r \in Requests, UpdateEntry(r)
    PROVE  StoreInv'
<1> USE DEF StoreInv
<1> DEFINE i == Id(r)
           e == [key |-> Key(r), status |-> kind[r].status]
<1>1. /\ pc[r] = "key" /\ KeyRivals(r, Key(r)) = {} /\ draft' = [draft EXCEPT ![r] = NoDraft]
      /\ UNCHANGED <<categories, version, lastId, history>>
    BY DEF UpdateEntry, Runs, WaitsFor
<1>2. CASE e.key \in {entries[j].key : j \in Existing \ {i}}
    <2>1. Rollback(r) /\ UNCHANGED <<store, history>>
        BY <1>1, <1>2 DEF UpdateEntry, Rollback, store
    <2>2. Slot(r)' /\ Arrays'
        BY <2>1, RollbackDoes, AnswerDoes, AnsweredSlot DEF Arrays
    <2> QED
        BY <1>1, <2>1, <2>2, RollbackDoes, AnswerDoes, NoDraftIsADraft, LocalStep
<1>3. CASE e.key \notin {entries[j].key : j \in Existing \ {i}}
    <2>1. entries' = [entries EXCEPT ![i] = e] /\ Goto(r, "bump") /\ UNCHANGED plan
        BY <1>3 DEF UpdateEntry
    <2>2. /\ Typed(r) /\ keys[r] # <<>> /\ Key(r).category \in Known(r)
          /\ DOMAIN draft[r].rows = {i} /\ i \in Existing
        BY <1>1 DEF Slot, Working, Categorized, WithKeys, Locked
    <2>3. e \in Entry /\ e.key = Key(r)
        BY <2>2, NextKey DEF Typed, Kinds, Entry
    <2>4. \A j \in Existing \ {i} : entries[j].key # Key(r)
        BY <1>3, <2>3
    <2> HIDE DEF i, e
    <2>5. /\ entries' \in [Ids -> Entry \union {None}] /\ entries'[i] = e
          /\ \A j \in Ids \ {i} : entries'[j] = entries[j]
        BY <2>1, <2>2, <2>3 DEF Stored, Existing
    <2>6. Existing' = Existing
        BY <2>2, <2>3, <2>5, NoneAssumption DEF Existing
    <2>7. \A j, k \in Existing' : entries'[j].key = entries'[k].key => j = k
        BY <2>3, <2>4, <2>5, <2>6 DEF Stored, Existing
    <2>8. ASSUME NEW q \in Requests \ {r} PROVE Holding(q)'
        <3>1. ASSUME NEW j \in DOMAIN draft[q].rows
              PROVE  /\ j <= lastId
                     /\ j \in Existing => draft[q].rows[j].key = entries'[j].key
                     /\ j \notin Existing => draft[q].rows[j].key \notin Taken'
            <4>1. /\ j <= lastId
                  /\ j \in Existing => draft[q].rows[j].key = entries[j].key
                  /\ j \notin Existing => draft[q].rows[j].key \notin Taken
                BY DEF Slot, Holding
            <4>2. j # i
                BY <2>2 DEF Apart
            <4>3. draft[q].rows[j].key # Key(r)
                BY <1>1 DEF KeyRivals, Others
            <4>4. \A k \in Existing : entries'[k].key = entries[k].key \/ entries'[k].key = Key(r)
                BY <2>3, <2>5 DEF Existing
            <4> QED
                BY <2>5, <2>6, <4>1, <4>2, <4>3, <4>4 DEF Existing, Taken
        <3>2. draft'[q] = draft[q] /\ lastId' = lastId
            BY <1>1 DEF Arrays
        <3> QED
            BY <2>6, <3>1, <3>2 DEF Holding
    <2>9. OrphansAreARace'
        <3>1. Key(r).category \in categories \union {AutoAdded} \union raced
            <4>1. draft[r].categories = {}
                BY <1>1 DEF Slot, Working
            <4> QED
                BY <2>2, <4>1 DEF Known
        <3>2. \A j \in Existing : entries[j].key.category \in categories \union {AutoAdded} \union raced
            BY DEF OrphansAreARace
        <3>3. categories' = categories /\ raced' = raced
            BY <1>1 DEF history
        <3> QED
            BY <2>3, <2>5, <2>6, <3>1, <3>2, <3>3 DEF OrphansAreARace, Existing
    <2> QED
        BY <1>1, <2>1, <2>5, <2>6, <2>7, <2>8, <2>9, ChangeStep
<1> QED
    BY <1>2, <1>3

LEMMA DeleteEntriesKeepsInv ==
    ASSUME StoreInv, NEW r \in Requests, DeleteEntries(r)
    PROVE  StoreInv'
<1> USE DEF StoreInv
<1> DEFINE gone == {ids[r][n] : n \in DOMAIN ids[r]}
<1>1. /\ pc[r] = "delete" /\ UNCHANGED <<categories, version, lastId, draft, history>>
      /\ entries' = [i \in Ids |-> IF i \in gone THEN None ELSE entries[i]]
      /\ IF gone \intersect Existing = {} THEN Answer(r) ELSE Goto(r, "bump") /\ UNCHANGED plan
    BY DEF DeleteEntries, Runs
<1>2. \A n \in DOMAIN ids[r] : RowHolders(r, ids[r][n]) = {}
    <2>1. UNION {RowHolders(r, ids[r][n]) : n \in DOMAIN ids[r]} = {}
        BY DEF DeleteEntries, Runs, WaitsFor
    <2> QED
        BY <2>1
<1>3. \A q \in Requests \ {r} : \A j \in DOMAIN draft[q].rows : j \notin gone
    BY <1>2 DEF RowHolders, Others
<1> HIDE DEF gone
<1>4. CASE gone \intersect Existing = {}
    <2>1. entries' = entries
        BY <1>1, <1>4 DEF Stored, Existing
    <2> QED
        BY <1>1, <1>4, <2>1, AnswerKeepsInv DEF store, InTransaction
<1>5. CASE gone \intersect Existing # {}
    <2>1. entries' \in [Ids -> Entry \union {None}]
        BY <1>1 DEF Stored
    <2>2. /\ Existing' = Existing \ gone
          /\ \A j \in Existing' : entries'[j] = entries[j]
        BY <1>1 DEF Existing
    <2>3. \A j, k \in Existing' : entries'[j].key = entries'[k].key => j = k
        BY <2>2 DEF Stored
    <2>4. ASSUME NEW q \in Requests \ {r} PROVE Holding(q)'
        <3>1. ASSUME NEW j \in DOMAIN draft[q].rows
              PROVE  /\ j <= lastId
                     /\ j \in Existing' => draft[q].rows[j].key = entries'[j].key
                     /\ j \notin Existing' => draft[q].rows[j].key \notin Taken'
            <4>1. /\ j <= lastId
                  /\ j \in Existing => draft[q].rows[j].key = entries[j].key
                  /\ j \notin Existing => draft[q].rows[j].key \notin Taken
                BY DEF Slot, Holding
            <4>2. j \in Existing <=> j \in Existing'
                BY <1>3, <2>2
            <4> QED
                BY <2>2, <4>1, <4>2 DEF Taken
        <3> QED
            BY <1>1, <3>1 DEF Holding
    <2>5. OrphansAreARace'
        BY <1>1, <2>2 DEF OrphansAreARace, history
    <2>6. draft' = [draft EXCEPT ![r] = NoDraft]
        BY <1>1 DEF Arrays, Slot, Working, InTransaction
    <2> QED
        BY <1>1, <1>5, <2>1, <2>2, <2>3, <2>4, <2>5, <2>6, ChangeStep
<1> QED
    BY <1>4, <1>5

(* A step that changes the categories, or what the version stands for, and *)
(* no entry and no draft.                                                  *)
LEMMA CatalogStep ==
    ASSUME StoreInv, NEW r \in Requests, UNCHANGED <<entries, lastId, draft>>,
           Arrays', Slot(r)', \A q \in Requests \ {r} : Untouched(q) /\ Categorized(q)',
           categories' \subseteq Categories, raced' \subseteq Categories, version' \in Nat,
           counted' \in [Ids -> Entry \union {None}], lost' \in BOOLEAN,
           VersionCountsChanges', OrphansAreARace'
    PROVE  StoreInv'
<1> USE DEF StoreInv
<1>1. lastId \in Nat
    BY BoundsAssumption DEF Stored
<1>2. \A q \in Requests : Slot(q)'
    BY <1>1, UntouchedWorks, UntouchedRows DEF Slot
<1>3. Stored'
    BY DEF Stored, Existing
<1>4. Apart'
    BY DEF Apart
<1> QED
    BY <1>2, <1>3, <1>4

LEMMA BumpKeepsInv ==
    ASSUME StoreInv, NEW r \in Requests, Bump(r) \/ BumpLost(r)
    PROVE  StoreInv'
<1> USE DEF StoreInv
<1>1. /\ pc[r] = "bump" /\ Answer(r) /\ UNCHANGED <<entries, categories, lastId, draft, raced>>
      /\ \/ version' = version + 1 /\ counted' = entries' /\ lost' = FALSE
         \/ version' = version /\ counted' = counted /\ lost' = TRUE
    BY DEF Bump, BumpLost, Runs, Raise, store
<1>2. draft[r] = NoDraft
    BY <1>1 DEF Slot, Working, InTransaction
<1>3. Arrays' /\ Slot(r)' /\ \A q \in Requests \ {r} : Untouched(q)
    BY <1>1, <1>2, AnswerDoes, AnsweredSlot DEF Arrays, Untouched
<1>4. \A q \in Requests \ {r} : Categorized(q)'
    BY <1>1, <1>3, UntouchedCategories
<1>5. VersionCountsChanges'
    BY <1>1 DEF VersionCountsChanges
<1>6. OrphansAreARace'
    BY <1>1 DEF OrphansAreARace, Existing
<1>7. version' \in Nat /\ lost' \in BOOLEAN
    <2>1. version \in Nat
        BY DEF Stored
    <2>2. version' = version \/ version' = version + 1
        BY <1>1
    <2>3. version' \in Nat
        BY <2>1, <2>2
    <2>4. lost' \in BOOLEAN
        BY <1>1, Zenon
    <2> QED
        BY <2>3, <2>4
<1>8. counted' \in [Ids -> Entry \union {None}]
    <2>1. counted' = entries \/ counted' = counted
        BY <1>1
    <2> QED
        BY <2>1 DEF Stored
<1>9. categories' \subseteq Categories /\ raced' \subseteq Categories
    BY <1>1 DEF Stored
<1> QED
    BY <1>1, <1>3, <1>4, <1>5, <1>6, <1>7, <1>8, <1>9, CatalogStep

LEMMA CreateCategoryKeepsInv ==
    ASSUME StoreInv, NEW r \in Requests, CreateCategory(r)
    PROVE  StoreInv'
<1> USE DEF StoreInv
<1>1. /\ pc[r] = "create" /\ categories' = categories \union {Key(r).category}
      /\ IF kind[r].name = "sync" THEN Goto(r, "check") /\ UNCHANGED plan ELSE Answer(r)
      /\ UNCHANGED <<entries, version, lastId, draft, counted, lost, raced>>
    BY DEF CreateCategory, Runs, history
<1>2. Slot(r) /\ Typed(r) /\ keys[r] # <<>> /\ draft[r] = NoDraft
    BY <1>1 DEF Slot, Working, WithKeys, InTransaction
<1>3. Arrays' /\ Slot(r)' /\ \A q \in Requests \ {r} : Untouched(q)
    <2>1. CASE kind[r].name = "sync"
        <3>1. Goto(r, "check") /\ UNCHANGED <<keys, ids, kind>>
            BY <1>1, <2>1 DEF plan
        <3>2. /\ pc'[r] = "check" /\ \A q \in Requests \ {r} : pc'[q] = pc[q]
              /\ pc' = [q \in Requests |-> pc'[q]]
            BY <3>1, GotoDoes
        <3>3. Working(r)'
            BY <1>1, <1>2, <2>1, <3>1, <3>2 DEF Working, WithKeys, WithIds, InTransaction
        <3>4. keys'[r] \in Seq(Keys) /\ ids'[r] \in Seq(Ids) /\ kind'[r] \in Kinds
            BY <1>2, <3>1 DEF Typed
        <3>5. Slot(r)'
            BY <1>1, <1>2, <3>2, <3>3, <3>4, PlannedSlot DEF Points
        <3> QED
            BY <1>1, <3>1, <3>2, <3>5 DEF Arrays, Untouched
    <2>2. CASE kind[r].name # "sync"
        BY <1>1, <1>2, <2>2, AnswerDoes, AnsweredSlot DEF Arrays, Untouched
    <2> QED
        BY <2>1, <2>2
<1>4. \A q \in Requests \ {r} : Categorized(q)'
    BY <1>1, <1>3, UntouchedCategories
<1>5. VersionCountsChanges'
    BY <1>1, <1>3 DEF VersionCountsChanges, Untouched
<1>6. OrphansAreARace'
    BY <1>1 DEF OrphansAreARace, Existing
<1>7. Key(r).category \in Categories
    BY <1>2, NextKey DEF Keys
<1>8. /\ version' \in Nat /\ lost' \in BOOLEAN /\ counted' \in [Ids -> Entry \union {None}]
      /\ categories' \subseteq Categories /\ raced' \subseteq Categories
    BY <1>1, <1>7 DEF Stored
<1> QED
    BY <1>1, <1>3, <1>4, <1>5, <1>6, <1>8, CatalogStep

LEMMA DropCategoryKeepsInv ==
    ASSUME StoreInv, NEW r \in Requests, DropCategory(r)
    PROVE  StoreInv'
<1> USE DEF StoreInv
<1> DEFINE c == Key(r).category
<1>1. /\ pc[r] = "drop" /\ categories' = categories \ {c} /\ Answer(r)
      /\ raced' = IF kind[r].name = "drop" /\ (c \in InUse \/ Heading(c) # {})
                  THEN raced \union {c} ELSE raced
      /\ UNCHANGED <<entries, version, lastId, draft, counted, lost>>
    BY DEF DropCategory
<1>2. /\ Typed(r) /\ keys[r] # <<>> /\ draft[r] = NoDraft /\ kind[r].name = "drop"
    BY <1>1 DEF Slot, Working, WithKeys, InTransaction
<1>3. c \in Categories
    BY <1>2, NextKey DEF Keys
<1> HIDE DEF c
<1>4. Arrays' /\ Slot(r)' /\ \A q \in Requests \ {r} : Untouched(q)
    BY <1>1, <1>2, AnswerDoes, AnsweredSlot DEF Arrays, Untouched
<1>5. VersionCountsChanges'
    BY <1>1, <1>4 DEF VersionCountsChanges, Untouched
<1>6. /\ version' \in Nat /\ lost' \in BOOLEAN /\ counted' \in [Ids -> Entry \union {None}]
      /\ categories' \subseteq Categories /\ raced' \subseteq Categories
    BY <1>1, <1>3 DEF Stored
<1>7. CASE c \in InUse \/ Heading(c) # {}
    <2>1. categories \union raced \subseteq categories' \union raced'
        BY <1>1, <1>2, <1>7
    <2>2. \A q \in Requests \ {r} : Categorized(q)'
        BY <1>4, <2>1, UntouchedCategories
    <2>3. OrphansAreARace'
        BY <1>1, <2>1 DEF OrphansAreARace, Existing
    <2> QED
        BY <1>1, <1>4, <1>5, <1>6, <2>2, <2>3, CatalogStep
<1>8. CASE c \notin InUse /\ Heading(c) = {}
    <2>1. raced' = raced
        BY <1>1, <1>8
    <2>2. ASSUME NEW q \in Requests \ {r} PROVE Categorized(q)'
        <3>1. \A known \in Known(q) : known # c => known \in Known(q)'
            BY <1>1, <2>1 DEF Known
        <3>2. pc[q] \in {"entry", "update", "key"} => Key(q).category \in Known(q) /\ Key(q).category # c
            BY <1>8 DEF Slot, Categorized, Heading
        <3>3. \A i \in DOMAIN draft[q].rows : /\ draft[q].rows[i].key.category \in Known(q)
                                              /\ draft[q].rows[i].key.category # c
            <4>1. c \notin {k.category : k \in OwnKeys(q)}
                BY <1>8 DEF Heading
            <4> QED
                BY <4>1 DEF OwnKeys, Slot, Categorized
        <3> QED
            BY <1>4, <3>1, <3>2, <3>3 DEF Categorized, Untouched, Key
    <2>3. OrphansAreARace'
        BY <1>1, <1>8, <2>1 DEF OrphansAreARace, Existing, InUse
    <2> QED
        BY <1>1, <1>4, <1>5, <1>6, <2>2, <2>3, CatalogStep
<1> QED
    BY <1>7, <1>8

-----------------------------------------------------------------------------
LEMMA StoreStep == StoreInv /\ Locked /\ [Next]_vars => StoreInv'
<1> SUFFICES ASSUME StoreInv, Locked, [Next]_vars PROVE StoreInv'
    OBVIOUS
<1>1. CASE Next
    <2>1. PICK r \in Requests : Begins(r) \/ Continue(r)
        BY <1>1 DEF Next
    <2>2. CASE Begins(r)
        BY <2>2, BeginsKeepInv
    <2>3. CASE InsertCategory(r) \/ BumpInTransaction(r) \/ TransactionFails(r)
        BY <2>3, InsertCategoryKeepsInv, BumpInTransactionKeepsInv, FailureKeepsInv
    <2>4. CASE InsertEntry(r) \/ ReadRow(r) \/ WriteStatus(r)
        BY <2>4, InsertEntryKeepsInv, ReadRowKeepsInv, WriteStatusKeepsInv
    <2>5. CASE Commit(r) \/ LockEntry(r) \/ UpdateEntry(r) \/ DeleteEntries(r)
        BY <2>5, CommitKeepsInv, LockEntryKeepsInv, UpdateEntryKeepsInv, DeleteEntriesKeepsInv
    <2>6. CASE CheckCategory(r) \/ CheckExisting(r) \/ Bump(r) \/ BumpLost(r)
        BY <2>6, CheckKeepsInv, BumpKeepsInv
    <2>7. CASE CreateCategory(r) \/ DropCategory(r)
        BY <2>7, CreateCategoryKeepsInv, DropCategoryKeepsInv
    <2> QED
        BY <2>1, <2>2, <2>3, <2>4, <2>5, <2>6, <2>7 DEF Continue
<1>2. CASE UNCHANGED vars
    <2>1. /\ UNCHANGED <<entries, categories, version, lastId, counted, lost, raced>>
          /\ UNCHANGED <<pc, keys, ids, kind, draft>>
        BY <1>2 DEF vars, store, plan, history
    <2>2. Stored' /\ Arrays' /\ Apart'
        BY <2>1 DEF StoreInv, Stored, Existing, Arrays, Apart
    <2>3. \A r \in Requests : Slot(r)'
        BY <2>1, SlotsOfOthers DEF StoreInv
    <2>4. VersionCountsChanges' /\ OrphansAreARace'
        BY <2>1 DEF StoreInv, VersionCountsChanges, OrphansAreARace, Existing
    <2> QED
        BY <2>2, <2>3, <2>4 DEF StoreInv
<1> QED
    BY <1>1, <1>2

-----------------------------------------------------------------------------
(* Who waits for whom                                                      *)

(* A request has as many items left as it was given, at most, and fewer    *)
(* when its draft has one of them; only a commit follows a bump.           *)
Paced(r) ==
    /\ Len(keys[r]) <= kind[r].size /\ Len(ids[r]) <= kind[r].size
    /\ draft[r].bumps => pc[r] = "commit"
    /\ DOMAIN draft[r].rows # {} =>
          /\ pc[r] \in {"category", "entry"} => Len(keys[r]) < kind[r].size
          /\ pc[r] \in {"row", "write"} => Len(ids[r]) < kind[r].size
    /\ draft[r].categories # {} =>
          /\ pc[r] = "category" => Len(keys[r]) < kind[r].size
          /\ pc[r] \notin {"row", "write"}

PacedInv == StoreInv /\ Locked /\ \A r \in Requests : Paced(r)

LEMMA Lengths ==
    ASSUME NEW r \in Requests, Typed(r)
    PROVE  /\ Len(keys[r]) \in Nat /\ Len(ids[r]) \in Nat /\ kind[r].size \in Nat
           /\ keys[r] # <<>> => /\ Len(keys[r]) > 0
                                /\ Len(Tail(keys[r])) = Len(keys[r]) - 1
           /\ ids[r] # <<>> => /\ Len(ids[r]) > 0
                               /\ Len(Tail(ids[r])) = Len(ids[r]) - 1
<1>1. keys[r] \in Seq(Keys) /\ ids[r] \in Seq(Ids) /\ kind[r].size \in Nat
    BY DEF Typed, Kinds
<1>2. Len(keys[r]) \in Nat /\ Len(ids[r]) \in Nat
    BY <1>1, LenProperties
<1>3. (keys[r] # <<>> => Len(keys[r]) # 0) /\ (ids[r] # <<>> => Len(ids[r]) # 0)
    BY <1>1, EmptySeq
<1>4. /\ keys[r] # <<>> => Len(Tail(keys[r])) = Len(keys[r]) - 1
      /\ ids[r] # <<>> => Len(Tail(ids[r])) = Len(ids[r]) - 1
    BY <1>1, HeadTailProperties
<1> QED
    BY <1>1, <1>2, <1>3, <1>4

(* Requests step one at a time. *)
LEMMA OthersAreUntouched ==
    ASSUME StoreInv, NEW r \in Requests, Begins(r) \/ Continue(r)
    PROVE  \A q \in Requests \ {r} : Untouched(q)
<1> USE DEF StoreInv
<1>1. ASSUME NEW q \in Requests \ {r}, Answer(r)
      PROVE  pc'[q] = pc[q] /\ keys'[q] = keys[q] /\ ids'[q] = ids[q] /\ kind'[q] = kind[q]
    BY <1>1, AnswerDoes
<1>2. ASSUME NEW q \in Requests \ {r}, NEW next, Goto(r, next)
      PROVE  pc'[q] = pc[q]
    BY <1>2, GotoDoes
<1>3. ASSUME NEW q \in Requests \ {r}, Rollback(r)
      PROVE  Untouched(q)
    BY <1>1, <1>3, RollbackDoes DEF Untouched
<1> SUFFICES ASSUME NEW q \in Requests \ {r} PROVE Untouched(q)
    OBVIOUS
<1>4. CASE Begins(r)
    <2>1. draft' = draft
        BY <1>4 DEF Begins, AddBegins, SyncBegins, StatusBegins, UpdateBegins, DeleteBegins,
                    CreateBegins, CountUses
    <2>2. Answer(r) \/ \E name, st, ks, is, next : Plan(r, name, st, ks, is) /\ Goto(r, next)
        BY <1>4, Zenon DEF Begins, AddBegins, SyncBegins, StatusBegins, UpdateBegins,
                           DeleteBegins, CreateBegins, CountUses
    <2> QED
        BY <1>1, <2>1, <2>2, PlanDoes DEF Untouched
<1>5. CASE \/ CheckCategory(r) \/ DeleteEntries(r) \/ Bump(r) \/ BumpLost(r)
           \/ CreateCategory(r) \/ CheckExisting(r) \/ DropCategory(r)
    <2>1. draft' = draft
        BY <1>5 DEF CheckCategory, DeleteEntries, Bump, BumpLost, CreateCategory,
                    CheckExisting, DropCategory
    <2>2. Answer(r) \/ \E next : Goto(r, next) /\ UNCHANGED plan
        BY <1>5, Zenon DEF CheckCategory, DeleteEntries, Bump, BumpLost, CreateCategory,
                           CheckExisting, DropCategory
    <2> QED
        BY <1>1, <1>2, <2>1, <2>2 DEF plan, Untouched
<1>6. CASE Commit(r) \/ TransactionFails(r)
    BY <1>3, <1>6 DEF Commit, TransactionFails
<1>7. CASE InsertCategory(r) \/ BumpInTransaction(r)
    <2>1. /\ draft'[q] = draft[q] /\ UNCHANGED <<keys, ids, kind>>
          /\ \E next : Goto(r, next)
        BY <1>7 DEF InsertCategory, BumpInTransaction, plan, Arrays
    <2> QED
        BY <1>2, <2>1 DEF Untouched
<1>8. CASE InsertEntry(r)
    <2>1. CASE Rollback(r)
        BY <1>3, <2>1
    <2>2. CASE ~Rollback(r)
        <3>1. /\ UNCHANGED <<ids, kind>> /\ keys'[q] = keys[q] /\ draft'[q] = draft[q]
              /\ \E next : Goto(r, next)
            BY <1>8, <2>2 DEF InsertEntry, Arrays
        <3> QED
            BY <1>2, <3>1 DEF Untouched
    <2> QED
        BY <2>1, <2>2
<1>9. CASE ReadRow(r) \/ WriteStatus(r)
    <2>1. /\ UNCHANGED <<keys, kind>> /\ ids'[q] = ids[q] /\ draft'[q] = draft[q]
          /\ \E next : Goto(r, next)
        BY <1>9 DEF ReadRow, WriteStatus, NextRow, Arrays
    <2> QED
        BY <1>2, <2>1 DEF Untouched
<1>10. CASE LockEntry(r) \/ UpdateEntry(r)
    <2>1. draft'[q] = draft[q]
        BY <1>10 DEF LockEntry, UpdateEntry, Arrays
    <2>2. Answer(r) \/ \E next : Goto(r, next) /\ UNCHANGED plan
        BY <1>10, Zenon DEF LockEntry, UpdateEntry
    <2> QED
        BY <1>1, <1>2, <2>1, <2>2 DEF plan, Untouched
<1> QED
    BY <1>4, <1>5, <1>6, <1>7, <1>8, <1>9, <1>10 DEF Continue

(* The points a statement may lead to. *)
LEMMA AfterAStatement ==
    ASSUME NEW r \in Requests, NEW done, NEW more, NEW wrote
    PROVE  After(r, done, more, wrote) \in {"row", "category", "entry", "meta", "commit"}
BY DEF After

(* Only the UPDATE that has locked its entry looks for its key. *)
LEMMA KeyAfterLock ==
    ASSUME StoreInv, NEW r \in Requests, Begins(r) \/ Continue(r), ~LockEntry(r)
    PROVE  pc'[r] # "key"
<1> USE DEF StoreInv
<1>1. ASSUME NEW next, Goto(r, next), next # "key" PROVE pc'[r] # "key"
    BY <1>1, GotoDoes
<1>2. ASSUME Answer(r) PROVE pc'[r] # "key"
    BY <1>2, AnswerDoes
<1>3. ASSUME Rollback(r) PROVE pc'[r] # "key"
    BY <1>2, <1>3 DEF Rollback
<1>4. CASE Begins(r)
    <2>1. \/ Answer(r)
          \/ \E next \in {"category", "row", "listed", "delete", "check", "create", "drop"} :
                Goto(r, next)
        <3>1. \A c : (IF c \in Listed THEN "check" ELSE "create") \in {"check", "create"}
            OBVIOUS
        <3>2. SyncBegins(r) => \E c : Goto(r, IF c \in Listed THEN "check" ELSE "create")
            BY DEF SyncBegins
        <3> QED
            BY <1>4, <3>1, <3>2 DEF Begins, AddBegins, StatusBegins, UpdateBegins, DeleteBegins,
                                    CreateBegins, CountUses
    <2> QED
        BY <1>1, <1>2, <2>1
<1>5. CASE \/ CheckCategory(r) \/ UpdateEntry(r) \/ DeleteEntries(r) \/ Bump(r) \/ BumpLost(r)
           \/ CreateCategory(r) \/ DropCategory(r)
    <2>1. Answer(r) \/ \E next \in {"update", "bump", "check"} : Goto(r, next)
        BY <1>5 DEF CheckCategory, UpdateEntry, DeleteEntries, Bump, BumpLost, CreateCategory,
                    DropCategory
    <2> QED
        BY <1>1, <1>2, <2>1
<1>6. CASE Commit(r) \/ TransactionFails(r)
    BY <1>3, <1>6 DEF Commit, TransactionFails
<1>7. CASE \/ InsertCategory(r) \/ InsertEntry(r) \/ BumpInTransaction(r) \/ CheckExisting(r)
           \/ ReadRow(r) \/ WriteStatus(r)
    <2>1. \/ Rollback(r) \/ Answer(r) \/ Goto(r, "write")
          \/ \E done, more, wrote : Goto(r, After(r, done, more, wrote))
        BY <1>7, Zenon DEF InsertCategory, InsertEntry, BumpInTransaction, CheckExisting, ReadRow,
                           WriteStatus, NextRow
    <2> QED
        BY <1>1, <1>2, <1>3, <2>1, AfterAStatement
<1> QED
    BY <1>4, <1>5, <1>6, <1>7 DEF Continue

(* An entry somebody has written, or locked, is not deleted. *)
LEMMA HeldEntriesStay ==
    ASSUME StoreInv, Locked, NEW r \in Requests, Begins(r) \/ Continue(r),
           NEW q \in Requests \ {r}, NEW i \in DOMAIN draft[q].rows, i \in Existing
    PROVE  i \in Existing'
<1> USE DEF StoreInv
<1>1. i \in Ids /\ entries[i] # None
    BY DEF Existing
<1>2. CASE DeleteEntries(r)
    <2> DEFINE gone == {ids[r][n] : n \in DOMAIN ids[r]}
    <2>1. UNION {RowHolders(r, ids[r][n]) : n \in DOMAIN ids[r]} = {}
        BY <1>2 DEF DeleteEntries, Runs, WaitsFor
    <2>2. i \notin gone
        BY <2>1 DEF RowHolders, Others
    <2>3. entries' = [j \in Ids |-> IF j \in gone THEN None ELSE entries[j]]
        BY <1>2 DEF DeleteEntries
    <2> QED
        BY <1>1, <2>2, <2>3 DEF Existing
<1>3. CASE UpdateEntry(r)
    <2>1. i # Id(r)
        BY <1>3 DEF UpdateEntry, Runs, Locked, Apart
    <2>2. entries'[i] = entries[i]
        BY <1>1, <1>3, <2>1 DEF UpdateEntry, Stored
    <2> QED
        BY <1>1, <2>2 DEF Existing
<1>4. CASE Commit(r)
    <2>1. i \notin DOMAIN draft[r].rows
        BY DEF Apart
    <2> QED
        BY <1>1, <1>4, <2>1 DEF Commit, Existing
<1>5. CASE ~(DeleteEntries(r) \/ UpdateEntry(r) \/ Commit(r))
    <2>1. entries' = entries
        BY <1>5 DEF Begins, Continue, AddBegins, SyncBegins, StatusBegins, UpdateBegins,
                    DeleteBegins, CreateBegins, CountUses, InsertCategory, InsertEntry, ReadRow,
                    WriteStatus, BumpInTransaction, TransactionFails, CheckCategory, LockEntry,
                    Bump, BumpLost, CreateCategory, CheckExisting, DropCategory, store
    <2> QED
        BY <1>1, <2>1 DEF Existing
<1> QED
    BY <1>2, <1>3, <1>4, <1>5

LEMMA LockedStep == StoreInv /\ Locked /\ [Next]_vars => Locked'
<1> SUFFICES ASSUME StoreInv, Locked, [Next]_vars PROVE Locked'
    OBVIOUS
<1>1. CASE Next
    <2>1. PICK r \in Requests : Begins(r) \/ Continue(r)
        BY <1>1 DEF Next
    <2>2. ASSUME NEW q \in Requests \ {r}, pc'[q] = "key"
          PROVE  DOMAIN draft'[q].rows = {Id(q)'} /\ Id(q)' \in Existing'
        <3>1. pc[q] = "key" /\ draft'[q] = draft[q] /\ Id(q)' = Id(q)
            BY <2>1, <2>2, OthersAreUntouched DEF Untouched, Id
        <3>2. DOMAIN draft[q].rows = {Id(q)} /\ Id(q) \in Existing
            BY <3>1 DEF Locked
        <3> QED
            BY <2>1, <3>1, <3>2, HeldEntriesStay
    <2>3. ASSUME pc'[r] = "key"
          PROVE  DOMAIN draft'[r].rows = {Id(r)'} /\ Id(r)' \in Existing'
        <3>1. LockEntry(r)
            BY <2>1, <2>3, KeyAfterLock
        <3>2. /\ pc[r] = "update" /\ draft[r] = NoDraft /\ Arrays
              /\ UNCHANGED <<entries, ids>>
            <4>1. pc[r] = "update" /\ entries' = entries
                BY <3>1 DEF LockEntry, Runs, store
            <4>2. ~Answer(r)
                BY <2>3, AnswerDoes DEF StoreInv
            <4> QED
                BY <3>1, <4>1, <4>2 DEF LockEntry, plan, StoreInv, Slot, Working, InTransaction
        <3>3. /\ Id(r) \in Existing
              /\ draft' = [draft EXCEPT ![r].rows = WithRow(@, Id(r), entries[Id(r)])]
            BY <2>3, <3>1, AnswerDoes DEF LockEntry, StoreInv
        <3>4. DOMAIN WithRow(draft[r].rows, Id(r), entries[Id(r)]) = {Id(r)}
            BY <3>2, NoDraftIsADraft DEF WithRow
        <3>5. draft'[r].rows = WithRow(draft[r].rows, Id(r), entries[Id(r)])
            <4>1. draft[r] \in Drafts
                BY DEF StoreInv, Slot, Typed
            <4> QED
                BY <3>2, <3>3, <4>1 DEF Arrays, Drafts
        <3> QED
            BY <3>2, <3>3, <3>4, <3>5 DEF Id, Existing
    <2> QED
        BY <2>2, <2>3 DEF Locked
<1>2. CASE UNCHANGED vars
    BY <1>2 DEF vars, store, plan, Locked, Id, Existing
<1> QED
    BY <1>1, <1>2

(* A request that has no draft, and no more items than it was given. *)
LEMMA EmptyHandsArePaced ==
    ASSUME NEW r \in Requests, draft'[r] = NoDraft,
           Len(keys'[r]) <= kind'[r].size, Len(ids'[r]) <= kind'[r].size
    PROVE  Paced(r)'
BY NoDraftIsADraft DEF Paced

LEMMA AnswerIsPaced ==
    ASSUME StoreInv, StoreInv', NEW r \in Requests, Answer(r)
    PROVE  Paced(r)'
<1>1. /\ pc'[r] = "answered" /\ keys'[r] = <<>> /\ ids'[r] = <<>> /\ kind'[r] = NoKind
    BY AnswerDoes DEF StoreInv
<1>2. draft'[r] = NoDraft
    BY <1>1 DEF StoreInv, Slot, Working, InTransaction
<1>3. Len(keys'[r]) <= kind'[r].size /\ Len(ids'[r]) <= kind'[r].size
    BY <1>1 DEF NoKind
<1> QED
    BY <1>2, <1>3, EmptyHandsArePaced

LEMMA BeginIsPaced ==
    ASSUME StoreInv, StoreInv', NEW r \in Requests, Begins(r)
    PROVE  Paced(r)'
<1>1. draft'[r] = NoDraft
    BY DEF Begins, AddBegins, SyncBegins, StatusBegins, UpdateBegins, DeleteBegins, CreateBegins,
           CountUses, StoreInv, Slot, Working, InTransaction
<1>2. Answer(r) \/ \E name, st, ks, is, next : Plan(r, name, st, ks, is) /\ Goto(r, next)
    BY Zenon DEF Begins, AddBegins, SyncBegins, StatusBegins, UpdateBegins, DeleteBegins,
                 CreateBegins, CountUses
<1>3. CASE Answer(r)
    BY <1>3, AnswerIsPaced
<1>4. ASSUME NEW name, NEW st, NEW ks, NEW is, NEW next,
             Plan(r, name, st, ks, is), Goto(r, next)
      PROVE  Paced(r)'
    <2>1. keys'[r] = ks /\ ids'[r] = is /\ kind'[r].size = AtLeast(Len(ks), Len(is))
        <3>1. /\ keys'[r] = ks /\ ids'[r] = is
              /\ kind'[r] = [name |-> name, status |-> st, size |-> AtLeast(Len(ks), Len(is))]
            BY <1>4, PlanDoes DEF StoreInv
        <3> QED
            BY <3>1
    <2>2. ks \in Seq(Keys) /\ is \in Seq(Ids)
        BY <2>1 DEF StoreInv, Slot, Typed
    <2>3. Len(ks) \in Nat /\ Len(is) \in Nat
        BY <2>2, LenProperties
    <2>4. Len(ks) <= AtLeast(Len(ks), Len(is)) /\ Len(is) <= AtLeast(Len(ks), Len(is))
        BY <2>3 DEF AtLeast
    <2> QED
        BY <1>1, <2>1, <2>4, EmptyHandsArePaced
<1> QED
    BY <1>2, <1>3, <1>4

(* A statement that leaves no draft, or that locks the row of an entry. *)
LEMMA StatementIsPaced ==
    ASSUME StoreInv, StoreInv', NEW r \in Requests, Paced(r),
           \/ CheckCategory(r) \/ LockEntry(r) \/ UpdateEntry(r) \/ DeleteEntries(r) \/ Bump(r)
           \/ BumpLost(r) \/ CreateCategory(r) \/ CheckExisting(r) \/ DropCategory(r)
    PROVE  Paced(r)'
<1>1. Answer(r) \/ UNCHANGED plan
    BY DEF CheckCategory, LockEntry, UpdateEntry, DeleteEntries, Bump, BumpLost, CreateCategory,
           CheckExisting, DropCategory
<1>2. CASE LockEntry(r) /\ ~Answer(r)
    <2>1. /\ pc[r] = "update" /\ Goto(r, "key") /\ UNCHANGED <<keys, ids, kind>>
          /\ \E rows : draft' = [draft EXCEPT ![r].rows = rows]
        BY <1>2 DEF LockEntry, Runs, plan
    <2>2. draft[r] = NoDraft /\ draft[r] \in Drafts
        BY <2>1 DEF StoreInv, Slot, Typed, Working, InTransaction
    <2>3. draft'[r].bumps = draft[r].bumps /\ draft'[r].categories = draft[r].categories
        BY <2>1, <2>2 DEF StoreInv, Arrays, Drafts
    <2>4. pc'[r] = "key"
        BY <2>1, GotoDoes DEF StoreInv
    <2> QED
        BY <2>1, <2>2, <2>3, <2>4, NoDraftIsADraft DEF Paced
<1>3. CASE ~LockEntry(r) /\ UNCHANGED plan
    <2>1. draft'[r] = NoDraft
        <3>1. CASE UpdateEntry(r)
            BY <3>1 DEF UpdateEntry, StoreInv, Arrays
        <3>2. CASE ~UpdateEntry(r)
            <4>1. draft' = draft /\ pc[r] \notin InTransaction
                BY <1>3, <3>2 DEF CheckCategory, DeleteEntries, Bump, BumpLost, CreateCategory,
                                  CheckExisting, DropCategory, Runs, InTransaction
            <4> QED
                BY <4>1 DEF StoreInv, Slot, Working
        <3> QED
            BY <3>1, <3>2
    <2>2. Len(keys'[r]) <= kind'[r].size /\ Len(ids'[r]) <= kind'[r].size
        BY <1>3 DEF plan, Paced
    <2> QED
        BY <2>1, <2>2, EmptyHandsArePaced
<1> QED
    BY <1>1, <1>2, <1>3, AnswerIsPaced

LEMMA InsertIsPaced ==
    ASSUME StoreInv, StoreInv', NEW r \in Requests, Paced(r),
           InsertCategory(r) \/ InsertEntry(r)
    PROVE  Paced(r)'
<1> USE DEF StoreInv
<1>1. /\ pc[r] \in {"category", "entry"} /\ Typed(r) /\ keys[r] # <<>>
      /\ kind[r].name \in {"add", "sync"} /\ draft[r] \in Drafts /\ ~draft[r].bumps
    BY DEF InsertCategory, InsertEntry, Runs, Slot, Typed, Working, WithKeys, Paced
<1>2. CASE InsertCategory(r)
    <2>1. /\ Goto(r, "entry") /\ UNCHANGED <<keys, ids, kind>> /\ pc[r] = "category"
          /\ draft' = [draft EXCEPT ![r].categories = WithCategory(r)]
        BY <1>2, AfterValues DEF InsertCategory, Runs, plan
    <2>2. draft'[r] = [draft[r] EXCEPT !.categories = WithCategory(r)]
        BY <2>1 DEF Arrays
    <2>3. draft'[r].rows = draft[r].rows /\ draft'[r].bumps = draft[r].bumps
        BY <1>1, <2>2 DEF Drafts
    <2>4. pc'[r] = "entry"
        BY <2>1, GotoDoes
    <2> QED
        BY <1>1, <2>1, <2>3, <2>4 DEF Paced
<1>3. CASE InsertEntry(r) /\ ~Rollback(r)
    <2>1. PICK rows, wrote :
              /\ draft' = [draft EXCEPT ![r].rows = rows]
              /\ keys' = [keys EXCEPT ![r] = Tail(@)] /\ UNCHANGED <<ids, kind>>
              /\ Goto(r, After(r, "item", Len(keys[r]) > 1, wrote))
        BY <1>3, Zenon DEF InsertEntry
    <2>2. draft'[r] = [draft[r] EXCEPT !.rows = rows] /\ keys'[r] = Tail(keys[r])
        BY <2>1 DEF Arrays
    <2>3. draft'[r].bumps = draft[r].bumps
        BY <1>1, <2>2 DEF Drafts
    <2>4. pc'[r] = After(r, "item", Len(keys[r]) > 1, wrote)
        BY <2>1, GotoDoes
    <2>5. pc'[r] \in {"category", "meta", "commit"}
        BY <1>1, <2>4 DEF After
    <2>6. /\ Len(keys[r]) \in Nat /\ kind[r].size \in Nat
          /\ Len(keys[r]) <= kind[r].size /\ Len(ids[r]) <= kind[r].size
          /\ Len(Tail(keys[r])) = Len(keys[r]) - 1
        BY <1>1, Lengths DEF Paced
    <2>7. /\ Len(keys'[r]) < kind'[r].size /\ Len(keys'[r]) <= kind'[r].size
          /\ Len(ids'[r]) <= kind'[r].size
        <3>1. kind' = kind /\ ids' = ids /\ Len(keys'[r]) = Len(keys[r]) - 1
            BY <2>1, <2>2, <2>6
        <3>2. Len(keys[r]) - 1 < kind[r].size /\ Len(keys[r]) - 1 <= kind[r].size
            BY <2>6
        <3> QED
            BY <2>6, <3>1, <3>2
    <2> QED
        BY <1>1, <2>3, <2>5, <2>7 DEF Paced
<1>4. CASE Rollback(r)
    BY <1>4, RollbackDoes, AnswerIsPaced
<1> QED
    BY <1>2, <1>3, <1>4

LEMMA RowIsPaced ==
    ASSUME StoreInv, StoreInv', NEW r \in Requests, Paced(r), ReadRow(r) \/ WriteStatus(r)
    PROVE  Paced(r)'
<1> USE DEF StoreInv
<1>1. /\ pc[r] \in {"row", "write"} /\ Typed(r) /\ ids[r] # <<>> /\ kind[r].name = "status"
      /\ draft[r] \in Drafts /\ ~draft[r].bumps /\ draft[r].categories = {}
      /\ UNCHANGED <<keys, kind>>
    BY DEF ReadRow, WriteStatus, Runs, Slot, Typed, Working, WithIds, Paced
<1>2. CASE ReadRow(r) /\ Id(r) \in Existing
    <2>1. Goto(r, "write") /\ UNCHANGED <<ids, draft>>
        BY <1>2 DEF ReadRow
    <2>2. pc'[r] = "write"
        BY <2>1, GotoDoes
    <2> QED
        BY <1>1, <2>1, <2>2 DEF Paced
<1>3. CASE ~(ReadRow(r) /\ Id(r) \in Existing)
    <2>1. PICK rows : NextRow(r, rows)
        BY <1>3 DEF ReadRow, WriteStatus
    <2>2. draft' = draft \/ \E rs : draft' = [draft EXCEPT ![r].rows = rs]
        BY <1>3 DEF ReadRow, WriteStatus
    <2>3. draft'[r].bumps = draft[r].bumps /\ draft'[r].categories = draft[r].categories
        BY <1>1, <2>2 DEF Arrays, Drafts
    <2>4. ids'[r] = Tail(ids[r])
        BY <2>1 DEF NextRow, Arrays
    <2>5. pc'[r] = After(r, "item", Len(ids[r]) > 1, DOMAIN rows # {})
        BY <2>1, GotoDoes DEF NextRow
    <2>6. pc'[r] \in {"row", "meta", "commit"}
        BY <1>1, <2>5 DEF After
    <2>7. Len(ids'[r]) < kind'[r].size /\ Len(keys'[r]) <= kind'[r].size
        BY <1>1, <2>4, Lengths DEF Paced
    <2>8. Len(ids'[r]) <= kind'[r].size
        BY <1>1, <2>4, <2>7, Lengths DEF Paced
    <2> QED
        BY <1>1, <2>3, <2>6, <2>7, <2>8 DEF Paced
<1> QED
    BY <1>2, <1>3

LEMMA PacedStep == PacedInv /\ [Next]_vars => PacedInv'
<1> SUFFICES ASSUME PacedInv, [Next]_vars PROVE PacedInv'
    OBVIOUS
<1>1. StoreInv /\ StoreInv' /\ Locked' /\ \A r \in Requests : Paced(r)
    BY StoreStep, LockedStep DEF PacedInv
<1>2. CASE Next
    <2>1. PICK r \in Requests : Begins(r) \/ Continue(r)
        BY <1>2 DEF Next
    <2>2. \A q \in Requests \ {r} : Paced(q)'
        BY <1>1, <2>1, OthersAreUntouched DEF Untouched, Paced
    <2>3. SUFFICES Paced(r)'
        <3>1. \A q \in Requests : q = r \/ q \in Requests \ {r}
            OBVIOUS
        <3> QED
            BY <1>1, <2>2, <3>1 DEF PacedInv
    <2>4. CASE Begins(r)
        BY <1>1, <2>4, BeginIsPaced
    <2>5. CASE \/ CheckCategory(r) \/ LockEntry(r) \/ UpdateEntry(r) \/ DeleteEntries(r)
               \/ Bump(r) \/ BumpLost(r) \/ CreateCategory(r) \/ CheckExisting(r) \/ DropCategory(r)
        BY <1>1, <2>5, StatementIsPaced
    <2>6. CASE InsertCategory(r) \/ InsertEntry(r)
        BY <1>1, <2>6, InsertIsPaced
    <2>7. CASE ReadRow(r) \/ WriteStatus(r)
        BY <1>1, <2>7, RowIsPaced
    <2>8. CASE Commit(r) \/ TransactionFails(r)
        BY <1>1, <2>8, RollbackDoes, AnswerIsPaced DEF Commit, TransactionFails, StoreInv
    <2>9. CASE BumpInTransaction(r)
        <3>1. Goto(r, "commit") /\ UNCHANGED <<keys, ids, kind>>
            BY <2>9, AfterValues DEF BumpInTransaction, plan
        <3>2. pc'[r] = "commit"
            BY <1>1, <3>1, GotoDoes DEF StoreInv
        <3> QED
            BY <1>1, <3>1, <3>2 DEF Paced
    <2> QED
        BY <2>1, <2>4, <2>5, <2>6, <2>7, <2>8, <2>9 DEF Continue
<1>3. CASE UNCHANGED vars
    BY <1>1, <1>3 DEF vars, plan, PacedInv, Paced
<1> QED
    BY <1>2, <1>3

LEMMA PacedInit == Init => PacedInv
<1> SUFFICES ASSUME Init PROVE PacedInv
    OBVIOUS
<1>1. \A r \in Requests : /\ keys[r] = <<>> /\ ids[r] = <<>> /\ kind[r].size = 0
                          /\ draft[r] = NoDraft
    BY DEF Init, NoKind
<1>2. Len(<<>>) <= 0
    OBVIOUS
<1>3. Locked
    BY DEF Init, Locked
<1> QED
    BY <1>1, <1>2, <1>3, StoreInit, NoDraftIsADraft DEF PacedInv, Paced

(* In a circle of requests of one item nobody is before, and nobody is     *)
(* past, the row of lexicon_meta; hence rows are held by updates only, and *)
(* when there are none, there are no categories either.                    *)
LEMMA SinglesOnlyTrade == PacedInv => DeadlocksNeedABulkOrATrade
<1> SUFFICES ASSUME PacedInv, NEW S \in SUBSET Requests, Deadlocked(S),
                    \A r \in S : ~(kind[r].size > 1),
                    ~\E T \in SUBSET S \ {{}} :
                        \A r \in T : /\ pc[r] = "key"
                                     /\ \E q \in T \ {r} : entries[Id(q)].key = Key(r)
             PROVE  FALSE
    BY DEF DeadlocksNeedABulkOrATrade
<1>1. ASSUME NEW r \in S
      PROVE  WaitsFor(r) \intersect S # {} /\ pc[r] # "commit" /\ r \in Requests
    BY DEF Deadlocked, WaitsFor
<1>2. ASSUME NEW r \in S
      PROVE  /\ Paced(r) /\ Typed(r) /\ Working(r) /\ ~draft[r].bumps
             /\ kind[r].size \in Nat /\ kind[r].size <= 1
    <2>1. Paced(r) /\ Typed(r) /\ Working(r) /\ kind[r].size \in Nat
        BY Lengths DEF PacedInv, StoreInv, Slot
    <2> QED
        BY <1>1, <2>1 DEF Paced
<1>3. ASSUME NEW r \in S
      PROVE  pc[r] \notin {"meta", "bump"}
    BY <1>1, <1>2 DEF WaitsFor, MetaHolders
<1>4. ASSUME NEW r \in S
      PROVE  /\ pc[r] \in {"category", "entry"} => ~(Len(keys[r]) < kind[r].size)
             /\ pc[r] \in {"row", "write"} => ~(Len(ids[r]) < kind[r].size)
    <2>1. /\ pc[r] \in {"category", "entry"} => Len(keys[r]) > 0
          /\ pc[r] \in {"row", "write"} => Len(ids[r]) > 0
          /\ Len(keys[r]) \in Nat /\ Len(ids[r]) \in Nat
        BY <1>1, <1>2, Lengths DEF Working, WithKeys, WithIds
    <2> QED
        BY <1>2, <2>1
<1>5. ASSUME NEW r \in S, pc[r] # "key"
      PROVE  DOMAIN draft[r].rows = {}
    BY <1>1, <1>2, <1>3, <1>4, <1>5, NoDraftIsADraft DEF Working, InTransaction, Paced
<1>6. ASSUME NEW r \in S
      PROVE  pc[r] # "key"
    <2> DEFINE T == {q \in S : pc[q] = "key"}
    <2>1. ASSUME NEW t \in T
          PROVE  \E q \in T \ {t} : entries[Id(q)].key = Key(t)
        <3>1. PICK q \in S \ {t} : \E i \in DOMAIN draft[q].rows : draft[q].rows[i].key = Key(t)
            BY <1>1 DEF WaitsFor, KeyRivals, Others
        <3>2. pc[q] = "key" /\ q \in Requests
            BY <1>1, <1>5, <3>1
        <3>3. /\ Id(q) \in Existing /\ Id(q) \in DOMAIN draft[q].rows
              /\ draft[q].rows[Id(q)].key = Key(t)
            BY <3>1, <3>2 DEF PacedInv, Locked
        <3>4. draft[q].rows[Id(q)].key = entries[Id(q)].key
            BY <3>2, <3>3 DEF PacedInv, StoreInv, Slot, Holding
        <3> QED
            BY <3>2, <3>3, <3>4
    <2>2. T = {}
        BY <2>1
    <2> QED
        BY <2>2
<1>7. ASSUME NEW r \in S
      PROVE  pc[r] \notin {"entry", "write", "update", "delete"}
    <2>1. \A i : RowHolders(r, i) \intersect S = {}
        BY <1>5, <1>6 DEF RowHolders
    <2>2. KeyRivals(r, Key(r)) \intersect S = {}
        BY <1>5, <1>6 DEF KeyRivals
    <2> QED
        BY <1>1, <2>1, <2>2 DEF WaitsFor
<1>8. ASSUME NEW r \in S
      PROVE  draft[r].categories = {}
    BY <1>1, <1>2, <1>3, <1>4, <1>6, <1>7, NoDraftIsADraft DEF Working, InTransaction, Paced
<1>9. ASSUME NEW r \in S
      PROVE  pc[r] \notin {"category", "create"}
    BY <1>1, <1>8 DEF WaitsFor, CategoryRivals
<1>10. \A r \in S : WaitsFor(r) = {}
    BY <1>3, <1>6, <1>7, <1>9 DEF WaitsFor
<1> QED
    BY <1>1, <1>10 DEF Deadlocked

(* Whatever requests run together and wherever they stop, every variable   *)
(* keeps its type, no two entries have the same category and word, and no  *)
(* two transactions have written the same row.                             *)
THEOREM SpecTypeOK == Spec => []TypeOK
<1>1. PacedInv => TypeOK
    BY InvIsTypeOK DEF PacedInv
<1> QED
    BY <1>1, PacedInit, PacedStep, PTL DEF Spec

(* The version stands for the entries: they differ from those of the last  *)
(* bump only while updateEntry or deleteEntries is between its change and  *)
(* its bump, or when such a bump was lost.                                 *)
THEOREM SpecVersionCountsChanges == Spec => []VersionCountsChanges
<1>1. PacedInv => VersionCountsChanges
    BY DEF PacedInv, StoreInv
<1> QED
    BY <1>1, PacedInit, PacedStep, PTL DEF Spec

(* An entry whose category is not in the table is that of a category that  *)
(* was dropped while a request was putting it to use: the transactions of  *)
(* the service insert the category of every entry they insert.             *)
THEOREM SpecOrphansAreARace == Spec => []OrphansAreARace
<1>1. PacedInv => OrphansAreARace
    BY DEF PacedInv, StoreInv
<1> QED
    BY <1>1, PacedInit, PacedStep, PTL DEF Spec

(* For any number of requests: transactions that wait for each other in a  *)
(* circle include a request of several items, or updates that trade keys,  *)
(* because addEntry, syncRow and deleteEntries of one entry take category, *)
(* row and lexicon_meta in this order, one of each; only updateEntry holds *)
(* an entry's row while it waits for the key of another.                   *)
THEOREM SpecDeadlocksNeedABulkOrATrade == Spec => []DeadlocksNeedABulkOrATrade
<1> QED
    BY PacedInit, PacedStep, SinglesOnlyTrade, PTL DEF Spec
=============================================================================
