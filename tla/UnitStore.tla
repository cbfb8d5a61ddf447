----------------------------- MODULE UnitStore -----------------------------
(***************************************************************************)
(* The assignments service over Postgres: units with a number, a count and *)
(* their subunits (assignments-service/src/postgres_repository.ts).        *)
(* createUnit and updateAssignment are transactions of several statements  *)
(* at READ COMMITTED; a list reads units and subunits in two statements; a *)
(* bulk delete looks first and deletes afterwards.  Requests of any number *)
(* of users run at the same time.                                          *)
(*                                                                         *)
(* Of Postgres the model has what these statements rely on: a statement    *)
(* sees what is committed and what its own transaction wrote; a row that   *)
(* is updated stays locked until the transaction ends; a second insert of  *)
(* a unique unit_number waits for the first transaction and fails if it    *)
(* commits; the rows of unit_subunits need their unit and go with it;      *)
(* SERIAL numbers are never given twice.                                   *)
(***************************************************************************)
EXTENDS Integers, Sequences, FiniteSets

CONSTANTS
    Requests,     \* HTTP requests, each handled once
    MaxId,        \* bound on the ids the sequence gives
    MaxStored,    \* bound on the units there are at the start
    MaxLength,    \* bound on the subunits of one request
    None          \* no unit, nobody

ASSUME BoundsAssumption ==
    MaxId \in Nat /\ MaxStored \in 0..MaxId /\ MaxLength \in Nat \ {0}

Ids == 1..MaxId

Subunits == [number : Nat, by : Requests \union {None}]

Unit == [number : Nat, count : Nat, subunits : Seq(Subunits)]

ASSUME NoneAssumption == None \notin Requests \union Unit

VARIABLES
    units,     \* committed: the unit of each id with its subunits, or None
    lastId,    \* the sequence behind units.id
    lock,      \* the transaction that holds the row of each unit
    pc,        \* the next statement of each request
    target,    \* the id a transaction works on
    bulk,      \* the ids a bulk delete was given, and those it found
    length,    \* how many subunits it was asked to store
    number,    \* the unit number it works with
    draft,     \* its uncommitted version of the unit, or None
    seen,      \* the rows of units a list has read
    reply,     \* the answer of each request
    since,     \* history: the units there were when a create chose its number
    raced      \* history: units that changed between two statements of a list

txVars == <<lock, target, length, number, draft, since>>
vars == <<units, lastId, txVars, bulk, pc, seen, reply, raced>>

InTransaction == {"insert", "update", "clear", "subunits"}

NoReply == [status |-> "none"]

Subunit(n, by) == [number |-> n, by |-> by]

(* Units that were there before: whole, numbered as their ids. *)
Stored(i) == [number |-> i, count |-> 1, subunits |-> <<Subunit(i, None)>>]

Existing == {i \in Ids : units[i] # None}

Init ==
    /\ lastId \in 0..MaxStored
    /\ units = [i \in Ids |-> IF i <= lastId THEN Stored(i) ELSE None]
    /\ lock = [i \in Ids |-> None]
    /\ pc = [r \in Requests |-> "new"]
    /\ target = [r \in Requests |-> 0]
    /\ bulk = [r \in Requests |-> [asked |-> {}, found |-> {}]]
    /\ length = [r \in Requests |-> 0]
    /\ number = [r \in Requests |-> 0]
    /\ draft = [r \in Requests |-> None]
    /\ seen = [r \in Requests |-> {}]
    /\ reply = [r \in Requests |-> NoReply]
    /\ since = [r \in Requests |-> {}]
    /\ raced = [r \in Requests |-> {}]

Goto(r, next) == pc' = [pc EXCEPT ![r] = next]

Answer(r, answer) == Goto(r, "answered") /\ reply' = [reply EXCEPT ![r] = answer]

(* A committed change of the units in S; lists under way are told apart.   *)
Changed(S) == raced' = [r \in Requests |-> IF pc[r] = "attach" THEN raced[r] \union S
                                           ELSE raced[r]]

Released(r) == [i \in Ids |-> IF lock[i] = r THEN None ELSE lock[i]]

(* COMMIT or ROLLBACK: locks and uncommitted rows are gone. *)
TransactionOver(r) ==
    /\ lock' = Released(r)
    /\ draft' = [draft EXCEPT ![r] = None]

Rollback(r, why) ==
    /\ TransactionOver(r)
    /\ Answer(r, [status |-> why])
    /\ UNCHANGED <<units, target, length, number, since, bulk, seen, raced>>

-----------------------------------------------------------------------------
(* createUnit                                                              *)

Numbers == {units[i].number : i \in Existing}

(* Mutation: the number of units plus one. *)
CountPlusOne == Cardinality(Existing) + 1

(* COALESCE(MAX(unit_number), 0) + 1 over the committed units. *)
NextUnitNumber == IF Numbers = {} THEN 1
                  ELSE 1 + CHOOSE n \in Numbers : \A m \in Numbers : m <= n

CreateBegins(r) ==
    /\ pc[r] = "new"
    /\ \E n \in 1..MaxLength : length' = [length EXCEPT ![r] = n]
    /\ number' = [number EXCEPT ![r] = NextUnitNumber]
    /\ since' = [since EXCEPT ![r] = Existing]
    /\ Goto(r, "insert")
    /\ UNCHANGED <<units, lastId, lock, target, draft, bulk, seen, reply, raced>>

(* Another transaction has inserted a unit of this number and is not over. *)
NumberPending(r) ==
    \E q \in Requests \ {r} :
        pc[q] = "subunits" /\ target[q] \notin Existing
          /\ draft[q] # None /\ number[q] = number[r]

(* Mutation: the smallest id that is free. *)
SmallestFreeId == CHOOSE i \in Ids : i \notin Existing
                                     /\ \A j \in Ids \ Existing : i <= j

NextId == lastId + 1

(* Mutation: subunit_count left to its default. *)
DefaultCount(r) == 0

InsertedCount(r) == length[r]

(* The sequence moves even when the insert fails. *)
InsertUnit(r) ==
    /\ pc[r] = "insert"
    /\ lastId < MaxId
    /\ ~NumberPending(r)
    /\ lastId' = lastId + 1
    /\ IF number[r] \in Numbers
       THEN Rollback(r, "conflict")
       ELSE /\ target' = [target EXCEPT ![r] = NextId]
            /\ draft' = [draft EXCEPT ![r] = [number |-> number[r], subunits |-> <<>>,
                                              count |-> InsertedCount(r)]]
            /\ Goto(r, "subunits")
            /\ UNCHANGED <<units, lock, length, number, since, bulk, seen, reply,
                           raced>>

-----------------------------------------------------------------------------
(* updateAssignment                                                        *)

UpdateBegins(r) ==
    /\ pc[r] = "new"
    /\ \E i \in Ids, n \in 1..MaxLength :
         /\ i <= lastId
         /\ target' = [target EXCEPT ![r] = i]
         /\ length' = [length EXCEPT ![r] = n]
         /\ IF i \in Existing
            THEN /\ number' = [number EXCEPT ![r] = units[i].number]
                 /\ Goto(r, "update")
                 /\ UNCHANGED reply
            ELSE /\ Answer(r, [status |-> "not_found"])
                 /\ UNCHANGED number
    /\ UNCHANGED <<units, lastId, lock, draft, since, bulk, seen, raced>>

(* Mutation: UPDATE units SET updated_at only. *)
KeptCount(r) == units[target[r]].count

UpdatedCount(r) == length[r]

(* The row is locked from here on.  A unit that was deleted meanwhile      *)
(* matches no row, which the code does not look at.                        *)
UpdateUnit(r) ==
    LET i == target[r] IN
    /\ pc[r] = "update"
    /\ lock[i] = None
    /\ IF i \in Existing
       THEN /\ lock' = [lock EXCEPT ![i] = r]
            /\ draft' = [draft EXCEPT ![r] = [units[i] EXCEPT !.count = UpdatedCount(r)]]
       ELSE UNCHANGED <<lock, draft>>
    /\ Goto(r, "clear")
    /\ UNCHANGED <<units, lastId, target, length, number, since, bulk, seen, reply,
                   raced>>

ClearSubunits(r) ==
    /\ pc[r] = "clear"
    /\ draft' = IF draft[r] = None THEN draft
                ELSE [draft EXCEPT ![r].subunits = <<>>]
    /\ Goto(r, "subunits")
    /\ UNCHANGED <<units, lastId, lock, target, length, number, since, bulk, seen,
                   reply, raced>>

-----------------------------------------------------------------------------
(* Both: insertSubunits, getAssignmentById on the same client, COMMIT.     *)

InsertSubunit(r) ==
    /\ pc[r] = "subunits"
    /\ draft[r] # None
    /\ Len(draft[r].subunits) < length[r]
    /\ draft' = [draft EXCEPT ![r].subunits = Append(@, Subunit(number[r], r))]
    /\ UNCHANGED <<units, lastId, lock, target, length, number, since, bulk, pc, seen,
                   reply, raced>>

(* unit_subunits.unit_id references a unit that is gone. *)
InsertSubunitOrphaned(r) ==
    /\ pc[r] = "subunits"
    /\ draft[r] = None
    /\ Rollback(r, "failed")
    /\ UNCHANGED lastId

(* Mutation: getAssignmentById without the client. *)
ReadThroughPool(r) == units[target[r]]

ReadThroughClient(r) == draft[r]

Commit(r) ==
    /\ pc[r] = "subunits"
    /\ draft[r] # None
    /\ Len(draft[r].subunits) = length[r]
    /\ units' = [units EXCEPT ![target[r]] = draft[r]]
    /\ Answer(r, [status |-> "stored", unit |-> ReadThroughClient(r)])
    /\ TransactionOver(r)
    /\ Changed({target[r]})
    /\ UNCHANGED <<lastId, target, length, number, since, bulk, seen>>

(* A statement fails, or the service dies, in the middle. *)
TransactionFails(r) ==
    /\ pc[r] \in InTransaction
    /\ Rollback(r, "failed")
    /\ UNCHANGED lastId

-----------------------------------------------------------------------------
(* deleteAssignment and bulkDelete                                         *)

Deleted(S) == [i \in Ids |-> IF i \in S THEN None ELSE units[i]]

Unlocked(S) == \A i \in S : lock[i] = None

Delete(r) ==
    /\ pc[r] = "new"
    /\ \E i \in 1..lastId :
         /\ Unlocked({i})
         /\ units' = Deleted({i})
         /\ Changed({i})
         /\ Answer(r, [status |-> "deleted", deleted |-> {i} \intersect Existing])
    /\ UNCHANGED <<lastId, txVars, bulk, seen>>

(* SELECT id: what is there is what will be reported as deleted. *)
BulkLooks(r) ==
    /\ pc[r] = "new"
    /\ \E S \in SUBSET (1..lastId) :
         /\ Cardinality(S) >= 2
         /\ bulk' = [bulk EXCEPT ![r] = [asked |-> S, found |-> S \intersect Existing]]
         /\ IF S \intersect Existing = {}
            THEN Answer(r, [status |-> "deleted", deleted |-> {}])
            ELSE Goto(r, "bulk") /\ UNCHANGED reply
    /\ UNCHANGED <<units, lastId, txVars, seen, raced>>

(* DELETE ... = ANY(ids); it waits for the rows that are locked. *)
BulkDeletes(r) ==
    /\ pc[r] = "bulk"
    /\ Unlocked(bulk[r].asked)
    /\ units' = Deleted(bulk[r].asked)
    /\ Changed(bulk[r].asked)
    /\ Answer(r, [status |-> "deleted", deleted |-> bulk[r].found])
    /\ UNCHANGED <<lastId, txVars, bulk, seen>>

-----------------------------------------------------------------------------
(* listAssignments, getAssignmentById, exportSnapshot                      *)

ListUnits(r) ==
    /\ pc[r] = "new"
    /\ seen' = [seen EXCEPT ![r] = {[id |-> i, number |-> units[i].number,
                                     count |-> units[i].count] : i \in Existing}]
    /\ Goto(r, "attach")
    /\ UNCHANGED <<units, lastId, txVars, bulk, reply, raced>>

SubunitsOf(i) == IF i \in Existing THEN units[i].subunits ELSE <<>>

AttachSubunits(r) ==
    /\ pc[r] = "attach"
    /\ Answer(r, [status |-> "listed",
                  rows |-> {[unit |-> u, subunits |-> SubunitsOf(u.id)] : u \in seen[r]}])
    /\ UNCHANGED <<units, lastId, txVars, bulk, seen, raced>>

-----------------------------------------------------------------------------
Continue(r) ==
    \/ InsertUnit(r) \/ UpdateUnit(r) \/ ClearSubunits(r)
    \/ InsertSubunit(r) \/ InsertSubunitOrphaned(r) \/ Commit(r) \/ TransactionFails(r)
    \/ BulkDeletes(r) \/ AttachSubunits(r)

Next ==
    \E r \in Requests :
        \/ CreateBegins(r) \/ UpdateBegins(r) \/ Delete(r) \/ BulkLooks(r) \/ ListUnits(r)
        \/ Continue(r)

Spec == Init /\ [][Next]_vars

-----------------------------------------------------------------------------
(* Properties                                                              *)

(* Every variable has its type; a transaction that works on an existing    *)
(* row holds its lock, and nobody holds a lock outside a transaction.      *)
TypeOK ==
    /\ units \in [Ids -> Unit \union {None}]
    /\ lastId \in 0..MaxId
    /\ lock \in [Ids -> Requests \union {None}]
    /\ pc \in [Requests -> InTransaction \union {"new", "bulk", "attach", "answered"}]
    /\ draft \in [Requests -> Unit \union {None}]
    /\ \A r \in Requests :
         /\ (draft[r] # None /\ target[r] \in Existing) => lock[target[r]] = r
         /\ \A i \in Ids : lock[i] = r => pc[r] \in {"clear", "subunits"} /\ target[r] = i

Whole(u) ==
    /\ u.count = Len(u.subunits)
    /\ \A k \in DOMAIN u.subunits :
         /\ u.subunits[k].number = u.number
         /\ u.subunits[k].by = u.subunits[1].by

(* A committed unit is what one request stored: its count is the number of *)
(* its subunits, all of them are of one request and carry the number of    *)
(* the unit in their codes, whatever updates and deletes ran together.     *)
UnitsAreWhole == \A i \in Existing : Whole(units[i])

(* The answer to a create or update is what that request stored, never a   *)
(* concurrent request's version or the one before.                         *)
ReplyIsOwnWrite ==
    \A r \in Requests :
        reply[r].status = "stored" =>
            LET u == reply[r].unit
            IN  /\ u # None /\ Whole(u) /\ u.count = length[r]
                /\ u.subunits[1].by = r

(* A list shows a unit whose count and subunits do not belong together     *)
(* only if that unit was stored or deleted between its two statements.     *)
TornListIsARace ==
    \A r \in Requests :
        reply[r].status = "listed" =>
            \A row \in reply[r].rows :
                row.unit.id \in raced[r]
                  \/ Whole([number |-> row.unit.number, count |-> row.unit.count,
                            subunits |-> row.subunits])

(* What a delete reports as deleted is gone for good: no update that was   *)
(* under way brings it back and no new unit takes its id.                  *)
DeletedStaysDeleted ==
    \A r \in Requests :
        reply[r].status = "deleted" => reply[r].deleted \intersect Existing = {}

(* Of creates that run together some may fail on the unique number, but    *)
(* only against a unit that was committed after they chose it: a create    *)
(* that runs alone succeeds whatever was deleted before.                   *)
ConflictMeansARival ==
    [][\A r \in Requests :
         (reply[r].status = "none" /\ reply'[r].status = "conflict") =>
            \E i \in Existing : units[i].number = number[r] /\ i \notin since[r]]_vars
=============================================================================
