-------------------------- MODULE UnitStoreProofs --------------------------
(***************************************************************************)
(* Proofs about UnitStore, for any number of requests, ids and subunits.   *)
(* The invariant says what a transaction under way may rely on: the unit   *)
(* it updates is locked and keeps its number, the unit it creates has an   *)
(* id that nobody else has seen, and its draft holds only its own rows.    *)
(***************************************************************************)
EXTENDS UnitStore, FiniteSetTheorems, WellFoundedInduction, TLAPS

(* The committed units. *)
StoreInv ==
    /\ lastId \in 0..MaxId
    /\ units \in [Ids -> Unit \union {None}]
    /\ \A i \in Existing : i <= lastId /\ units[i] \in Unit /\ Whole(units[i])

(* The transaction variables have their types. *)
TxTypes ==
    /\ lock \in [Ids -> Requests \union {None}]
    /\ pc \in [Requests -> InTransaction \union {"new", "bulk", "attach", "answered"}]
    /\ target \in [Requests -> Nat]
    /\ length \in [Requests -> Nat]
    /\ number \in [Requests -> Nat]
    /\ draft \in [Requests -> Unit \union {None}]
    /\ seen = [r \in Requests |-> seen[r]]
    /\ reply = [r \in Requests |-> reply[r]]
    /\ raced = [r \in Requests |-> raced[r]]
    /\ bulk \in [Requests -> [asked : SUBSET Nat, found : SUBSET Nat]]
    /\ since = [r \in Requests |-> since[r]]

(* A transaction that creates the unit it works on. *)
Fresh(r) == draft[r] # None /\ lock[target[r]] # r

(* A draft is the work of its own transaction. *)
DraftOK(r) ==
    draft[r] # None =>
        /\ draft[r] \in Unit
        /\ pc[r] \in {"clear", "subunits"}
        /\ target[r] \in Ids /\ target[r] <= lastId
        /\ draft[r].number = number[r]
        /\ draft[r].count = length[r]
        /\ length[r] # 0
        /\ pc[r] = "subunits" =>
             \A k \in DOMAIN draft[r].subunits : draft[r].subunits[k] = Subunit(number[r], r)

(* An update that waits for its row will find the number it has read. *)
UpdateOK(r) ==
    pc[r] = "update" =>
        /\ target[r] \in Ids /\ target[r] <= lastId
        /\ length[r] # 0
        /\ target[r] \in Existing => units[target[r]].number = number[r]

(* A lock is held by the update that works on that row. *)
LockOK(i) ==
    lock[i] # None =>
        /\ draft[lock[i]] # None
        /\ target[lock[i]] = i
        /\ i \in Existing
        /\ units[i].number = number[lock[i]]

(* What a bulk delete is going to report. *)
BulkOK(r) == pc[r] = "bulk" => bulk[r].found \subseteq bulk[r].asked \intersect 1..lastId

(* What is promised by an answer. *)
ReplyOK(r) ==
    /\ reply[r].status = "stored" =>
         LET u == reply[r].unit
         IN  /\ pc[r] = "answered"
             /\ u # None /\ Whole(u) /\ u.count = length[r]
             /\ u.subunits[1].by = r
    /\ reply[r].status = "deleted" =>
         /\ reply[r].deleted \subseteq 1..lastId
         /\ reply[r].deleted \intersect Existing = {}

(* The id of a new unit is new to everybody. *)
FreshOK(q) ==
    Fresh(q) =>
        /\ target[q] \notin Existing
        /\ \A r \in Requests \ {q} :
             (pc[r] = "update" \/ draft[r] # None) => target[r] # target[q]
        /\ \A r \in Requests :
             /\ pc[r] = "insert" => target[q] \notin since[r]
             /\ pc[r] = "bulk" => target[q] \notin bulk[r].found
             /\ reply[r].status = "deleted" => target[q] \notin reply[r].deleted

(* A create has chosen a number that none of the units it saw has. *)
ChoiceOK(r) ==
    pc[r] = "insert" =>
        /\ length[r] # 0
        /\ \A i \in since[r] \intersect Existing : units[i].number # number[r]
        /\ since[r] \subseteq 1..lastId

UnitInv ==
    /\ StoreInv
    /\ TxTypes
    /\ \A i \in Ids : LockOK(i)
    /\ \A r \in Requests : /\ DraftOK(r) /\ UpdateOK(r) /\ BulkOK(r) /\ ReplyOK(r)
                           /\ FreshOK(r) /\ ChoiceOK(r)

-----------------------------------------------------------------------------
(* Numbers of units                                                        *)

(* A non-empty finite set of naturals has a greatest element: the MAX of   *)
(* getNextUnitNumber is defined.                                           *)
LEMMA FiniteMax ==
    ASSUME NEW S, S \subseteq Nat, IsFiniteSet(S), S # {}
    PROVE  \E n \in S : \A m \in S : m <= n
<1> DEFINE HasMax(T) == \E n \in T : \A m \in T : m <= n
           Bad == {T \in SUBSET S : T # {} /\ ~HasMax(T)}
<1>1. SUFFICES ASSUME Bad # {} PROVE FALSE
    OBVIOUS
<1>2. Bad \subseteq FiniteSubsetsOf(S)
    BY FS_Subset DEF FiniteSubsetsOf
<1>3. PICK T \in Bad : \A U \in Bad : <<U, T>> \notin StrictSubsetOrdering(S)
    <2> HIDE DEF Bad
    <2> QED
        BY <1>1, <1>2, FS_StrictSubsetOrderingWellFounded, WFMin
<1>4. PICK x \in T : TRUE
    OBVIOUS
<1>5. T \ {x} # {}
    <2> SUFFICES ASSUME T = {x} PROVE HasMax(T)
        BY <1>4
    <2> QED
        BY <1>4, x \in Nat
<1>6. T \ {x} \notin Bad
    BY <1>3, <1>4 DEF StrictSubsetOrdering
<1>7. PICK n \in T \ {x} : \A m \in T \ {x} : m <= n
    BY <1>5, <1>6
<1>8. HasMax(T)
    <2>1. \A m \in T : m \in Nat
        OBVIOUS
    <2>2. CASE x <= n
        BY <1>7, <2>1, <2>2
    <2>3. CASE n <= x
        BY <1>4, <1>7, <2>1, <2>3
    <2> QED
        BY <1>4, <2>1, <2>2, <2>3
<1> QED
    BY <1>3, <1>8

(* The number a create takes is a number, and greater than every other. *)
LEMMA NextNumber ==
    ASSUME StoreInv
    PROVE  NextUnitNumber \in Nat /\ \A i \in Existing : units[i].number < NextUnitNumber
<1>1. Numbers \subseteq Nat
    BY DEF StoreInv, Numbers, Unit
<1>2. CASE Numbers = {}
    BY <1>2 DEF NextUnitNumber, Numbers
<1>3. CASE Numbers # {}
    <2>1. IsFiniteSet(Ids)
        BY BoundsAssumption, FS_Interval DEF Ids
    <2>2. IsFiniteSet(Existing)
        BY <2>1, FS_Subset DEF Existing
    <2>3. IsFiniteSet(Numbers)
        <3> DEFINE f == [i \in Existing |-> units[i].number]
        <3>1. f \in Surjection(Existing, Numbers)
            BY DEF Surjection, Numbers
        <3> HIDE DEF f
        <3> QED
            BY <2>2, <3>1, FS_Surjection
    <2> DEFINE max == CHOOSE n \in Numbers : \A m \in Numbers : m <= n
    <2>4. max \in Numbers /\ \A m \in Numbers : m <= max
        BY <1>1, <1>3, <2>3, FiniteMax
    <2>5. NextUnitNumber = 1 + max
        BY <1>3 DEF NextUnitNumber
    <2> HIDE DEF max
    <2>6. max \in Nat
        BY <1>1, <2>4
    <2>7. \A m \in Numbers : m < 1 + max
        <3> SUFFICES ASSUME NEW m \in Numbers PROVE m < 1 + max
            OBVIOUS
        <3>1. m \in Nat /\ m <= max
            BY <1>1, <2>4
        <3> QED
            BY <2>6, <3>1
    <2>8. \A i \in Existing : units[i].number \in Numbers
        BY DEF Numbers
    <2> QED
        BY <2>5, <2>6, <2>7, <2>8
<1> QED
    BY <1>2, <1>3
-----------------------------------------------------------------------------
(* The invariant, action by action                                         *)

(* The units of the initial store are whole.                               *)
LEMMA StoredWhole ==
    ASSUME NEW i \in Ids
    PROVE  Stored(i) \in Unit /\ Whole(Stored(i))
BY NoneAssumption DEF Stored, Subunit, Unit, Subunits, Whole, Ids

(* The service starts with whole units, no transaction and no answer.      *)
LEMMA UnitInit == Init => UnitInv
<1> SUFFICES ASSUME Init PROVE UnitInv
    OBVIOUS
<1>1. StoreInv
    <2>1. lastId \in 0..MaxId
        BY BoundsAssumption DEF Init
    <2>2. \A i \in Ids : units[i] = IF i <= lastId THEN Stored(i) ELSE None
        BY DEF Init
    <2>3. units \in [Ids -> Unit \union {None}]
        BY StoredWhole DEF Init
    <2> QED
        BY <2>1, <2>2, <2>3, StoredWhole, NoneAssumption DEF StoreInv, Existing, Ids
<1>2. TxTypes
    BY DEF Init, TxTypes
<1>3. \A i \in Ids : LockOK(i)
    BY DEF Init, LockOK
<1>4. ASSUME NEW r \in Requests
      PROVE  /\ DraftOK(r) /\ UpdateOK(r) /\ BulkOK(r) /\ ReplyOK(r)
             /\ FreshOK(r) /\ ChoiceOK(r)
    BY <1>4 DEF Init, DraftOK, UpdateOK, BulkOK, ReplyOK, FreshOK, ChoiceOK, Fresh, NoReply
<1> QED
    BY <1>1, <1>2, <1>3, <1>4 DEF UnitInv

(* The end of a transaction that stores nothing. *)
LEMMA RollbackKeepsInv ==
    ASSUME UnitInv, NEW r \in Requests, NEW why, why \notin {"stored", "deleted"},
           Rollback(r, why), lastId' \in lastId..MaxId
    PROVE  UnitInv'
<1> USE DEF Rollback, TransactionOver, Answer, Goto, Released
<1>1. StoreInv'
    <2>1. Existing' = Existing
        BY DEF Existing
    <2>2. \A i \in Existing : i \in Nat
        BY DEF Existing, Ids
    <2> QED
        BY <2>1, <2>2, BoundsAssumption DEF UnitInv, StoreInv
<1>2. TxTypes'
    BY DEF UnitInv, TxTypes
<1>3. ASSUME NEW i \in Ids PROVE LockOK(i)'
    BY <1>3, NoneAssumption DEF UnitInv, StoreInv, TxTypes, LockOK, Existing
<1>4. ASSUME NEW q \in Requests PROVE DraftOK(q)'
    BY <1>4, BoundsAssumption DEF UnitInv, StoreInv, TxTypes, DraftOK, InTransaction, Ids
<1>5. ASSUME NEW q \in Requests PROVE UpdateOK(q)'
    BY <1>5, BoundsAssumption DEF UnitInv, StoreInv, TxTypes, UpdateOK, Existing, Ids
<1>6. ASSUME NEW q \in Requests PROVE BulkOK(q)'
    BY <1>6, BoundsAssumption DEF UnitInv, StoreInv, TxTypes, BulkOK
<1>7. ASSUME NEW q \in Requests PROVE ReplyOK(q)'
    <2>1. CASE q = r
        <3>1. reply'[q].status = why
            BY <2>1 DEF UnitInv, TxTypes
        <3> QED
            BY <3>1 DEF ReplyOK
    <2>2. CASE q # r
        <3>1. reply'[q] = reply[q] /\ pc'[q] = pc[q] /\ UNCHANGED length
            BY <2>2 DEF UnitInv, TxTypes
        <3>2. Existing' = Existing
            BY DEF Existing
        <3>3. 1..lastId \subseteq 1..lastId'
            BY BoundsAssumption DEF UnitInv, StoreInv
        <3>4. ReplyOK(q) /\ Whole(reply[q].unit) = Whole(reply'[q].unit)
            BY <3>1 DEF UnitInv
        <3> QED
            BY <3>1, <3>2, <3>3, <3>4 DEF ReplyOK
    <2> QED
        BY <2>1, <2>2
<1>8. ASSUME NEW q \in Requests PROVE FreshOK(q)'
    <2>1. Fresh(q)' => Fresh(q)
        BY <1>8 DEF UnitInv, TxTypes, Fresh, DraftOK, Ids
    <2> QED
        BY <1>8, <2>1 DEF UnitInv, TxTypes, FreshOK, Existing
<1>9. ASSUME NEW q \in Requests PROVE ChoiceOK(q)'
    BY <1>9, BoundsAssumption DEF UnitInv, StoreInv, TxTypes, ChoiceOK, Existing
<1> QED
    BY <1>1, <1>2, <1>3, <1>4, <1>5, <1>6, <1>7, <1>8, <1>9 DEF UnitInv

(* A create chooses a number that none of the units it sees has.           *)
LEMMA CreateBeginsKeepsInv ==
    ASSUME UnitInv, NEW r \in Requests, CreateBegins(r)
    PROVE  UnitInv'
<1> USE DEF CreateBegins, Goto
<1>0. PICK n \in 1..MaxLength : length' = [length EXCEPT ![r] = n]
    OBVIOUS
<1>1. NextUnitNumber \in Nat /\ \A i \in Existing : units[i].number < NextUnitNumber
    BY NextNumber DEF UnitInv
<1>2. StoreInv'
    BY DEF UnitInv, StoreInv, Existing
<1>3. TxTypes'
    <2>1. n \in Nat
        BY <1>0, BoundsAssumption
    <2> QED
        BY <1>0, <1>1, <2>1 DEF UnitInv, TxTypes, InTransaction
<1>4. ASSUME NEW i \in Ids PROVE LockOK(i)'
    BY <1>4 DEF UnitInv, TxTypes, DraftOK, LockOK, Existing
<1>5. ASSUME NEW q \in Requests PROVE DraftOK(q)' /\ UpdateOK(q)'
    BY <1>5 DEF UnitInv, TxTypes, DraftOK, UpdateOK, Existing
<1>6. ASSUME NEW q \in Requests PROVE BulkOK(q)' /\ ReplyOK(q)'
    BY <1>6 DEF UnitInv, TxTypes, BulkOK, ReplyOK, Existing
<1>7. ASSUME NEW q \in Requests PROVE FreshOK(q)'
    BY <1>7 DEF UnitInv, TxTypes, FreshOK, Fresh, Existing
<1>8. ASSUME NEW q \in Requests PROVE ChoiceOK(q)'
    <2>1. CASE q = r
        <3>1. Existing \subseteq 1..lastId
            BY DEF UnitInv, StoreInv, Existing, Ids
        <3>2. \A i \in Existing : units[i].number \in Nat
            BY DEF UnitInv, StoreInv, Unit
        <3> QED
            BY <1>0, <1>1, <2>1, <3>1, <3>2 DEF UnitInv, TxTypes, ChoiceOK, Existing
    <2>2. CASE q # r
        BY <1>8, <2>2 DEF UnitInv, TxTypes, ChoiceOK, Existing
    <2> QED
        BY <2>1, <2>2
<1> QED
    BY <1>2, <1>3, <1>4, <1>5, <1>6, <1>7, <1>8 DEF UnitInv

(* An insert takes an id above every other, so that nobody has it as a     *)
(* target, has found it or has chosen a number among units with it; or it  *)
(* rolls back.                                                             *)
LEMMA InsertUnitKeepsInv ==
    ASSUME UnitInv, NEW r \in Requests, InsertUnit(r)
    PROVE  UnitInv'
<1>1. CASE number[r] \in Numbers
    <2>1. Rollback(r, "conflict") /\ lastId' \in lastId..MaxId
        BY <1>1, BoundsAssumption DEF InsertUnit, UnitInv, StoreInv
    <2> QED
        BY <2>1, RollbackKeepsInv
<1>2. CASE number[r] \notin Numbers
    <2> DEFINE u == [number |-> number[r], subunits |-> <<>>, count |-> length[r]]
    <2>1. /\ pc[r] = "insert" /\ lastId < MaxId /\ lastId' = lastId + 1
          /\ target' = [target EXCEPT ![r] = lastId + 1]
          /\ draft' = [draft EXCEPT ![r] = u]
          /\ pc' = [pc EXCEPT ![r] = "subunits"]
          /\ UNCHANGED <<units, lock, length, number, since, bulk, seen, reply, raced>>
        BY <1>2 DEF InsertUnit, NextId, InsertedCount, Goto
    <2>2. u \in Unit /\ u # None
        <3>1. number[r] \in Nat /\ length[r] \in Nat /\ <<>> \in Seq(Subunits)
            BY DEF UnitInv, TxTypes
        <3>2. u \in Unit
            BY <3>1 DEF Unit
        <3> QED
            BY <3>2, NoneAssumption
    <2>3. /\ lastId \in Nat /\ lastId + 1 \in Ids
          /\ lastId + 1 \notin Existing /\ Existing' = Existing
          /\ \A q \in Requests : draft[q] # None => target[q] \in Nat /\ target[q] <= lastId
          /\ \A q \in Requests : pc[q] = "update" => target[q] \in Nat /\ target[q] <= lastId
        BY <2>1, BoundsAssumption
           DEF UnitInv, StoreInv, DraftOK, UpdateOK, Existing, Ids
    <2> HIDE DEF u
    <2>4. StoreInv'
        <3>1. \A i \in Existing : i \in Nat
            BY DEF Existing, Ids
        <3> QED
            BY <2>1, <2>3, <3>1, BoundsAssumption DEF UnitInv, StoreInv
    <2>5. TxTypes'
        BY <2>1, <2>2, <2>3 DEF UnitInv, TxTypes, InTransaction
    <2>6. draft[r] = None /\ \A i \in Ids : lock[i] # r
        <3>1. draft[r] = None
            BY <2>1 DEF UnitInv, DraftOK
        <3> QED
            BY <3>1, NoneAssumption DEF UnitInv, LockOK
    <2>7. ASSUME NEW i \in Ids PROVE LockOK(i)'
        BY <2>1, <2>3, <2>6, <2>7 DEF UnitInv, TxTypes, LockOK
    <2>8. ASSUME NEW q \in Requests PROVE DraftOK(q)'
        <3>1. CASE q = r
            <4>1. length[r] # 0
                BY <2>1 DEF UnitInv, ChoiceOK
            <4> QED
                BY <2>1, <2>2, <2>3, <3>1, <4>1 DEF UnitInv, TxTypes, DraftOK, u
        <3>2. CASE q # r
            BY <2>1, <2>3, <2>8, <3>2 DEF UnitInv, TxTypes, DraftOK, Ids
        <3> QED
            BY <3>1, <3>2
    <2>9. ASSUME NEW q \in Requests PROVE UpdateOK(q)' /\ BulkOK(q)' /\ ReplyOK(q)'
        <3>1. 1..lastId \subseteq 1..lastId'
            BY <2>1, <2>3
        <3> QED
            BY <2>1, <2>3, <2>9, <3>1 DEF UnitInv, TxTypes, UpdateOK, BulkOK, ReplyOK, Ids
    <2>10. ASSUME NEW q \in Requests PROVE FreshOK(q)'
        <3>1. CASE q = r
            <4>1. lastId + 1 \notin 1..lastId
                BY <2>3
            <4>2. \A p \in Requests \ {r} :
                    (pc'[p] = "update" \/ draft'[p] # None) => target'[p] # lastId + 1
                BY <2>1, <2>3 DEF UnitInv, TxTypes
            <4>3. \A p \in Requests :
                    /\ pc'[p] = "insert" => lastId + 1 \notin since'[p]
                    /\ pc'[p] = "bulk" => lastId + 1 \notin bulk'[p].found
                    /\ reply'[p].status = "deleted" => lastId + 1 \notin reply'[p].deleted
                BY <2>1, <4>1 DEF UnitInv, TxTypes, ChoiceOK, BulkOK, ReplyOK
            <4>4. target'[r] = lastId + 1
                BY <2>1 DEF UnitInv, TxTypes
            <4> QED
                BY <2>3, <3>1, <4>2, <4>3, <4>4 DEF FreshOK
        <3>2. CASE q # r
            <4> SUFFICES ASSUME Fresh(q)' PROVE FreshOK(q)'
                BY DEF FreshOK
            <4>1. Fresh(q) /\ FreshOK(q)
                BY <2>1, <2>10, <3>2 DEF UnitInv, TxTypes, Fresh
            <4>2. target[q] \in Nat /\ target[q] <= lastId
                BY <2>3, <2>10, <4>1 DEF Fresh
            <4> QED
                BY <2>1, <2>3, <2>10, <3>2, <4>1, <4>2 DEF UnitInv, TxTypes, FreshOK
        <3> QED
            BY <3>1, <3>2
    <2>11. ASSUME NEW q \in Requests PROVE ChoiceOK(q)'
        <3>1. 1..lastId \subseteq 1..lastId'
            BY <2>1, <2>3
        <3> QED
            BY <2>1, <2>3, <2>11, <3>1 DEF UnitInv, TxTypes, ChoiceOK
    <2> QED
        BY <2>4, <2>5, <2>7, <2>8, <2>9, <2>10, <2>11 DEF UnitInv
<1> QED
    BY <1>1, <1>2

(* An update locks its row only if nobody else has: the version that is    *)
(* locked still has the number that was read before.                       *)
LEMMA UpdateUnitKeepsInv ==
    ASSUME UnitInv, NEW r \in Requests, UpdateUnit(r)
    PROVE  UnitInv'
<1> DEFINE i == target[r]
<1>1. /\ pc[r] = "update" /\ lock[i] = None /\ pc' = [pc EXCEPT ![r] = "clear"]
      /\ UNCHANGED <<units, lastId, target, length, number, since, bulk, seen, reply,
                     raced>>
      /\ Existing' = Existing
    BY DEF UpdateUnit, Goto, Existing
<1>2. i \in Ids /\ i <= lastId /\ length[r] # 0 /\ draft[r] = None
    BY <1>1 DEF UnitInv, UpdateOK, DraftOK
<1>3. StoreInv'
    BY <1>1 DEF UnitInv, StoreInv
<1>4. CASE i \notin Existing
    <2>1. UNCHANGED <<lock, draft>>
        BY <1>4 DEF UpdateUnit
    <2>2. TxTypes'
        BY <1>1, <2>1 DEF UnitInv, TxTypes, InTransaction
    <2>3. ASSUME NEW j \in Ids PROVE LockOK(j)'
        BY <1>1, <2>1, <2>3 DEF UnitInv, LockOK
    <2>4. ASSUME NEW q \in Requests
          PROVE  DraftOK(q)' /\ UpdateOK(q)' /\ BulkOK(q)' /\ ReplyOK(q)' /\ ChoiceOK(q)'
        BY <1>1, <1>2, <2>1, <2>4
           DEF UnitInv, TxTypes, DraftOK, UpdateOK, BulkOK, ReplyOK, ChoiceOK
    <2>5. ASSUME NEW q \in Requests PROVE FreshOK(q)'
        BY <1>1, <2>1, <2>5 DEF UnitInv, TxTypes, FreshOK, Fresh
    <2> QED
        BY <1>3, <2>2, <2>3, <2>4, <2>5 DEF UnitInv
<1>5. CASE i \in Existing
    <2> DEFINE u == [units[i] EXCEPT !.count = length[r]]
    <2>1. lock' = [lock EXCEPT ![i] = r] /\ draft' = [draft EXCEPT ![r] = u]
        BY <1>5 DEF UpdateUnit, UpdatedCount
    <2>2. u \in Unit /\ u # None /\ u.number = number[r] /\ u.count = length[r]
        <3>1. units[i] \in Unit /\ length[r] \in Nat /\ units[i].number = number[r]
            BY <1>1, <1>2, <1>5 DEF UnitInv, StoreInv, TxTypes, UpdateOK
        <3>2. u \in Unit /\ u.number = units[i].number /\ u.count = length[r]
            BY <3>1 DEF Unit
        <3> QED
            BY <3>1, <3>2, NoneAssumption
    <2> HIDE DEF u
    <2>3. TxTypes'
        BY <1>1, <2>1, <2>2 DEF UnitInv, TxTypes, InTransaction
    <2>4. ASSUME NEW j \in Ids PROVE LockOK(j)'
        <3>1. CASE j = i
            BY <1>1, <1>2, <1>5, <2>1, <2>2, <3>1 DEF UnitInv, TxTypes, LockOK, UpdateOK
        <3>2. CASE j # i
            BY <1>1, <1>2, <2>1, <2>4, <3>2 DEF UnitInv, TxTypes, LockOK
        <3> QED
            BY <3>1, <3>2
    <2>5. ASSUME NEW q \in Requests PROVE DraftOK(q)'
        BY <1>1, <1>2, <2>1, <2>2, <2>5 DEF UnitInv, TxTypes, DraftOK
    <2>6. ASSUME NEW q \in Requests
          PROVE  UpdateOK(q)' /\ BulkOK(q)' /\ ReplyOK(q)' /\ ChoiceOK(q)'
        BY <1>1, <2>6 DEF UnitInv, TxTypes, UpdateOK, BulkOK, ReplyOK, ChoiceOK
    <2>7. ASSUME NEW q \in Requests PROVE FreshOK(q)'
        <3>1. Fresh(q)' => q # r /\ Fresh(q)
            BY <1>1, <1>2, <2>1, <2>7, NoneAssumption DEF UnitInv, TxTypes, Fresh, DraftOK
        <3> QED
            BY <1>1, <1>2, <2>1, <2>7, <3>1 DEF UnitInv, TxTypes, FreshOK
    <2> QED
        BY <1>3, <2>3, <2>4, <2>5, <2>6, <2>7 DEF UnitInv
<1> QED
    BY <1>4, <1>5

(* An update has read the number of the unit it is going to store.         *)
LEMMA UpdateBeginsKeepsInv ==
    ASSUME UnitInv, NEW r \in Requests, UpdateBegins(r)
    PROVE  UnitInv'
<1>1. PICK i \in Ids, n \in 1..MaxLength :
        /\ i <= lastId
        /\ target' = [target EXCEPT ![r] = i]
        /\ length' = [length EXCEPT ![r] = n]
        /\ IF i \in Existing
           THEN /\ number' = [number EXCEPT ![r] = units[i].number]
                /\ pc' = [pc EXCEPT ![r] = "update"]
                /\ UNCHANGED reply
           ELSE /\ pc' = [pc EXCEPT ![r] = "answered"]
                /\ reply' = [reply EXCEPT ![r] = [status |-> "not_found"]]
                /\ UNCHANGED number
    BY DEF UpdateBegins, Goto, Answer
<1>2. /\ pc[r] = "new" /\ Existing' = Existing
      /\ UNCHANGED <<units, lastId, lock, draft, since, bulk, seen, raced>>
    BY DEF UpdateBegins, Existing
<1>3. i \in Nat /\ n \in Nat /\ n # 0
    BY BoundsAssumption DEF Ids
<1>4. draft[r] = None /\ \A j \in Ids : lock[j] # r
    <2>1. draft[r] = None
        BY <1>2 DEF UnitInv, DraftOK
    <2> QED
        BY <2>1, NoneAssumption DEF UnitInv, LockOK
<1>5. StoreInv'
    BY <1>2 DEF UnitInv, StoreInv
<1>6. TxTypes'
    <2>1. i \in Existing => units[i].number \in Nat
        BY DEF UnitInv, StoreInv, Unit
    <2> QED
        BY <1>1, <1>2, <1>3, <2>1 DEF UnitInv, TxTypes, InTransaction
<1>7. ASSUME NEW j \in Ids PROVE LockOK(j)'
    BY <1>1, <1>2, <1>4, <1>7 DEF UnitInv, TxTypes, LockOK
<1>8. ASSUME NEW q \in Requests PROVE DraftOK(q)' /\ UpdateOK(q)'
    BY <1>1, <1>2, <1>3, <1>4, <1>8 DEF UnitInv, TxTypes, DraftOK, UpdateOK
<1>9. ASSUME NEW q \in Requests PROVE BulkOK(q)' /\ ReplyOK(q)' /\ ChoiceOK(q)'
    BY <1>1, <1>2, <1>9 DEF UnitInv, TxTypes, BulkOK, ReplyOK, ChoiceOK
<1>10. ASSUME NEW q \in Requests PROVE FreshOK(q)'
    <2> SUFFICES ASSUME Fresh(q)' PROVE FreshOK(q)'
        BY DEF FreshOK
    <2>1. q # r /\ Fresh(q) /\ FreshOK(q)
        BY <1>1, <1>2, <1>4, <1>10 DEF UnitInv, TxTypes, Fresh
    <2>2. target'[q] = target[q] /\ target'[q] \notin Existing'
        BY <1>1, <1>2, <2>1 DEF UnitInv, TxTypes, FreshOK
    <2>3. ASSUME NEW t \in Requests \ {q}, (pc'[t] = "update" \/ draft'[t] # None)
          PROVE  target'[t] # target'[q]
        <3>1. CASE t = r
            <4>1. pc'[r] = "update" /\ i \in Existing /\ target'[r] = i
                BY <1>1, <1>2, <1>4, <2>3, <3>1 DEF UnitInv, TxTypes
            <4> QED
                BY <1>2, <2>2, <3>1, <4>1
        <3>2. CASE t # r
            <4>1. pc'[t] = pc[t] /\ draft'[t] = draft[t] /\ target'[t] = target[t]
                BY <1>1, <1>2, <3>2 DEF UnitInv, TxTypes
            <4> QED
                BY <2>1, <2>2, <2>3, <4>1 DEF FreshOK
        <3> QED
            BY <3>1, <3>2
    <2>4. ASSUME NEW t \in Requests
          PROVE  /\ pc'[t] = "insert" => target'[q] \notin since'[t]
                 /\ pc'[t] = "bulk" => target'[q] \notin bulk'[t].found
                 /\ reply'[t].status = "deleted" => target'[q] \notin reply'[t].deleted
        BY <1>1, <1>2, <2>1, <2>2 DEF UnitInv, TxTypes, FreshOK
    <2> QED
        BY <2>2, <2>3, <2>4 DEF FreshOK
<1> QED
    BY <1>5, <1>6, <1>7, <1>8, <1>9, <1>10 DEF UnitInv

(* The old subunits leave the draft, not its number and count.             *)
LEMMA ClearSubunitsKeepsInv ==
    ASSUME UnitInv, NEW r \in Requests, ClearSubunits(r)
    PROVE  UnitInv'
<1>1. /\ pc[r] = "clear" /\ pc' = [pc EXCEPT ![r] = "subunits"] /\ Existing' = Existing
      /\ UNCHANGED <<units, lastId, lock, target, length, number, since, bulk, seen,
                     reply, raced>>
    BY DEF ClearSubunits, Goto, Existing
<1> DEFINE u == [draft[r] EXCEPT !.subunits = <<>>]
<1>2. draft' = IF draft[r] = None THEN draft ELSE [draft EXCEPT ![r] = u]
    BY DEF ClearSubunits
<1>3. ASSUME draft[r] # None
      PROVE  /\ u \in Unit /\ u # None /\ u.number = draft[r].number
             /\ u.count = draft[r].count /\ u.subunits = <<>>
    <2>1. draft[r] \in Unit /\ <<>> \in Seq(Subunits)
        BY <1>3 DEF UnitInv, DraftOK
    <2>2. u \in Unit /\ u.number = draft[r].number /\ u.count = draft[r].count /\ u.subunits = <<>>
        BY <2>1 DEF Unit
    <2> QED
        BY <2>2, NoneAssumption
<1> HIDE DEF u
<1>4. \A q \in Requests :
        /\ draft'[q] = None <=> draft[q] = None
        /\ q # r => draft'[q] = draft[q]
    BY <1>2, <1>3 DEF UnitInv, TxTypes
<1>5. StoreInv'
    BY <1>1 DEF UnitInv, StoreInv
<1>6. TxTypes'
    BY <1>1, <1>2, <1>3 DEF UnitInv, TxTypes, InTransaction
<1>7. ASSUME NEW i \in Ids PROVE LockOK(i)'
    BY <1>1, <1>4, <1>7 DEF UnitInv, TxTypes, LockOK
<1>8. ASSUME NEW q \in Requests PROVE DraftOK(q)'
    <2>1. CASE q = r
        BY <1>1, <1>2, <1>3, <1>8, <2>1 DEF UnitInv, TxTypes, DraftOK
    <2>2. CASE q # r
        BY <1>1, <1>4, <1>8, <2>2 DEF UnitInv, TxTypes, DraftOK
    <2> QED
        BY <2>1, <2>2
<1>9. ASSUME NEW q \in Requests
      PROVE  UpdateOK(q)' /\ BulkOK(q)' /\ ReplyOK(q)' /\ ChoiceOK(q)'
    BY <1>1, <1>9 DEF UnitInv, TxTypes, UpdateOK, BulkOK, ReplyOK, ChoiceOK
<1>10. ASSUME NEW q \in Requests PROVE FreshOK(q)'
    BY <1>1, <1>4, <1>10 DEF UnitInv, TxTypes, FreshOK, Fresh
<1> QED
    BY <1>5, <1>6, <1>7, <1>8, <1>9, <1>10 DEF UnitInv

(* A subunit that is added carries the number and the request of its       *)
(* draft.                                                                  *)
LEMMA InsertSubunitKeepsInv ==
    ASSUME UnitInv, NEW r \in Requests, InsertSubunit(r)
    PROVE  UnitInv'
<1> DEFINE s == Append(draft[r].subunits, Subunit(number[r], r))
           u == [draft[r] EXCEPT !.subunits = s]
<1>1. /\ pc[r] = "subunits" /\ draft[r] # None
      /\ draft' = [draft EXCEPT ![r] = u]
      /\ UNCHANGED <<units, lastId, lock, target, length, number, since, bulk, pc, seen,
                     reply, raced>>
      /\ Existing' = Existing
    BY DEF InsertSubunit, Existing
<1>2. /\ u \in Unit /\ u # None /\ u.number = draft[r].number
      /\ u.count = draft[r].count
      /\ \A k \in DOMAIN u.subunits : u.subunits[k] = Subunit(number[r], r)
    <2>1. /\ draft[r] \in Unit
          /\ \A k \in DOMAIN draft[r].subunits : draft[r].subunits[k] = Subunit(number[r], r)
        BY <1>1 DEF UnitInv, DraftOK
    <2>2. draft[r].subunits \in Seq(Subunits)
        BY <2>1 DEF Unit
    <2>3. Subunit(number[r], r) \in Subunits
        BY DEF UnitInv, TxTypes, Subunit, Subunits
    <2>4. s \in Seq(Subunits) /\ \A k \in DOMAIN s : s[k] = Subunit(number[r], r)
        BY <2>1, <2>2, <2>3
    <2>5. /\ u \in Unit /\ u.number = draft[r].number /\ u.count = draft[r].count
          /\ u.subunits = s
        BY <2>1, <2>4 DEF Unit
    <2> QED
        BY <2>4, <2>5, NoneAssumption
<1> HIDE DEF u, s
<1>3. \A q \in Requests :
        /\ draft'[q] = None <=> draft[q] = None
        /\ q # r => draft'[q] = draft[q]
    BY <1>1, <1>2 DEF UnitInv, TxTypes
<1>4. StoreInv'
    BY <1>1 DEF UnitInv, StoreInv
<1>5. TxTypes'
    BY <1>1, <1>2 DEF UnitInv, TxTypes
<1>6. ASSUME NEW i \in Ids PROVE LockOK(i)'
    BY <1>1, <1>3, <1>6 DEF UnitInv, TxTypes, LockOK
<1>7. ASSUME NEW q \in Requests PROVE DraftOK(q)'
    <2>1. CASE q = r
        BY <1>1, <1>2, <1>7, <2>1 DEF UnitInv, TxTypes, DraftOK
    <2>2. CASE q # r
        BY <1>1, <1>3, <1>7, <2>2 DEF UnitInv, TxTypes, DraftOK
    <2> QED
        BY <2>1, <2>2
<1>8. ASSUME NEW q \in Requests
      PROVE  UpdateOK(q)' /\ BulkOK(q)' /\ ReplyOK(q)' /\ ChoiceOK(q)'
    BY <1>1, <1>8 DEF UnitInv, TxTypes, UpdateOK, BulkOK, ReplyOK, ChoiceOK
<1>9. ASSUME NEW q \in Requests PROVE FreshOK(q)'
    BY <1>1, <1>3, <1>9 DEF UnitInv, TxTypes, FreshOK, Fresh
<1> QED
    BY <1>4, <1>5, <1>6, <1>7, <1>8, <1>9 DEF UnitInv

(* What a commit stores is whole; it either adds a unit whose id nobody    *)
(* has seen or replaces the locked version, under the same number.         *)
LEMMA CommitKeepsInv ==
    ASSUME UnitInv, NEW r \in Requests, Commit(r)
    PROVE  UnitInv'
<1> DEFINE i == target[r]
           d == draft[r]
<1>1. /\ pc[r] = "subunits" /\ d # None /\ Len(d.subunits) = length[r]
      /\ units' = [units EXCEPT ![i] = d]
      /\ lock' = Released(r) /\ draft' = [draft EXCEPT ![r] = None]
      /\ pc' = [pc EXCEPT ![r] = "answered"]
      /\ reply' = [reply EXCEPT ![r] = [status |-> "stored", unit |-> d]]
      /\ raced' = [q \in Requests |-> raced'[q]]
      /\ UNCHANGED <<lastId, target, length, number, since, bulk, seen>>
    BY DEF Commit, Answer, Goto, TransactionOver, Changed, ReadThroughClient
<1>2. /\ d \in Unit /\ i \in Ids /\ i <= lastId /\ d.number = number[r]
      /\ d.count = length[r] /\ length[r] # 0
      /\ \A k \in DOMAIN d.subunits : d.subunits[k] = Subunit(number[r], r)
    BY <1>1 DEF UnitInv, DraftOK
<1>3. Whole(d) /\ d.subunits[1].by = r
    <2>1. d.subunits \in Seq(Subunits)
        BY <1>2 DEF Unit
    <2>2. Len(d.subunits) \in Nat /\ DOMAIN d.subunits = 1..Len(d.subunits)
        BY <2>1
    <2>3. 1 \in DOMAIN d.subunits
        BY <1>1, <1>2, <2>2
    <2> QED
        BY <1>1, <1>2, <2>3 DEF Whole, Subunit
<1>4. Existing' = Existing \union {i}
    BY <1>1, <1>2 DEF Existing, UnitInv, StoreInv
<1> HIDE DEF d
<1>5. StoreInv'
    <2>1. \A j \in Existing' : j <= lastId /\ units'[j] \in Unit /\ Whole(units'[j])
        BY <1>1, <1>2, <1>3, <1>4 DEF UnitInv, StoreInv
    <2>2. units' \in [Ids -> Unit \union {None}]
        BY <1>1, <1>2 DEF UnitInv, StoreInv
    <2> QED
        BY <1>1, <2>1, <2>2 DEF UnitInv, StoreInv
<1>6. TxTypes'
    BY <1>1 DEF UnitInv, TxTypes, InTransaction, Released
<1>7. \/ i \notin Existing /\ Fresh(r)
      \/ i \in Existing /\ units[i].number = number[r] /\ lock[i] = r
    <2>1. Fresh(r) => i \notin Existing
        BY DEF UnitInv, FreshOK
    <2>2. lock[i] = r => i \in Existing /\ units[i].number = number[r]
        BY <1>2, NoneAssumption DEF UnitInv, LockOK
    <2> QED
        BY <1>1, <2>1, <2>2 DEF Fresh, d
<1>8. \A q \in Requests \ {r} :
        /\ pc'[q] = pc[q] /\ reply'[q] = reply[q] /\ draft'[q] = draft[q]
    BY <1>1 DEF UnitInv, TxTypes
<1>9. \A j \in Existing : j # i => units'[j] = units[j]
    BY <1>1, <1>2 DEF UnitInv, StoreInv, Existing
<1>10. i \in Existing => units'[i].number = units[i].number
    BY <1>1, <1>2, <1>7 DEF UnitInv, StoreInv, Existing, Fresh
<1>11. ASSUME NEW j \in Ids PROVE LockOK(j)'
    <2> SUFFICES ASSUME lock'[j] # None PROVE LockOK(j)'
        BY DEF LockOK
    <2>1. lock[j] # r /\ lock'[j] = lock[j] /\ lock[j] # None /\ lock[j] \in Requests
        BY <1>1, <1>11 DEF Released, UnitInv, TxTypes
    <2>2. j # i
        BY <1>7, <1>11, <2>1 DEF UnitInv, LockOK
    <2> QED
        BY <1>1, <1>4, <1>8, <1>9, <1>11, <2>1, <2>2 DEF UnitInv, LockOK
<1>12. ASSUME NEW q \in Requests PROVE DraftOK(q)'
    BY <1>1, <1>8, <1>12 DEF UnitInv, TxTypes, DraftOK
<1>13. ASSUME NEW q \in Requests PROVE UpdateOK(q)'
    <2> SUFFICES ASSUME pc'[q] = "update" PROVE UpdateOK(q)'
        BY DEF UpdateOK
    <2>1. q # r /\ pc[q] = "update"
        BY <1>1, <1>8, <1>13 DEF UnitInv, TxTypes
    <2>2. target[q] = i => i \in Existing
        BY <1>7, <1>13, <2>1 DEF UnitInv, FreshOK
    <2> QED
        BY <1>1, <1>4, <1>9, <1>10, <1>13, <2>1, <2>2 DEF UnitInv, UpdateOK
<1>14. ASSUME NEW q \in Requests PROVE BulkOK(q)'
    BY <1>1, <1>8, <1>14 DEF UnitInv, TxTypes, BulkOK
<1>15. ASSUME NEW q \in Requests PROVE ReplyOK(q)'
    <2>1. CASE q = r
        BY <1>1, <1>2, <1>3, <2>1 DEF UnitInv, TxTypes, ReplyOK
    <2>2. CASE q # r
        <3>1. reply[q].status = "deleted" => (i \in reply[q].deleted => i \in Existing)
            BY <1>7, <1>15 DEF UnitInv, FreshOK
        <3> QED
            BY <1>1, <1>4, <1>8, <1>15, <2>2, <3>1 DEF UnitInv, ReplyOK
    <2> QED
        BY <2>1, <2>2
<1>16. ASSUME NEW q \in Requests PROVE FreshOK(q)'
    <2> SUFFICES ASSUME Fresh(q)' PROVE FreshOK(q)'
        BY DEF FreshOK
    <2>1. q # r /\ draft[q] # None
        BY <1>1, <1>8, <1>16 DEF UnitInv, TxTypes, Fresh
    <2>2. target[q] \in Ids
        BY <1>16, <2>1 DEF UnitInv, DraftOK
    <2>3. Fresh(q) /\ FreshOK(q)
        BY <1>1, <1>8, <1>16, <2>1, <2>2, NoneAssumption DEF Released, Fresh, UnitInv
    <2>4. target[q] # i
        BY <1>1, <1>16, <2>1, <2>3 DEF FreshOK, d
    <2>5. ASSUME NEW p \in Requests, reply'[p].status = "deleted"
          PROVE  target[q] \notin reply'[p].deleted
        <3>1. p # r
            BY <1>1, <2>5 DEF UnitInv, TxTypes
        <3> QED
            BY <1>8, <2>3, <2>5, <3>1 DEF FreshOK
    <2>6. ASSUME NEW p \in Requests, pc'[p] \in {"insert", "bulk", "update"} \/ draft'[p] # None
          PROVE  p # r
        BY <1>1, <2>6 DEF UnitInv, TxTypes
    <2> QED
        BY <1>1, <1>4, <1>8, <2>3, <2>4, <2>5, <2>6 DEF FreshOK
<1>17. ASSUME NEW q \in Requests PROVE ChoiceOK(q)'
    <2> SUFFICES ASSUME pc'[q] = "insert" PROVE ChoiceOK(q)'
        BY DEF ChoiceOK
    <2>1. q # r /\ pc[q] = "insert"
        BY <1>1, <1>8, <1>17 DEF UnitInv, TxTypes
    <2>2. i \in since[q] => i \in Existing
        BY <1>7, <1>17, <2>1 DEF UnitInv, FreshOK
    <2> QED
        BY <1>1, <1>4, <1>9, <1>10, <1>17, <2>1, <2>2 DEF UnitInv, ChoiceOK
<1> QED
    BY <1>5, <1>6, <1>11, <1>12, <1>13, <1>14, <1>15, <1>16, <1>17 DEF UnitInv

(* Units are deleted only if no transaction has them locked, so no update  *)
(* can store one of them again; those that were found are not fresh.       *)
LEMMA DeletedKeepsInv ==
    ASSUME UnitInv, NEW r \in Requests, NEW S \in SUBSET Ids, NEW D \in SUBSET (1..lastId),
           Unlocked(S), units' = Deleted(S),
           draft[r] = None, D \intersect (Existing \ S) = {},
           \A q \in Requests : Fresh(q) => target[q] \notin D,
           pc' = [pc EXCEPT ![r] = "answered"],
           reply' = [reply EXCEPT ![r] = [status |-> "deleted", deleted |-> D]],
           raced' = [q \in Requests |-> raced'[q]],
           UNCHANGED <<lastId, lock, target, length, number, draft, since, bulk, seen>>
    PROVE  UnitInv'
<1>1. Existing' = Existing \ S /\ \A i \in Existing' : units'[i] = units[i]
    BY DEF Deleted, Existing
<1>2. StoreInv'
    <2>1. units' \in [Ids -> Unit \union {None}]
        BY DEF UnitInv, StoreInv, Deleted
    <2> QED
        BY <1>1, <2>1 DEF UnitInv, StoreInv
<1>3. TxTypes'
    BY DEF UnitInv, TxTypes
<1>4. ASSUME NEW i \in Ids PROVE LockOK(i)'
    BY <1>1, <1>4 DEF UnitInv, LockOK, Unlocked
<1>5. ASSUME NEW q \in Requests PROVE DraftOK(q)' /\ BulkOK(q)'
    BY <1>5 DEF UnitInv, TxTypes, DraftOK, BulkOK
<1>6. ASSUME NEW q \in Requests PROVE UpdateOK(q)' /\ ChoiceOK(q)'
    <2>1. pc'[q] \in {"update", "insert"} => pc'[q] = pc[q]
        BY DEF UnitInv, TxTypes
    <2>2. UpdateOK(q) /\ ChoiceOK(q)
        BY <1>6 DEF UnitInv
    <2>3. UpdateOK(q)'
        BY <1>1, <2>1, <2>2 DEF UpdateOK
    <2>4. ChoiceOK(q)'
        BY <1>1, <2>1, <2>2 DEF ChoiceOK
    <2> QED
        BY <2>3, <2>4
<1>7. ASSUME NEW q \in Requests PROVE ReplyOK(q)'
    <2>1. CASE q = r
        BY <1>1, <2>1 DEF UnitInv, TxTypes, ReplyOK
    <2>2. CASE q # r
        BY <1>1, <1>7, <2>2 DEF UnitInv, TxTypes, ReplyOK
    <2> QED
        BY <2>1, <2>2
<1>8. ASSUME NEW q \in Requests PROVE FreshOK(q)'
    <2> SUFFICES ASSUME Fresh(q)' PROVE FreshOK(q)'
        BY DEF FreshOK
    <2>1. Fresh(q) /\ FreshOK(q) /\ target[q] \notin D
        BY <1>8 DEF UnitInv, Fresh
    <2>2. \A p \in Requests :
            reply'[p].status = "deleted" => target[q] \notin reply'[p].deleted
        BY <2>1 DEF UnitInv, TxTypes, FreshOK
    <2> QED
        BY <1>1, <2>1, <2>2 DEF UnitInv, TxTypes, FreshOK
<1> QED
    BY <1>2, <1>3, <1>4, <1>5, <1>6, <1>7, <1>8 DEF UnitInv

(* A single delete reports the unit only if it was there.                  *)
LEMMA DeleteKeepsInv ==
    ASSUME UnitInv, NEW r \in Requests, Delete(r)
    PROVE  UnitInv'
<1>1. PICK i \in 1..lastId :
        /\ Unlocked({i}) /\ units' = Deleted({i}) /\ Changed({i})
        /\ Answer(r, [status |-> "deleted", deleted |-> {i} \intersect Existing])
    BY DEF Delete
<1> DEFINE D == {i} \intersect Existing
<1>2. {i} \subseteq Ids /\ D \subseteq 1..lastId
    BY <1>1, BoundsAssumption DEF UnitInv, StoreInv, Ids
<1>3. draft[r] = None
    BY DEF Delete, UnitInv, DraftOK
<1>4. \A q \in Requests : Fresh(q) => target[q] \notin D
    BY DEF UnitInv, FreshOK
<1>5. raced' = [q \in Requests |-> raced'[q]]
    BY <1>1 DEF Changed
<1>6. UNCHANGED <<lastId, lock, target, length, number, draft, since, bulk, seen>>
    BY DEF Delete, txVars
<1>7. /\ pc' = [pc EXCEPT ![r] = "answered"]
      /\ reply' = [reply EXCEPT ![r] = [status |-> "deleted", deleted |-> D]]
    BY <1>1 DEF Answer, Goto
<1>8. D \intersect (Existing \ {i}) = {}
    OBVIOUS
<1> HIDE DEF D
<1> QED
    BY <1>1, <1>2, <1>3, <1>4, <1>5, <1>6, <1>7, <1>8, DeletedKeepsInv

(* A bulk delete removes all it was asked for, and so all it has found.    *)
LEMMA BulkDeletesKeepsInv ==
    ASSUME UnitInv, NEW r \in Requests, BulkDeletes(r)
    PROVE  UnitInv'
<1> DEFINE S == Ids \intersect bulk[r].asked
           D == bulk[r].found
<1>1. D \subseteq bulk[r].asked /\ D \subseteq 1..lastId
    BY DEF BulkDeletes, UnitInv, BulkOK
<1>2. Unlocked(S) /\ units' = Deleted(S)
    BY DEF BulkDeletes, Unlocked, Deleted
<1>3. draft[r] = None
    BY DEF BulkDeletes, UnitInv, DraftOK
<1>4. \A q \in Requests : Fresh(q) => target[q] \notin D
    BY DEF BulkDeletes, UnitInv, FreshOK
<1>5. raced' = [q \in Requests |-> raced'[q]]
    BY DEF BulkDeletes, Changed
<1>6. UNCHANGED <<lastId, lock, target, length, number, draft, since, bulk, seen>>
    BY DEF BulkDeletes, txVars
<1>7. /\ pc' = [pc EXCEPT ![r] = "answered"]
      /\ reply' = [reply EXCEPT ![r] = [status |-> "deleted", deleted |-> D]]
    BY DEF BulkDeletes, Answer, Goto
<1>8. D \intersect (Existing \ S) = {}
    BY <1>1 DEF Existing
<1>9. S \subseteq Ids
    OBVIOUS
<1> HIDE DEF D, S
<1> QED
    BY <1>1, <1>2, <1>3, <1>4, <1>5, <1>6, <1>7, <1>8, <1>9, DeletedKeepsInv

(* A bulk delete that looks, and the statements of a list, change nothing  *)
(* that another request relies on.                                         *)
LEMMA ReadsKeepInv ==
    ASSUME UnitInv, NEW r \in Requests,
           pc[r] \in {"new", "attach"},
           pc' \in [Requests -> InTransaction \union {"new", "bulk", "attach", "answered"}],
           \A q \in Requests : q # r => pc'[q] = pc[q] /\ reply'[q] = reply[q]
                                        /\ bulk'[q] = bulk[q],
           pc'[r] \in {"bulk", "attach", "answered"},
           pc'[r] = "bulk" => bulk'[r].found \subseteq bulk'[r].asked \intersect Existing,
           bulk' \in [Requests -> [asked : SUBSET Nat, found : SUBSET Nat]],
           reply' = [q \in Requests |-> reply'[q]],
           reply'[r] = reply[r] \/ reply'[r].status \notin {"stored", "deleted"}
             \/ reply'[r] = [status |-> "deleted", deleted |-> {}],
           seen' = [q \in Requests |-> seen'[q]],
           UNCHANGED <<units, lastId, lock, target, length, number, draft, since, raced>>
    PROVE  UnitInv'
<1>1. Existing' = Existing
    BY DEF Existing
<1>2. Existing \subseteq 1..lastId
    BY DEF UnitInv, StoreInv, Existing, Ids
<1>3. StoreInv'
    BY DEF UnitInv, StoreInv, Existing
<1>4. TxTypes'
    BY DEF UnitInv, TxTypes
<1>5. ASSUME NEW i \in Ids PROVE LockOK(i)'
    BY <1>1, <1>5 DEF UnitInv, LockOK
<1>6. draft[r] = None
    BY DEF UnitInv, DraftOK
<1>7. ASSUME NEW q \in Requests PROVE DraftOK(q)' /\ UpdateOK(q)' /\ ChoiceOK(q)'
    <2>1. CASE q = r
        BY <1>6, <2>1 DEF DraftOK, UpdateOK, ChoiceOK
    <2>2. CASE q # r
        BY <1>1, <1>7, <2>2 DEF UnitInv, DraftOK, UpdateOK, ChoiceOK
    <2> QED
        BY <2>1, <2>2
<1>8. ASSUME NEW q \in Requests PROVE BulkOK(q)' /\ ReplyOK(q)'
    <2>1. CASE q = r
        <3>1. BulkOK(r)'
            BY <1>2, <1>8 DEF BulkOK
        <3>2. reply[r].status = "stored" => FALSE
            BY DEF UnitInv, ReplyOK
        <3>3. ReplyOK(r)'
            BY <1>1, <3>2 DEF UnitInv, ReplyOK
        <3> QED
            BY <2>1, <3>1, <3>3
    <2>2. CASE q # r
        BY <1>1, <1>8, <2>2 DEF UnitInv, BulkOK, ReplyOK
    <2> QED
        BY <2>1, <2>2
<1>9. ASSUME NEW q \in Requests PROVE FreshOK(q)'
    <2> SUFFICES ASSUME Fresh(q)' PROVE FreshOK(q)'
        BY DEF FreshOK
    <2>1. Fresh(q) /\ FreshOK(q)
        BY <1>9 DEF UnitInv, Fresh
    <2>2. pc'[r] = "bulk" => target[q] \notin bulk'[r].found
        BY <2>1 DEF FreshOK
    <2>3. \A p \in Requests :
            reply'[p].status = "deleted" => target[q] \notin reply'[p].deleted
        BY <2>1 DEF FreshOK
    <2> QED
        BY <1>1, <1>6, <2>1, <2>2, <2>3 DEF FreshOK
<1> QED
    BY <1>3, <1>4, <1>5, <1>7, <1>8, <1>9 DEF UnitInv

(* The SELECT of a bulk delete finds committed units only.                 *)
LEMMA BulkLooksKeepsInv ==
    ASSUME UnitInv, NEW r \in Requests, BulkLooks(r)
    PROVE  UnitInv'
<1>1. PICK S \in SUBSET (1..lastId) :
        /\ bulk' = [bulk EXCEPT ![r] = [asked |-> S, found |-> S \intersect Existing]]
        /\ IF S \intersect Existing = {}
           THEN Answer(r, [status |-> "deleted", deleted |-> {}])
           ELSE Goto(r, "bulk") /\ UNCHANGED reply
    BY DEF BulkLooks
<1>2. /\ pc[r] = "new"
      /\ UNCHANGED <<units, lastId, lock, target, length, number, draft, since, seen, raced>>
    BY DEF BulkLooks, txVars
<1>3. S \subseteq Nat
    BY <1>1
<1>4. bulk' \in [Requests -> [asked : SUBSET Nat, found : SUBSET Nat]]
    BY <1>1, <1>3 DEF UnitInv, TxTypes
<1>5. /\ pc' \in [Requests -> InTransaction \union {"new", "bulk", "attach", "answered"}]
      /\ pc'[r] \in {"bulk", "answered"}
      /\ reply' = [q \in Requests |-> reply'[q]]
      /\ reply'[r] = reply[r] \/ reply'[r] = [status |-> "deleted", deleted |-> {}]
    BY <1>1 DEF Answer, Goto, UnitInv, TxTypes
<1>6. /\ \A q \in Requests : q # r => pc'[q] = pc[q] /\ reply'[q] = reply[q]
                                      /\ bulk'[q] = bulk[q]
      /\ bulk'[r].found \subseteq bulk'[r].asked \intersect Existing
    BY <1>1 DEF Answer, Goto, UnitInv, TxTypes
<1>7. seen' = [q \in Requests |-> seen'[q]]
    BY <1>2 DEF UnitInv, TxTypes
<1> QED
    BY <1>2, <1>4, <1>5, <1>6, <1>7, ReadsKeepInv

(* The two statements of a list only read.                                 *)
LEMMA ListsKeepInv ==
    ASSUME UnitInv, NEW r \in Requests, ListUnits(r) \/ AttachSubunits(r)
    PROVE  UnitInv'
<1>1. /\ pc[r] \in {"new", "attach"}
      /\ UNCHANGED <<units, lastId, lock, target, length, number, draft, since, bulk, raced>>
    BY DEF ListUnits, AttachSubunits, txVars
<1>2. /\ pc' \in [Requests -> InTransaction \union {"new", "bulk", "attach", "answered"}]
      /\ pc'[r] \in {"attach", "answered"}
      /\ reply' = [q \in Requests |-> reply'[q]]
      /\ reply'[r] = reply[r] \/ reply'[r].status = "listed"
      /\ seen' = [q \in Requests |-> seen'[q]]
    <2>1. CASE ListUnits(r)
        BY <2>1 DEF ListUnits, Goto, UnitInv, TxTypes
    <2>2. CASE AttachSubunits(r)
        <3> DEFINE a == [status |-> "listed",
                         rows |-> {[unit |-> u, subunits |-> SubunitsOf(u.id)] : u \in seen[r]}]
        <3>1. /\ pc' = [pc EXCEPT ![r] = "answered"] /\ reply' = [reply EXCEPT ![r] = a]
              /\ seen' = seen
            BY <2>2 DEF AttachSubunits, Answer, Goto
        <3>2. a.status = "listed"
            OBVIOUS
        <3> HIDE DEF a
        <3> QED
            BY <3>1, <3>2 DEF UnitInv, TxTypes
    <2> QED
        BY <2>1, <2>2
<1>3. \A q \in Requests : q # r => pc'[q] = pc[q] /\ reply'[q] = reply[q]
    BY DEF ListUnits, AttachSubunits, Answer, Goto, UnitInv, TxTypes
<1>4. bulk' \in [Requests -> [asked : SUBSET Nat, found : SUBSET Nat]]
    BY <1>1 DEF UnitInv, TxTypes
<1> QED
    BY <1>1, <1>2, <1>3, <1>4, ReadsKeepInv

(* One step of one request. *)
RequestStep(r) ==
    \/ CreateBegins(r) \/ UpdateBegins(r) \/ Delete(r) \/ BulkLooks(r) \/ ListUnits(r)
    \/ Continue(r)

(* UnitInv is inductive: every step of every request keeps it.             *)
LEMMA UnitStep == UnitInv /\ [Next]_vars => UnitInv'
<1> SUFFICES ASSUME UnitInv, [Next]_vars PROVE UnitInv'
    OBVIOUS
<1>1. CASE UNCHANGED vars
    <2>1. UNCHANGED <<units, lastId, lock, target, length, number, draft, since, bulk, pc,
                      seen, reply, raced>>
        BY <1>1 DEF vars, txVars
    <2>2. StoreInv' /\ TxTypes'
        BY <2>1 DEF UnitInv, StoreInv, TxTypes, Existing
    <2>3. \A i \in Ids : LockOK(i)'
        BY <2>1 DEF UnitInv, LockOK, Existing
    <2>4. \A r \in Requests : DraftOK(r)' /\ UpdateOK(r)' /\ BulkOK(r)' /\ ReplyOK(r)'
        BY <2>1 DEF UnitInv, DraftOK, UpdateOK, BulkOK, ReplyOK, Existing
    <2>5. \A r \in Requests : FreshOK(r)' /\ ChoiceOK(r)'
        BY <2>1 DEF UnitInv, FreshOK, Fresh, ChoiceOK, Existing
    <2> QED
        BY <2>2, <2>3, <2>4, <2>5 DEF UnitInv
<1>2. ASSUME NEW r \in Requests, RequestStep(r) PROVE UnitInv'
    <2>1. CASE CreateBegins(r)
        BY <2>1, CreateBeginsKeepsInv
    <2>2. CASE UpdateBegins(r)
        BY <2>2, UpdateBeginsKeepsInv
    <2>3. CASE Delete(r)
        BY <2>3, DeleteKeepsInv
    <2>4. CASE BulkLooks(r)
        BY <2>4, BulkLooksKeepsInv
    <2>5. CASE ListUnits(r) \/ AttachSubunits(r)
        BY <2>5, ListsKeepInv
    <2>6. CASE InsertUnit(r)
        BY <2>6, InsertUnitKeepsInv
    <2>7. CASE UpdateUnit(r)
        BY <2>7, UpdateUnitKeepsInv
    <2>8. CASE ClearSubunits(r)
        BY <2>8, ClearSubunitsKeepsInv
    <2>9. CASE InsertSubunit(r)
        BY <2>9, InsertSubunitKeepsInv
    <2>10. CASE InsertSubunitOrphaned(r) \/ TransactionFails(r)
        <3>1. Rollback(r, "failed") /\ lastId' = lastId
            BY <2>10 DEF InsertSubunitOrphaned, TransactionFails
        <3>2. lastId' \in lastId..MaxId
            BY <3>1, BoundsAssumption DEF UnitInv, StoreInv
        <3> QED
            BY <3>1, <3>2, RollbackKeepsInv
    <2>11. CASE Commit(r)
        BY <2>11, CommitKeepsInv
    <2>12. CASE BulkDeletes(r)
        BY <2>12, BulkDeletesKeepsInv
    <2> QED
        BY <1>2, <2>1, <2>2, <2>3, <2>4, <2>5, <2>6, <2>7, <2>8, <2>9, <2>10, <2>11, <2>12
           DEF RequestStep, Continue
<1> QED
    BY <1>1, <1>2 DEF Next, RequestStep

(* The inductive invariant holds in every state the service reaches,       *)
(* whatever requests run together.                                         *)
THEOREM UnitInvariant == Spec => []UnitInv
BY UnitInit, UnitStep, PTL DEF Spec

-----------------------------------------------------------------------------
(* What follows                                                            *)

(* Every committed unit is the work of one request: its count, its rows    *)
(* and their codes belong together (createUnit, updateAssignment).         *)
THEOREM SpecUnitsAreWhole == Spec => []UnitsAreWhole
<1>1. UnitInv => UnitsAreWhole
    BY DEF UnitInv, StoreInv, UnitsAreWhole
<1> QED
    BY <1>1, UnitInvariant, PTL

(* A create or update answers with what it stored itself, because the      *)
(* final read goes through the transaction's own connection.               *)
THEOREM SpecReplyIsOwnWrite == Spec => []ReplyIsOwnWrite
<1>1. UnitInv => ReplyIsOwnWrite
    BY DEF UnitInv, ReplyOK, ReplyIsOwnWrite
<1> QED
    BY <1>1, UnitInvariant, PTL

(* A unit that was reported as deleted is gone for good (deleteAssignment, *)
(* bulkDelete): updates under way hold its row or fail on the foreign key, *)
(* and the sequence does not give its id again.                            *)
THEOREM SpecDeletedStaysDeleted == Spec => []DeletedStaysDeleted
<1>1. UnitInv => DeletedStaysDeleted
    BY DEF UnitInv, ReplyOK, DeletedStaysDeleted
<1> QED
    BY <1>1, UnitInvariant, PTL

(* A create fails on the unique number only against a unit that was        *)
(* committed after it chose the number (getNextUnitNumber and the insert). *)
THEOREM SpecConflictMeansARival == Spec => ConflictMeansARival
<1> DEFINE A == \A r \in Requests :
                  (reply[r].status = "none" /\ reply'[r].status = "conflict") =>
                     \E i \in Existing : units[i].number = number[r] /\ i \notin since[r]
<1>1. UnitInv /\ [Next]_vars => [A]_vars
    <2> SUFFICES ASSUME UnitInv, Next, NEW r \in Requests,
                        reply[r].status = "none", reply'[r].status = "conflict"
                 PROVE  \E i \in Existing : units[i].number = number[r] /\ i \notin since[r]
        OBVIOUS
    <2>1. PICK q \in Requests : RequestStep(q)
        BY DEF Next, RequestStep
    <2>2. InsertUnit(q) /\ q = r /\ number[r] \in Numbers
        <3>1. CASE InsertUnit(q)
            BY <3>1 DEF InsertUnit, Rollback, Answer, UnitInv, TxTypes
        <3>2. CASE CreateBegins(q) \/ UpdateUnit(q) \/ ClearSubunits(q) \/ InsertSubunit(q)
                     \/ ListUnits(q)
            BY <3>2 DEF CreateBegins, UpdateUnit, ClearSubunits, InsertSubunit, ListUnits
        <3>3. CASE InsertSubunitOrphaned(q) \/ TransactionFails(q)
            BY <3>3 DEF InsertSubunitOrphaned, TransactionFails, Rollback, Answer, UnitInv,
                        TxTypes
        <3>4. CASE UpdateBegins(q)
            BY <3>4 DEF UpdateBegins, Answer, UnitInv, TxTypes
        <3>5. CASE Commit(q)
            BY <3>5 DEF Commit, Answer, UnitInv, TxTypes
        <3>6. CASE Delete(q) \/ BulkLooks(q) \/ BulkDeletes(q)
            <4>1. \/ UNCHANGED reply
                  \/ \E D : reply' = [reply EXCEPT ![q] = [status |-> "deleted", deleted |-> D]]
                BY <3>6 DEF Delete, BulkLooks, BulkDeletes, Answer
            <4> QED
                BY <4>1 DEF UnitInv, TxTypes
        <3>7. CASE AttachSubunits(q)
            <4> DEFINE a == [status |-> "listed",
                             rows |-> {[unit |-> u, subunits |-> SubunitsOf(u.id)] :
                                         u \in seen[q]}]
            <4>1. reply' = [reply EXCEPT ![q] = a]
                BY <3>7 DEF AttachSubunits, Answer
            <4>2. a.status = "listed"
                OBVIOUS
            <4> HIDE DEF a
            <4> QED
                BY <4>1, <4>2 DEF UnitInv, TxTypes
        <3> QED
            BY <2>1, <3>1, <3>2, <3>3, <3>4, <3>5, <3>6, <3>7 DEF RequestStep, Continue
    <2>3. PICK i \in Existing : units[i].number = number[r]
        BY <2>2 DEF Numbers
    <2>4. i \notin since[r]
        BY <2>2, <2>3 DEF InsertUnit, UnitInv, ChoiceOK
    <2> QED
        BY <2>3, <2>4
<1>2. Spec => [][A]_vars
    BY <1>1, UnitInvariant, PTL DEF Spec
<1> QED
    BY <1>2 DEF ConflictMeansARival

(* Variables have their types, and the row an update works on is locked by *)
(* it until its transaction is over (updateAssignment).                    *)
THEOREM SpecTypeOK == Spec => []TypeOK
<1>1. UnitInv => TypeOK
    <2> SUFFICES ASSUME UnitInv PROVE TypeOK
        OBVIOUS
    <2>1. ASSUME NEW r \in Requests, draft[r] # None, target[r] \in Existing
          PROVE  lock[target[r]] = r
        BY <2>1 DEF UnitInv, FreshOK, Fresh
    <2>2. ASSUME NEW r \in Requests, NEW i \in Ids, lock[i] = r
          PROVE  pc[r] \in {"clear", "subunits"} /\ target[r] = i
        BY <2>2, NoneAssumption DEF UnitInv, LockOK, DraftOK
    <2> QED
        BY <2>1, <2>2 DEF UnitInv, StoreInv, TxTypes, TypeOK
<1> QED
    BY <1>1, UnitInvariant, PTL

-----------------------------------------------------------------------------
(* Lists                                                                   *)

(* Between its two statements a list holds what is committed, except for   *)
(* the units that changed since the first.                                 *)
SeenOK(r) ==
    pc[r] = "attach" =>
        \A u \in seen[r] :
            u.id \in raced[r]
              \/ (u.id \in Existing /\ u.number = units[u.id].number /\ u.count = units[u.id].count)

ListInv == TornListIsARace /\ \A r \in Requests : SeenOK(r)

(* A step that answers no list may change the units of S: the lists under  *)
(* way are told of it.                                                     *)
LEMMA ListsAreTold ==
    ASSUME ListInv, NEW S,
           \A q \in Requests : pc'[q] = "attach" => pc[q] = "attach" /\ seen'[q] = seen[q],
           \A q \in Requests : raced[q] \subseteq raced'[q],
           \A q \in Requests : pc[q] = "attach" => S \subseteq raced'[q],
           \A i \in Ids \ S : units'[i] = units[i],
           \A q \in Requests : reply'[q] = reply[q] \/ reply'[q].status # "listed"
    PROVE  ListInv'
<1>1. ASSUME NEW q \in Requests PROVE SeenOK(q)'
    <2> SUFFICES ASSUME pc'[q] = "attach", NEW u \in seen'[q], u.id \notin raced'[q]
                 PROVE  /\ u.id \in Existing' /\ u.number = units'[u.id].number
                        /\ u.count = units'[u.id].count
        BY DEF SeenOK
    <2>1. pc[q] = "attach" /\ u \in seen[q] /\ u.id \notin raced[q] /\ u.id \notin S
        OBVIOUS
    <2>2. u.id \in Existing /\ u.number = units[u.id].number /\ u.count = units[u.id].count
        BY <2>1 DEF ListInv, SeenOK
    <2>3. u.id \in Ids \ S
        BY <2>1, <2>2 DEF Existing
    <2> QED
        BY <2>2, <2>3 DEF Existing
<1>2. TornListIsARace'
    <2> SUFFICES ASSUME NEW q \in Requests, reply'[q].status = "listed", NEW row \in reply'[q].rows,
                        row.unit.id \notin raced'[q]
                 PROVE  Whole([number |-> row.unit.number, count |-> row.unit.count,
                               subunits |-> row.subunits])
        BY DEF TornListIsARace, Whole
    <2>1. reply'[q] = reply[q] /\ row.unit.id \notin raced[q]
        OBVIOUS
    <2> QED
        BY <2>1 DEF ListInv, TornListIsARace
<1> QED
    BY <1>1, <1>2 DEF ListInv

(* An answer to a request other than a list. *)
LEMMA OtherAnswers ==
    ASSUME UnitInv, NEW r \in Requests, NEW a, Answer(r, a), a.status # "listed"
    PROVE  /\ \A q \in Requests : pc'[q] = "attach" => pc[q] = "attach"
           /\ \A q \in Requests : reply'[q] = reply[q] \/ reply'[q].status # "listed"
<1>1. pc' = [pc EXCEPT ![r] = "answered"] /\ reply' = [reply EXCEPT ![r] = a]
    BY DEF Answer, Goto
<1> QED
    BY <1>1 DEF UnitInv, TxTypes

LEMMA ChangedTells ==
    ASSUME NEW S, Changed(S)
    PROVE  /\ \A q \in Requests : raced[q] \subseteq raced'[q]
           /\ \A q \in Requests : pc[q] = "attach" => S \subseteq raced'[q]
    BY DEF Changed

LEMMA ListStep == UnitInv /\ ListInv /\ [Next]_vars => ListInv'
<1> SUFFICES ASSUME UnitInv, ListInv, [Next]_vars PROVE ListInv'
    OBVIOUS
<1>1. CASE UNCHANGED vars
    <2>1. UNCHANGED <<units, pc, seen, reply, raced>>
        BY <1>1 DEF vars, txVars
    <2> QED
        BY <2>1 DEF ListInv, SeenOK, TornListIsARace, Existing, Whole
<1>2. ASSUME UNCHANGED <<units, seen, raced>>,
             \A q \in Requests : pc'[q] = "attach" => pc[q] = "attach",
             \A q \in Requests : reply'[q] = reply[q] \/ reply'[q].status # "listed"
      PROVE  ListInv'
    <2>1. \A q \in Requests : pc'[q] = "attach" => pc[q] = "attach" /\ seen'[q] = seen[q]
        BY <1>2
    <2>0. PICK S : S = {}
        OBVIOUS
    <2>2. /\ \A q \in Requests : raced[q] \subseteq raced'[q]
          /\ \A q \in Requests : pc[q] = "attach" => S \subseteq raced'[q]
          /\ \A i \in Ids \ S : units'[i] = units[i]
        BY <1>2, <2>0
    <2> QED
        BY <1>2, <2>1, <2>2, ListsAreTold
<1>3. ASSUME NEW r \in Requests, NEW S, NEW a, Answer(r, a), a.status # "listed", Changed(S),
             UNCHANGED seen, \A i \in Ids \ S : units'[i] = units[i]
      PROVE  ListInv'
    <2>1. \A q \in Requests : pc'[q] = "attach" => pc[q] = "attach" /\ seen'[q] = seen[q]
        BY <1>3, OtherAnswers
    <2> QED
        BY <1>3, <2>1, OtherAnswers, ChangedTells, ListsAreTold
<1>4. ASSUME NEW r \in Requests, CreateBegins(r) \/ ClearSubunits(r) \/ InsertSubunit(r) \/ UpdateUnit(r)
      PROVE  ListInv'
    <2>1. UNCHANGED <<units, seen, raced, reply>>
        BY <1>4 DEF CreateBegins, ClearSubunits, InsertSubunit, UpdateUnit
    <2>2. \A q \in Requests : pc'[q] = "attach" => pc[q] = "attach"
        BY <1>4 DEF CreateBegins, ClearSubunits, InsertSubunit, UpdateUnit, Goto, UnitInv, TxTypes
    <2> QED
        BY <1>2, <2>1, <2>2
<1>5. ASSUME NEW r \in Requests, UpdateBegins(r) PROVE ListInv'
    <2>1. UNCHANGED <<units, seen, raced>>
        BY <1>5 DEF UpdateBegins
    <2>2. CASE UNCHANGED reply /\ Goto(r, "update")
        BY <1>2, <2>1, <2>2 DEF Goto, UnitInv, TxTypes
    <2>3. CASE Answer(r, [status |-> "not_found"])
        BY <1>2, <2>1, <2>3, OtherAnswers
    <2> QED
        BY <1>5, <2>2, <2>3 DEF UpdateBegins
<1>6. ASSUME NEW r \in Requests, BulkLooks(r) PROVE ListInv'
    <2>1. UNCHANGED <<units, seen, raced>>
        BY <1>6 DEF BulkLooks
    <2>2. CASE UNCHANGED reply /\ Goto(r, "bulk")
        BY <1>2, <2>1, <2>2 DEF Goto, UnitInv, TxTypes
    <2>3. CASE Answer(r, [status |-> "deleted", deleted |-> {}])
        BY <1>2, <2>1, <2>3, OtherAnswers
    <2> QED
        BY <1>6, <2>2, <2>3 DEF BulkLooks
<1>7. ASSUME NEW r \in Requests, NEW why \in {"failed", "conflict"}, Rollback(r, why) PROVE ListInv'
    <2>1. UNCHANGED <<units, seen, raced>> /\ Answer(r, [status |-> why])
        BY <1>7 DEF Rollback
    <2> QED
        BY <1>2, <2>1, OtherAnswers
<1>8. ASSUME NEW r \in Requests, InsertUnit(r) PROVE ListInv'
    <2>1. CASE Rollback(r, "conflict")
        BY <1>7, <2>1
    <2>2. CASE UNCHANGED <<units, seen, raced, reply>> /\ Goto(r, "subunits")
        BY <1>2, <2>2 DEF Goto, UnitInv, TxTypes
    <2> QED
        BY <1>8, <2>1, <2>2 DEF InsertUnit
<1>9. ASSUME NEW r \in Requests, InsertSubunitOrphaned(r) \/ TransactionFails(r) PROVE ListInv'
    BY <1>7, <1>9 DEF InsertSubunitOrphaned, TransactionFails
<1>10. ASSUME NEW r \in Requests, Commit(r) PROVE ListInv'
    <2> DEFINE a == [status |-> "stored", unit |-> ReadThroughClient(r)]
    <2>1. Answer(r, a) /\ a.status # "listed" /\ Changed({target[r]}) /\ UNCHANGED seen
        BY <1>10 DEF Commit
    <2>2. \A i \in Ids \ {target[r]} : units'[i] = units[i]
        BY <1>10 DEF Commit, UnitInv, StoreInv
    <2> HIDE DEF a
    <2> QED
        BY <1>3, <2>1, <2>2
<1>11. ASSUME NEW r \in Requests, Delete(r) PROVE ListInv'
    <2>1. PICK i \in 1..lastId :
             /\ units' = Deleted({i}) /\ Changed({i})
             /\ Answer(r, [status |-> "deleted", deleted |-> {i} \intersect Existing])
        BY <1>11 DEF Delete
    <2> DEFINE a == [status |-> "deleted", deleted |-> {i} \intersect Existing]
    <2>2. Answer(r, a) /\ a.status # "listed" /\ UNCHANGED seen
        BY <1>11, <2>1 DEF Delete
    <2>3. \A k \in Ids \ {i} : units'[k] = units[k]
        BY <2>1 DEF Deleted
    <2> HIDE DEF a
    <2> QED
        BY <1>3, <2>1, <2>2, <2>3
<1>12. ASSUME NEW r \in Requests, BulkDeletes(r) PROVE ListInv'
    <2> DEFINE a == [status |-> "deleted", deleted |-> bulk[r].found]
    <2>1. Answer(r, a) /\ a.status # "listed" /\ Changed(bulk[r].asked) /\ UNCHANGED seen
        BY <1>12 DEF BulkDeletes
    <2>2. \A k \in Ids \ bulk[r].asked : units'[k] = units[k]
        BY <1>12 DEF BulkDeletes, Deleted
    <2> HIDE DEF a
    <2> QED
        BY <1>3, <2>1, <2>2
<1>13. ASSUME NEW r \in Requests, ListUnits(r) PROVE ListInv'
    <2>1. /\ UNCHANGED <<units, reply, raced>> /\ pc' = [pc EXCEPT ![r] = "attach"]
          /\ seen' = [seen EXCEPT ![r] = {[id |-> i, number |-> units[i].number,
                                           count |-> units[i].count] : i \in Existing}]
        BY <1>13 DEF ListUnits, Goto
    <2>2. seen'[r] = {[id |-> i, number |-> units[i].number, count |-> units[i].count] : i \in Existing}
            /\ \A q \in Requests : q # r => seen'[q] = seen[q] /\ pc'[q] = pc[q]
        BY <2>1 DEF UnitInv, TxTypes
    <2>3. ASSUME NEW q \in Requests PROVE SeenOK(q)'
        <3>1. CASE q = r
            <4>1. \A u \in seen'[r] : /\ u.id \in Existing /\ u.number = units[u.id].number
                                      /\ u.count = units[u.id].count
                BY <2>2
            <4> QED
                BY <2>1, <3>1, <4>1 DEF SeenOK, Existing
        <3>2. CASE q # r
            BY <2>1, <2>2, <3>2 DEF ListInv, SeenOK, Existing
        <3> QED
            BY <3>1, <3>2
    <2>4. TornListIsARace'
        BY <2>1 DEF ListInv, TornListIsARace, Whole
    <2> QED
        BY <2>3, <2>4 DEF ListInv
<1>14. ASSUME NEW r \in Requests, AttachSubunits(r) PROVE ListInv'
    <2> DEFINE rows == {[unit |-> u, subunits |-> SubunitsOf(u.id)] : u \in seen[r]}
               a == [status |-> "listed", rows |-> rows]
    <2>1. /\ pc[r] = "attach" /\ UNCHANGED <<units, seen, raced>>
          /\ pc' = [pc EXCEPT ![r] = "answered"] /\ reply' = [reply EXCEPT ![r] = a]
        BY <1>14 DEF AttachSubunits, Answer, Goto
    <2>2. pc'[r] = "answered" /\ reply'[r] = a
            /\ \A q \in Requests : q # r => reply'[q] = reply[q] /\ pc'[q] = pc[q]
        <3> HIDE DEF a
        <3> QED
            BY <2>1 DEF UnitInv, TxTypes
    <2>3. \A q \in Requests : SeenOK(q)'
        <3> HIDE DEF a
        <3> QED
            BY <2>1, <2>2 DEF ListInv, SeenOK, Existing
    <2>4. ASSUME NEW row \in rows, row.unit.id \notin raced[r]
          PROVE  Whole([number |-> row.unit.number, count |-> row.unit.count,
                        subunits |-> row.subunits])
        <3>1. PICK u \in seen[r] : row = [unit |-> u, subunits |-> SubunitsOf(u.id)]
            OBVIOUS
        <3>2. u.id \in Existing /\ u.number = units[u.id].number /\ u.count = units[u.id].count
            BY <2>1, <2>4, <3>1 DEF ListInv, SeenOK
        <3>3. row.unit = u /\ row.subunits = units[u.id].subunits
            BY <3>1, <3>2 DEF SubunitsOf
        <3>4. Whole(units[u.id])
            BY <3>2 DEF UnitInv, StoreInv
        <3> QED
            BY <3>2, <3>3, <3>4 DEF Whole
    <2>5. TornListIsARace'
        <3>1. \A q \in Requests : q # r => reply'[q] = reply[q]
            BY <2>2
        <3>2. reply'[r].rows = rows /\ raced' = raced
            BY <2>1, <2>2
        <3> HIDE DEF rows, a
        <3> QED
            BY <2>4, <3>1, <3>2 DEF ListInv, TornListIsARace
    <2> QED
        BY <2>3, <2>5 DEF ListInv
<1>15. ASSUME NEW r \in Requests, RequestStep(r) PROVE ListInv'
    BY <1>4, <1>5, <1>6, <1>8, <1>9, <1>10, <1>11, <1>12, <1>13, <1>14, <1>15 DEF RequestStep, Continue
<1> QED
    BY <1>1, <1>15 DEF Next, RequestStep

(* The two statements of a list may see two states, but a unit they tear   *)
(* was stored or deleted between them: listAssignments needs no snapshot   *)
(* for units that nobody changes meanwhile.                                *)
THEOREM SpecTornListIsARace == Spec => []TornListIsARace
<1>1. Init => ListInv
    BY DEF Init, ListInv, SeenOK, TornListIsARace, NoReply
<1>2. ListInv => TornListIsARace
    BY DEF ListInv
<1> QED
    BY <1>1, <1>2, UnitInvariant, ListStep, PTL DEF Spec
=============================================================================
