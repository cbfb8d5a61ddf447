------------------------ MODULE ParsePipelineProofs -------------------------
(***************************************************************************)
(* The safety of the parses, for any number of them, any texts and any     *)
(* candidates.                                                             *)
(*                                                                         *)
(* ReportedIsStored: an answer names words it has added and words that     *)
(* were there.  The latter it takes from the index it has in hand, which   *)
(* it extends with what it decides before that is stored.  So its          *)
(* invariant is about the index (Told): its words are in the lexicon, or   *)
(* they are those of the insert that comes next, and if that fails there   *)
(* is no answer.                                                           *)
(*                                                                         *)
(* SecondCategoryIsExplained, NothingUnaccounted and DocsAreReleased have one  *)
(* invariant together, PassInv below.                                      *)
(***************************************************************************)
EXTENDS ParsePipeline, NaturalsInduction, WellFoundedInduction, TLAPS

Fields == {"pc", "sync", "pass", "doc", "cacheable", "found", "known", "plan", "allowed",
           "seen", "added", "existed", "queued", "troubles"}

Told(q, stored) ==
    /\ q.known.words \subseteq stored \union (IF q.pc = "insert" THEN WordsOf(q.plan) ELSE {})
    /\ q.added \union q.existed \subseteq stored

ParseInv ==
    /\ req = [r \in Requests |-> req[r]]
    /\ \A r \in Requests : DOMAIN req[r] = Fields /\ Told(req[r], Stored)

-----------------------------------------------------------------------------
(* A request at its beginning, or at its end, claims nothing. *)
LEMMA NothingClaimed ==
    ASSUME NEW how, NEW stored
    PROVE  /\ DOMAIN [NewRequest EXCEPT !.pc = how] = Fields
           /\ Told([NewRequest EXCEPT !.pc = how], stored)
<1> DEFINE q == [NewRequest EXCEPT !.pc = how]
<1>1. /\ DOMAIN q = Fields /\ q.pc = how /\ q.known.words = {} /\ q.plan = {}
      /\ q.added = {} /\ q.existed = {}
    BY DEF NewRequest, NoIndex, Fields
<1> HIDE DEF q
<1>2. Told(q, stored)
    BY <1>1 DEF Told
<1> QED
    BY <1>1, <1>2 DEF q

LEMMA ParseInit == Init => ParseInv
<1> SUFFICES ASSUME Init PROVE ParseInv
    OBVIOUS
<1>1. req = [r \in Requests |-> NewRequest]
    BY DEF Init
<1>2. DOMAIN NewRequest = Fields /\ Told(NewRequest, Stored)
    <2>1. /\ DOMAIN NewRequest = Fields /\ NewRequest.known.words = {}
          /\ NewRequest.added = {} /\ NewRequest.existed = {}
        BY DEF NewRequest, NoIndex, Fields
    <2> QED
        BY <2>1 DEF Told
<1> QED
    BY <1>1, <1>2 DEF ParseInv

(* What addEntries is given is in the lexicon when it is done. *)
LEMMA AddedIsStored ==
    ASSUME NEW new, NEW by, Adds(new, by)
    PROVE  Stored \subseteq Stored' /\ WordsOf(new) \subseteq Stored'
<1>1. lexicon \subseteq lexicon'
    BY DEF Adds
<1>2. ASSUME NEW e \in new
      PROVE  \E y \in lexicon' : y.word = e.word
    <2>1. CASE \E y \in lexicon : y.word = e.word
        BY <1>1, <2>1
    <2>2. CASE \A y \in lexicon : y.word # e.word
        <3>1. [word |-> e.word, category |-> e.category, by |-> by] \in lexicon'
            BY <2>2 DEF Adds
        <3> QED
            BY <3>1
    <2> QED
        BY <2>1, <2>2
<1>3. Stored \subseteq Stored'
    BY <1>1 DEF Stored, WordsOf
<1>4. WordsOf(new) \subseteq Stored'
    BY <1>2 DEF Stored, WordsOf
<1> QED
    BY <1>3, <1>4

(* Words stay in the lexicon: what was true to say of it remains true. *)
LEMMA TruthRemains ==
    ASSUME ParseInv, UNCHANGED req, Stored \subseteq Stored'
    PROVE  ParseInv'
BY DEF ParseInv, Told

(* A step of one request, which keeps or changes its claims. *)
LEMMA RequestStep ==
    ASSUME ParseInv, NEW r \in Requests, NEW q, req' = [req EXCEPT ![r] = q],
           DOMAIN q = Fields, Told(q, Stored'), Stored \subseteq Stored'
    PROVE  ParseInv'
<1>1. /\ req'[r] = q /\ \A p \in Requests \ {r} : req'[p] = req[p]
      /\ req' = [p \in Requests |-> req'[p]]
    BY DEF ParseInv
<1>2. \A p \in Requests : DOMAIN req[p] = Fields /\ Told(req[p], Stored')
    BY DEF ParseInv, Told
<1>3. \A p \in Requests : p = r \/ p \in Requests \ {r}
    OBVIOUS
<1> QED
    BY <1>1, <1>2, <1>3 DEF ParseInv

(* A step in which a request claims what it has claimed before, and the    *)
(* lexicon is left alone.                                                  *)
LEMMA SilentStep ==
    ASSUME ParseInv, NEW r \in Requests, NEW q, req' = [req EXCEPT ![r] = q],
           UNCHANGED lexicon, DOMAIN q = Fields, req[r].pc # "insert",
           q.known = req[r].known, q.added = req[r].added, q.existed = req[r].existed
    PROVE  ParseInv'
<1>1. Stored' = Stored
    BY DEF Stored
<1>2. Told(req[r], Stored)
    BY DEF ParseInv
<1>3. Told(q, Stored)
    BY <1>2 DEF Told
<1> QED
    BY <1>1, <1>3, RequestStep

LEMMA OverKeepsInv ==
    ASSUME ParseInv, NEW r \in Requests, NEW how, Over(r, how), Stored \subseteq Stored'
    PROVE  ParseInv'
BY NothingClaimed, RequestStep DEF Over

(* The steps of a request that tell it nothing of the lexicon. *)
LEMMA SilentStepsKeepInv ==
    ASSUME ParseInv, NEW r \in Requests,
           \/ Intake(r) \/ Tokenize(r) \/ TokenizeFails(r) \/ PopLastDoc(r) \/ CacheDoc(r)
           \/ Enqueue(r) \/ SecondPass(r) \/ NoSecondPass(r) \/ ThirdPass(r)
           \/ NoThirdPass(r) \/ UpsertMwes(r)
    PROVE  ParseInv'
<1>1. UNCHANGED lexicon /\ req[r].pc # "insert"
    BY DEF Intake, Tokenize, TokenizeFails, PopLastDoc, CacheDoc, Enqueue, SecondPass,
           NoSecondPass, ThirdPass, NoThirdPass, UpsertMwes, store, At
<1>2. DOMAIN req[r] = Fields /\ req = [p \in Requests |-> req[p]]
    BY DEF ParseInv
<1>3. SUFFICES \E q : /\ req' = [req EXCEPT ![r] = q] /\ DOMAIN q = Fields
                      /\ q.known = req[r].known /\ q.added = req[r].added
                      /\ q.existed = req[r].existed
    BY <1>1, SilentStep
<1>4. CASE Intake(r) \/ TokenizeFails(r) \/ NoThirdPass(r) \/ UpsertMwes(r)
    <2>1. PICK label : req' = [req EXCEPT ![r].pc = label]
        BY <1>4 DEF Intake, TokenizeFails, NoThirdPass, UpsertMwes, Goto
    <2> DEFINE q == [req[r] EXCEPT !.pc = label]
    <2>2. req' = [req EXCEPT ![r] = q]
        BY <2>1
    <2>3. /\ DOMAIN q = Fields /\ q.known = req[r].known /\ q.added = req[r].added
          /\ q.existed = req[r].existed
        BY <1>2 DEF Fields
    <2> QED
        BY <2>2, <2>3
<1>5. CASE Tokenize(r)
    <2>1. PICK whole : req' = [req EXCEPT ![r].pc = "pop", ![r].found = Tokens[TextOf[r]],
                                          ![r].cacheable = whole]
        BY <1>5 DEF Tokenize
    <2> DEFINE q == [req[r] EXCEPT !.pc = "pop", !.found = Tokens[TextOf[r]],
                                   !.cacheable = whole]
    <2>2. req' = [req EXCEPT ![r] = q]
        BY <2>1
    <2>3. /\ DOMAIN q = Fields /\ q.known = req[r].known /\ q.added = req[r].added
          /\ q.existed = req[r].existed
        BY <1>2 DEF Fields
    <2> QED
        BY <2>2, <2>3
<1>6. CASE PopLastDoc(r) \/ CacheDoc(r)
    <2>1. \/ req' = [req EXCEPT ![r].pc = "stages", ![r].doc = lastDoc]
          \/ req' = [req EXCEPT ![r].pc = "index", ![r].doc = None, ![r].cacheable = FALSE]
        BY <1>6 DEF PopLastDoc, CacheDoc
    <2> DEFINE q1 == [req[r] EXCEPT !.pc = "stages", !.doc = lastDoc]
               q2 == [req[r] EXCEPT !.pc = "index", !.doc = None, !.cacheable = FALSE]
    <2>2. req' = [req EXCEPT ![r] = q1] \/ req' = [req EXCEPT ![r] = q2]
        BY <2>1
    <2>3. /\ DOMAIN q1 = Fields /\ q1.known = req[r].known /\ q1.added = req[r].added
          /\ q1.existed = req[r].existed
        BY <1>2 DEF Fields
    <2>4. /\ DOMAIN q2 = Fields /\ q2.known = req[r].known /\ q2.added = req[r].added
          /\ q2.existed = req[r].existed
        BY <1>2 DEF Fields
    <2> HIDE DEF q1, q2
    <2> QED
        BY <2>2, <2>3, <2>4
<1>7. CASE Enqueue(r)
    <2>1. PICK label, seen, queued, troubles :
              req' = [req EXCEPT ![r].pc = label, ![r].seen = seen, ![r].queued = queued,
                                 ![r].troubles = troubles]
        BY <1>7 DEF Enqueue
    <2> DEFINE q == [req[r] EXCEPT !.pc = label, !.seen = seen, !.queued = queued,
                                   !.troubles = troubles]
    <2>2. req' = [req EXCEPT ![r] = q]
        BY <2>1
    <2>3. /\ DOMAIN q = Fields /\ q.known = req[r].known /\ q.added = req[r].added
          /\ q.existed = req[r].existed
        BY <1>2 DEF Fields
    <2> QED
        BY <2>2, <2>3
<1>8. CASE SecondPass(r)
    <2>1. PICK found, readings, llm :
              req' = [req EXCEPT
                  ![r].pc = IF req[r].sync /\ Accepted(found) # <<>> THEN "sync" ELSE "policy",
                  ![r].pass = 2, ![r].found = found,
                  ![r].allowed = llm /\ ValidationAllows(found, readings)]
        BY <1>8, Zenon DEF SecondPass
    <2> DEFINE label == IF req[r].sync /\ Accepted(found) # <<>> THEN "sync" ELSE "policy"
               allowed == llm /\ ValidationAllows(found, readings)
    <2> DEFINE q == [req[r] EXCEPT !.pc = label, !.pass = 2, !.found = found,
                                   !.allowed = allowed]
    <2>2. req' = [req EXCEPT ![r] = q]
        BY <2>1
    <2>3. /\ DOMAIN q = Fields /\ q.known = req[r].known /\ q.added = req[r].added
          /\ q.existed = req[r].existed
        BY <1>2 DEF Fields
    <2> QED
        BY <2>2, <2>3
<1>9. CASE NoSecondPass(r)
    <2> DEFINE q == [req[r] EXCEPT !.pc = "policy", !.found = <<>>]
    <2>1. req' = [req EXCEPT ![r].pc = "policy", ![r].found = <<>>]
        BY <1>9 DEF NoSecondPass
    <2>2. req' = [req EXCEPT ![r] = q]
        BY <2>1
    <2>3. /\ DOMAIN q = Fields /\ q.known = req[r].known /\ q.added = req[r].added
          /\ q.existed = req[r].existed
        BY <1>2 DEF Fields
    <2> QED
        BY <2>2, <2>3
<1>10. CASE ThirdPass(r)
    <2>1. PICK label, found :
              req' = [req EXCEPT ![r].pc = label, ![r].pass = 3, ![r].found = found]
        BY <1>10 DEF ThirdPass
    <2> DEFINE q == [req[r] EXCEPT !.pc = label, !.pass = 3, !.found = found]
    <2>2. req' = [req EXCEPT ![r] = q]
        BY <2>1
    <2>3. /\ DOMAIN q = Fields /\ q.known = req[r].known /\ q.added = req[r].added
          /\ q.existed = req[r].existed
        BY <1>2 DEF Fields
    <2> QED
        BY <2>2, <2>3
<1> QED
    BY <1>4, <1>5, <1>6, <1>7, <1>8, <1>9, <1>10

-----------------------------------------------------------------------------
(* The steps that learn of the lexicon, or add to it                       *)

LEMMA LoadIndexKeepsInv ==
    ASSUME ParseInv, NEW r \in Requests, LoadIndex(r)
    PROVE  ParseInv'
<1>1. UNCHANGED lexicon /\ DOMAIN req[r] = Fields /\ Told(req[r], Stored)
    BY DEF LoadIndex, store, ParseInv
<1>2. PICK label, sync, known :
          /\ req' = [req EXCEPT ![r].pc = label, ![r].sync = sync, ![r].known = known]
          /\ label # "insert" /\ known \in {Index, NoIndex}
    BY DEF LoadIndex
<1>3. known.words \subseteq Stored
    BY <1>2 DEF Index, NoIndex, Visible, Stored, WordsOf
<1> DEFINE q == [req[r] EXCEPT !.pc = label, !.sync = sync, !.known = known]
<1>4. req' = [req EXCEPT ![r] = q]
    BY <1>2
<1>5. /\ DOMAIN q = Fields /\ q.pc = label /\ q.known = known
      /\ q.added = req[r].added /\ q.existed = req[r].existed
    BY <1>1 DEF Fields
<1> HIDE DEF q
<1>6. Told(q, Stored) /\ Stored' = Stored
    BY <1>1, <1>2, <1>3, <1>5 DEF Told, Stored
<1> QED
    BY <1>4, <1>5, <1>6, RequestStep

(* A candidate that is not new is one of the index. *)
LEMMA OldIsKnown ==
    ASSUME NEW cs, NEW known
    PROVE  WordsOf(cs) \ WordsOf(Fresh(cs, known)) \subseteq known.words
<1> SUFFICES ASSUME NEW c \in cs, c.word \notin known.words
             PROVE  c.word \in WordsOf(Fresh(cs, known))
    BY DEF WordsOf
<1>1. Resolved(c, known.categories) \in Fresh(cs, known)
    BY DEF Fresh
<1>2. Resolved(c, known.categories).word = c.word
    BY DEF Resolved
<1> QED
    BY <1>1, <1>2 DEF WordsOf

LEMMA ChooseKeepsInv ==
    ASSUME ParseInv, NEW r \in Requests, Choose(r)
    PROVE  ParseInv'
<1>1. /\ UNCHANGED lexicon /\ DOMAIN req[r] = Fields /\ Told(req[r], Stored)
      /\ req[r].pc = "sync"
    BY DEF Choose, ParseInv, At
<1> DEFINE cs == Accepted(req[r].found)
           Reached(n) == Elements(SubSeq(cs, 1, n))
           New(n) == Fresh(Reached(n), req[r].known)
<1>2. PICK n \in 0..Len(cs) :
          req' = [req EXCEPT
               ![r].pc = IF New(n) = {} THEN AfterSync(req[r].pass) ELSE "insert",
               ![r].plan = New(n),
               ![r].known = Learned(req[r].known, New(n)),
               ![r].existed = @ \union (WordsOf(Reached(n)) \ WordsOf(New(n))),
               ![r].seen = @ \union WordsOf(Elements(cs)),
               ![r].troubles = @ \union TimedOut(n, cs)]
    BY Zenon DEF Choose
<1> DEFINE reached == Reached(n)
           new == New(n)
           label == IF new = {} THEN AfterSync(req[r].pass) ELSE "insert"
           seen == req[r].seen \union WordsOf(Elements(cs))
           troubles == req[r].troubles \union TimedOut(n, cs)
<1> DEFINE q == [req[r] EXCEPT
               !.pc = label, !.plan = new, !.known = Learned(req[r].known, new),
               !.existed = req[r].existed \union (WordsOf(reached) \ WordsOf(new)),
               !.seen = seen, !.troubles = troubles]
<1>3. req' = [req EXCEPT ![r] = q]
    BY <1>2
<1>4. /\ new = Fresh(reached, req[r].known)
      /\ label = "insert" \/ new = {}
    OBVIOUS
<1> HIDE DEF reached, new, label, seen, troubles
<1>5. /\ DOMAIN q = Fields /\ q.pc = label /\ q.plan = new
      /\ q.known = Learned(req[r].known, new) /\ q.added = req[r].added
      /\ q.existed = req[r].existed \union (WordsOf(reached) \ WordsOf(new))
    BY <1>1 DEF Fields
<1> HIDE DEF q
<1>6. req[r].known.words \subseteq Stored /\ req[r].added \union req[r].existed \subseteq Stored
    BY <1>1 DEF Told
<1>7. WordsOf(reached) \ WordsOf(new) \subseteq Stored
    <2>1. WordsOf(reached) \ WordsOf(Fresh(reached, req[r].known)) \subseteq req[r].known.words
        BY OldIsKnown
    <2> QED
        BY <1>4, <1>6, <2>1
<1>8. q.known.words = req[r].known.words \union WordsOf(new)
    BY <1>5 DEF Learned
<1>9. new = {} => WordsOf(new) = {}
    BY DEF WordsOf
<1>10. Told(q, Stored) /\ Stored' = Stored
    BY <1>1, <1>4, <1>5, <1>6, <1>7, <1>8, <1>9 DEF Told, Stored
<1> QED
    BY <1>3, <1>5, <1>10, RequestStep

LEMMA InsertKeepsInv ==
    ASSUME ParseInv, NEW r \in Requests, Insert(r)
    PROVE  ParseInv'
<1>1. /\ DOMAIN req[r] = Fields /\ Told(req[r], Stored) /\ req[r].pc = "insert"
      /\ Adds(req[r].plan, r)
    BY DEF Insert, ParseInv, At
<1>2. Stored \subseteq Stored' /\ WordsOf(req[r].plan) \subseteq Stored'
    BY <1>1, AddedIsStored
<1>3. PICK label :
          req' = [req EXCEPT ![r].pc = label, ![r].plan = {},
                             ![r].added = req[r].added \union WordsOf(req[r].plan)]
    BY DEF Insert
<1> DEFINE q == [req[r] EXCEPT !.pc = label, !.plan = {},
                               !.added = req[r].added \union WordsOf(req[r].plan)]
<1>4. req' = [req EXCEPT ![r] = q]
    BY <1>3
<1>5. /\ DOMAIN q = Fields /\ q.known = req[r].known /\ q.existed = req[r].existed
      /\ q.added = req[r].added \union WordsOf(req[r].plan)
    BY <1>1 DEF Fields
<1> HIDE DEF q
<1>6. Told(q, Stored')
    BY <1>1, <1>2, <1>5 DEF Told
<1> QED
    BY <1>2, <1>4, <1>5, <1>6, RequestStep

(* The worker only adds. *)
LEMMA WorkerKeepsInv ==
    ASSUME ParseInv, Worker
    PROVE  ParseInv'
<1>1. UNCHANGED req
    BY DEF Worker, WorkerTakes, WorkerFails, WorkerAdds
<1>2. Stored \subseteq Stored'
    <2>1. UNCHANGED lexicon \/ \E n \in 0..Len(job.items) : WorkerReaches(n)
        BY DEF Worker, WorkerTakes, WorkerFails, WorkerAdds, store
    <2> QED
        BY <2>1, AddedIsStored DEF WorkerReaches, Stored
<1> QED
    BY <1>1, <1>2, TruthRemains

LEMMA ParseStep == ParseInv /\ [Next]_vars => ParseInv'
<1> SUFFICES ASSUME ParseInv, [Next]_vars PROVE ParseInv'
    OBVIOUS
<1>1. CASE Worker
    BY <1>1, WorkerKeepsInv
<1>2. ASSUME NEW r \in Requests, Parse(r) PROVE ParseInv'
    <2>1. CASE Refused(r) \/ IntakeFails(r) \/ InsertFails(r) \/ Release(r)
        <3>1. PICK how : Over(r, how)
            BY <2>1 DEF Refused, IntakeFails, InsertFails, Release
        <3>2. UNCHANGED lexicon \/ Adds(req[r].plan, r)
            BY <2>1 DEF Refused, IntakeFails, InsertFails, Release, store
        <3>3. Stored \subseteq Stored'
            BY <3>2, AddedIsStored DEF Stored
        <3> QED
            BY <3>1, <3>3, OverKeepsInv
    <2>2. CASE LoadIndex(r) \/ Choose(r) \/ Insert(r)
        BY <2>2, LoadIndexKeepsInv, ChooseKeepsInv, InsertKeepsInv
    <2> QED
        BY <1>2, <2>1, <2>2, SilentStepsKeepInv DEF Parse
<1>3. CASE UNCHANGED vars
    BY <1>3, TruthRemains DEF vars, store, Stored
<1>4. CASE Reject
    BY <1>4, TruthRemains DEF Reject, Stored
<1> QED
    BY <1>1, <1>2, <1>3, <1>4 DEF Next

(* What a parse reports as added, or as already there, is in the lexicon,  *)
(* for any number of parses, whatever failed and whatever index they had.  *)
THEOREM SpecReportedIsStored == Spec => []ReportedIsStored
<1>1. ParseInv => ReportedIsStored
    BY DEF ParseInv, Told, ReportedIsStored
<1> QED
    BY ParseInit, ParseStep, <1>1, PTL DEF Spec

-----------------------------------------------------------------------------
(* The passes of a parse                                                   *)
(*                                                                         *)
(* Three more properties rest on what a request remembers from pass to     *)
(* pass: its candidates are all accounted for (NothingUnaccounted), its    *)
(* entries do not contradict each other (SecondCategoryIsExplained), and its   *)
(* document is kept no longer than it is wanted (DocsAreReleased).         *)

(* A step that has not yet asked for the index. *)
Early == {"new", "tokenize", "pop", "stages", "index"}

Distinct(S) == \A c, d \in S : c.word = d.word => c = d

(* A list of candidates to add: no word twice. *)
Batch(s) == s \in Seq(Candidates) /\ Distinct(Elements(s))

Shape(q) ==
    /\ q.pc \in InExecute \union {"new", "answered", "raised"}
    /\ q.pass \in 1..3
    /\ q.doc \in Texts \union {None}
    /\ Batch(q.found)

(* The words of an insert that is still to come are accounted for by it. *)
Accounted(q) ==
    \/ q.troubles # {}
    \/ q.seen \subseteq q.added \union q.existed \union q.queued
                        \union (IF q.pc = "insert" THEN WordsOf(q.plan) ELSE {})

(* What request r may have in the lexicon: it knows its own entries, and   *)
(* is about to add none of their words again.                              *)
OwnEntries(r, q, entries) ==
    /\ q.pc = "insert" =>
         /\ ~settings.async /\ Distinct(q.plan)
         /\ WordsOf(q.plan) \subseteq q.known.words
    /\ \A e \in entries :
         e.by = r /\ ~settings.async =>
             /\ q.pc \notin Early
             /\ q.pc \in InExecute => e.word \in q.known.words
             /\ q.pc = "insert" => e.word \notin WordsOf(q.plan)

Good(r, q, entries) == Shape(q) /\ Accounted(q) /\ OwnEntries(r, q, entries)

RequestsOK ==
    /\ req = [r \in Requests |-> req[r]]
    /\ \A r \in Requests : DOMAIN req[r] = Fields /\ Good(r, req[r], lexicon)

(* Only the worker adds when syncs are asynchronous, and nobody else then: *)
(* the index it loaded has all that is not rejected.                       *)
QueueOK ==
    /\ queue \in Seq([by : Requests, items : Seq(Candidates)])
    /\ \A n \in DOMAIN queue : Distinct(Elements(queue[n].items))
    /\ job # None => Batch(job.items) /\ WordsOf(Visible) \subseteq job.known.words
    /\ ~settings.async => queue = <<>> /\ job = None

DocsOK ==
    /\ lastDoc \in Texts \union {None}
    /\ docs \in Seq([by : Requests, text : Texts, doc : Texts])

PassInv == RequestsOK /\ QueueOK /\ DocsOK /\ DocsAreReleased /\ SecondCategoryIsExplained

-----------------------------------------------------------------------------
(* Selections of a sequence                                                *)

(* Induction over a set of numbers, rather than over a predicate. *)
LEMMA SetInduction ==
    ASSUME NEW S, 0 \in S, \A n \in Nat : n \in S => n + 1 \in S
    PROVE  \A n \in Nat : n \in S
<1> SUFFICES ASSUME Nat \ S # {} PROVE FALSE
    OBVIOUS
<1> DEFINE T == Nat \ S
           R == OpToRel(<, Nat)
<1>1. IsWellFoundedOn(R, Nat)
    BY NatLessThanWellFounded
<1>2. T \subseteq Nat /\ T # {}
    OBVIOUS
<1> HIDE DEF T, R
<1>3. PICK x \in T : \A y \in T : ~ (<<y, x>> \in R)
    BY <1>1, <1>2, WFMin
<1>4. \A y \in T : ~(y < x)
    BY <1>2, <1>3 DEF R, OpToRel
<1> QED
    BY <1>2, <1>3, <1>4 DEF T

Selects(f, s, I, N) ==
    f = [n \in 0..N |->
            IF n = 0 THEN <<>>
            ELSE IF n \in I THEN Append(f[n - 1], s[n]) ELSE f[n - 1]]

(* The recursion that defines Only has a solution. *)
LEMMA SelectionExists ==
    ASSUME NEW s, NEW I
    PROVE  \A N \in Nat : \E f : Selects(f, s, I, N)
<1> DEFINE S == {N \in Nat : \E f : Selects(f, s, I, N)}
<1>1. 0 \in S
    <2> DEFINE f == [n \in 0..0 |-> <<>>]
    <2>1. Selects(f, s, I, 0)
        BY DEF Selects
    <2> QED
        BY <2>1
<1>2. ASSUME NEW N \in Nat, N \in S
      PROVE  N + 1 \in S
    <2>1. PICK f : Selects(f, s, I, N)
        BY <1>2
    <2> DEFINE last == IF N + 1 \in I THEN Append(f[N], s[N + 1]) ELSE f[N]
    <2> DEFINE g == [n \in 0..(N + 1) |-> IF n = N + 1 THEN last ELSE f[n]]
               h == [n \in 0..(N + 1) |->
                        IF n = 0 THEN <<>>
                        ELSE IF n \in I THEN Append(g[n - 1], s[n]) ELSE g[n - 1]]
    <2>2. \A n \in 0..N : g[n] = f[n]
        OBVIOUS
    <2>3. \A n \in 0..N :
              f[n] = IF n = 0 THEN <<>>
                     ELSE IF n \in I THEN Append(f[n - 1], s[n]) ELSE f[n - 1]
        BY <2>1 DEF Selects
    <2>4. g[N + 1] = last
        OBVIOUS
    <2>5. ASSUME NEW n \in 0..(N + 1)
          PROVE  g[n] = h[n]
        <3>1. CASE n = N + 1
            BY <2>2, <2>4, <3>1
        <3>2. CASE n \in 0..N /\ n # 0
            <4>1. n - 1 \in 0..N
                BY <3>2
            <4> QED
                BY <2>2, <2>3, <3>2, <4>1
        <3>3. CASE n = 0
            BY <2>2, <2>3, <3>3
        <3> QED
            BY <3>1, <3>2, <3>3
    <2>6. g = h
        BY <2>5
    <2>7. Selects(g, s, I, N + 1)
        BY <2>6 DEF Selects
    <2> QED
        BY <2>7
<1> HIDE DEF S
<1>3. \A N \in Nat : N \in S
    BY <1>1, <1>2, SetInduction
<1> QED
    BY <1>3 DEF S

(* A selection is made of elements of the sequence, in their order. *)
InOrder(t, s, I, N) ==
    \E m \in [1..Len(t) -> I \intersect (1..N)] :
        /\ \A k \in 1..Len(t) : t[k] = s[m[k]]
        /\ \A j, k \in 1..Len(t) : j < k => m[j] < m[k]

LEMMA OnlySelects ==
    ASSUME NEW S, NEW s \in Seq(S), NEW I
    PROVE  /\ Only(s, I) \in Seq(S)
           /\ Len(Only(s, I)) <= Len(s)
           /\ InOrder(Only(s, I), s, I, Len(s))
<1> DEFINE N == Len(s)
<1>1. N \in Nat /\ \A k \in 1..N : s[k] \in S
    OBVIOUS
<1>2. PICK g : Selects(g, s, I, N)
    BY <1>1, SelectionExists
<1> DEFINE f == CHOOSE f : Selects(f, s, I, N)
<1>3. Selects(f, s, I, N)
    BY <1>2
<1>4. Only(s, I) = f[N]
    BY DEF Only, Selects
<1> HIDE DEF f, N
<1>5. \A n \in 0..N :
          f[n] = IF n = 0 THEN <<>>
                 ELSE IF n \in I THEN Append(f[n - 1], s[n]) ELSE f[n - 1]
    BY <1>3 DEF Selects
<1> DEFINE Right(n) == f[n] \in Seq(S) /\ Len(f[n]) <= n /\ InOrder(f[n], s, I, n)
           T == {n \in Nat : n <= N => Right(n)}
<1>6. 0 \in T
    <2>1. f[0] = <<>>
        <3>1. 0 \in 0..N
            BY <1>1
        <3> QED
            BY <1>5, <3>1
    <2>2. InOrder(<<>>, s, I, 0)
        <3> DEFINE m == [k \in {} |-> k]
        <3>1. m \in [1..Len(<<>>) -> I \intersect (1..0)]
            OBVIOUS
        <3> QED
            BY <3>1 DEF InOrder
    <2>3. f[0] \in Seq(S) /\ Len(f[0]) <= 0
        BY <2>1
    <2> QED
        BY <2>1, <2>2, <2>3
<1>7. ASSUME NEW n \in Nat, n \in T
      PROVE  n + 1 \in T
    <2> SUFFICES ASSUME n + 1 <= N PROVE Right(n + 1)
        OBVIOUS
    <2>1. Right(n)
        BY <1>1, <1>7
    <2>2. n + 1 \in 0..N /\ (n + 1) - 1 = n /\ n + 1 # 0
        BY <1>1
    <2>3. f[n + 1] = IF n + 1 \in I THEN Append(f[n], s[n + 1]) ELSE f[n]
        BY <1>5, <2>2
    <2>4. PICK t \in Seq(S) : t = f[n]
        BY <2>1
    <2>5. Len(t) \in Nat /\ Len(t) <= n /\ InOrder(t, s, I, n)
        BY <2>1, <2>4
    <2>6. PICK m \in [1..Len(t) -> I \intersect (1..n)] :
              /\ \A k \in 1..Len(t) : t[k] = s[m[k]]
              /\ \A j, k \in 1..Len(t) : j < k => m[j] < m[k]
        BY <2>5 DEF InOrder
    <2>7. CASE n + 1 \notin I
        <3>1. m \in [1..Len(t) -> I \intersect (1..(n + 1))]
            BY <2>6
        <3>2. InOrder(t, s, I, n + 1)
            BY <2>6, <3>1 DEF InOrder
        <3> QED
            BY <2>3, <2>4, <2>5, <2>7, <3>2
    <2>8. CASE n + 1 \in I
        <3>1. s[n + 1] \in S
            BY <1>1
        <3>2. PICK c \in S : c = s[n + 1]
            BY <3>1
        <3> DEFINE u == Append(t, c)
        <3>3. /\ u \in Seq(S) /\ Len(u) = Len(t) + 1 /\ u[Len(t) + 1] = s[n + 1]
              /\ \A k \in 1..Len(t) : u[k] = t[k]
            BY <3>2
        <3>4. f[n + 1] = u
            BY <2>3, <2>4, <2>8, <3>2
        <3> HIDE DEF u
        <3> DEFINE w == [k \in 1..Len(u) |-> IF k = Len(t) + 1 THEN n + 1 ELSE m[k]]
        <3>5. w \in [1..Len(u) -> I \intersect (1..(n + 1))]
            BY <2>5, <2>6, <2>8, <3>3
        <3>6. \A k \in 1..Len(u) : u[k] = s[w[k]]
            BY <2>5, <2>6, <3>3
        <3>7. \A j, k \in 1..Len(u) : j < k => w[j] < w[k]
            <4> SUFFICES ASSUME NEW j \in 1..Len(u), NEW k \in 1..Len(u), j < k
                         PROVE  w[j] < w[k]
                OBVIOUS
            <4>1. j \in 1..Len(t) /\ w[j] = m[j] /\ m[j] \in 1..n
                BY <2>5, <2>6, <3>3
            <4>2. CASE k = Len(t) + 1
                BY <4>1, <4>2
            <4>3. CASE k # Len(t) + 1
                <5>1. k \in 1..Len(t)
                    <6>1. Len(t) \in Nat /\ Len(u) = Len(t) + 1
                        BY <2>5, <3>3
                    <6> QED
                        BY <4>3, <6>1
                <5>2. w[k] = m[k]
                    BY <4>3
                <5> QED
                    BY <2>6, <4>1, <5>1, <5>2
            <4> QED
                BY <4>2, <4>3
        <3> HIDE DEF w
        <3>8. InOrder(u, s, I, n + 1)
            BY <3>5, <3>6, <3>7 DEF InOrder
        <3> QED
            BY <2>5, <3>3, <3>4, <3>8
    <2> QED
        BY <2>7, <2>8
<1> HIDE DEF T
<1>8. \A n \in Nat : n \in T
    BY <1>6, <1>7, SetInduction
<1>9. Right(N)
    BY <1>1, <1>8 DEF T
<1> QED
    BY <1>4, <1>9 DEF N

LEMMA SelectedElements ==
    ASSUME NEW S, NEW s \in Seq(S), NEW I
    PROVE  Elements(Only(s, I)) \subseteq {s[n] : n \in I \intersect (1..Len(s))}
<1> DEFINE t == Only(s, I)
<1>1. t \in Seq(S) /\ InOrder(t, s, I, Len(s))
    BY OnlySelects
<1> HIDE DEF t
<1>2. PICK m \in [1..Len(t) -> I \intersect (1..Len(s))] : \A k \in 1..Len(t) : t[k] = s[m[k]]
    BY <1>1 DEF InOrder
<1>3. DOMAIN t = 1..Len(t)
    BY <1>1
<1>4. Elements(t) \subseteq {s[n] : n \in I \intersect (1..Len(s))}
    BY <1>2, <1>3 DEF Elements
<1> QED
    BY <1>4 DEF t

LEMMA BatchOfSome ==
    ASSUME NEW s, Batch(s), NEW I
    PROVE  Batch(Only(s, I))
<1>1. s \in Seq(Candidates) /\ DOMAIN s = 1..Len(s)
    BY DEF Batch
<1>2. Only(s, I) \in Seq(Candidates)
    BY <1>1, OnlySelects
<1>3. Elements(Only(s, I)) \subseteq {s[n] : n \in I \intersect (1..Len(s))}
    BY <1>1, SelectedElements
<1>4. Elements(Only(s, I)) \subseteq Elements(s)
    BY <1>1, <1>3 DEF Elements
<1>5. Distinct(Elements(Only(s, I)))
    BY <1>4 DEF Batch, Distinct
<1> QED
    BY <1>2, <1>5 DEF Batch

LEMMA TextsAreBatches ==
    ASSUME NEW t \in Texts
    PROVE  Batch(Tokens[t]) /\ Batch(Expressions[t])
BY CandidatesAreUnique DEF Batch, Distinct, Elements

LEMMA ShortBatches ==
    /\ Batch(<<>>)
    /\ \A c \in Candidates : Batch(<<c>>)
<1>1. Batch(<<>>)
    BY DEF Batch, Distinct, Elements
<1>2. ASSUME NEW c \in Candidates PROVE Batch(<<c>>)
    <2>1. <<c>> \in Seq(Candidates) /\ \A n \in DOMAIN <<c>> : <<c>>[n] = c
        OBVIOUS
    <2>2. Distinct(Elements(<<c>>))
        BY <2>1 DEF Distinct, Elements
    <2> QED
        BY <2>1, <2>2 DEF Batch
<1> QED
    BY <1>1, <1>2

LEMMA AcceptedIsBatch ==
    ASSUME NEW s, Batch(s)
    PROVE  Batch(Accepted(s))
BY BatchOfSome DEF Accepted

LEMMA DetectedIsBatch ==
    ASSUME NEW t \in Texts
    PROVE  Batch(Detected(t))
BY BatchOfSome, TextsAreBatches DEF Detected

(* Without the document of r, each of the others is kept once. *)
OneEach(s) == \A m, n \in DOMAIN s : s[m].by = s[n].by => m = n

LEMMA OthersStay ==
    ASSUME NEW r, DocsOK, OneEach(docs)
    PROVE  /\ OthersDocs(r) \in Seq([by : Requests, text : Texts, doc : Texts])
           /\ Len(OthersDocs(r)) <= Len(docs)
           /\ OneEach(OthersDocs(r))
           /\ \A d \in Elements(OthersDocs(r)) : d \in Elements(docs) /\ d.by # r
<1> DEFINE I == {n \in DOMAIN docs : docs[n].by # r}
           t == Only(docs, I)
           S == [by : Requests, text : Texts, doc : Texts]
<1>1. docs \in Seq(S)
    BY DEF DocsOK
<1>2. t \in Seq(S) /\ Len(t) <= Len(docs) /\ InOrder(t, docs, I, Len(docs))
    BY <1>1, OnlySelects
<1>3. t = OthersDocs(r)
    BY DEF OthersDocs
<1>4. DOMAIN docs = 1..Len(docs)
    BY <1>1
<1> HIDE DEF t
<1>5. PICK m \in [1..Len(t) -> I \intersect (1..Len(docs))] :
          /\ \A k \in 1..Len(t) : t[k] = docs[m[k]]
          /\ \A j, k \in 1..Len(t) : j < k => m[j] < m[k]
    BY <1>2 DEF InOrder
<1>6. Len(t) \in Nat /\ Len(docs) \in Nat /\ DOMAIN t = 1..Len(t)
    BY <1>1, <1>2
<1>7. \A k \in 1..Len(t) : m[k] \in 1..Len(docs) /\ docs[m[k]].by # r
    BY <1>5
<1>8. OneEach(t)
    <2> SUFFICES ASSUME NEW j \in 1..Len(t), NEW k \in 1..Len(t), t[j].by = t[k].by
                 PROVE  j = k
        BY <1>6 DEF OneEach
    <2>1. m[j] \in 1..Len(docs) /\ m[k] \in 1..Len(docs)
        BY <1>7
    <2>2. m[j] = m[k]
        BY <1>4, <1>5, <2>1 DEF OneEach
    <2>3. ~(j < k) /\ ~(k < j)
        BY <1>5, <1>6, <2>1, <2>2
    <2> QED
        BY <1>6, <2>3
<1>9. \A d \in Elements(t) : d \in Elements(docs) /\ d.by # r
    BY <1>4, <1>5, <1>6, <1>7 DEF Elements
<1> QED
    BY <1>2, <1>3, <1>8, <1>9

-----------------------------------------------------------------------------
(* What a step of one request has to show                                  *)

LEMMA RequestsOKStep ==
    ASSUME RequestsOK, NEW r \in Requests, NEW q, req' = [req EXCEPT ![r] = q],
           UNCHANGED settings, DOMAIN q = Fields, Good(r, q, lexicon'),
           \A e \in lexicon' : e \in lexicon \/ e.by = r
    PROVE  RequestsOK'
<1>1. /\ req'[r] = q /\ \A p \in Requests \ {r} : req'[p] = req[p]
      /\ req' = [p \in Requests |-> req'[p]]
    BY DEF RequestsOK
<1>2. ASSUME NEW p \in Requests \ {r}
      PROVE  DOMAIN req[p] = Fields /\ Good(p, req[p], lexicon')
    <2>1. Shape(req[p]) /\ Accounted(req[p]) /\ OwnEntries(p, req[p], lexicon)
        BY DEF RequestsOK, Good
    <2>2. OwnEntries(p, req[p], lexicon')
        BY <2>1 DEF OwnEntries
    <2> QED
        BY <2>1, <2>2 DEF Good, RequestsOK
<1>3. \A p \in Requests : DOMAIN req'[p] = Fields /\ Good(p, req'[p], lexicon')
    BY <1>1, <1>2
<1> QED
    BY <1>1, <1>3 DEF RequestsOK, Good, OwnEntries, Accounted, Shape

(* Documents in their state after a step of r that leaves it at pc. *)
DocsMove(r, pc) ==
    \/ docs' = docs /\ pc \in InExecute \union {"raised"}
    \/ docs' = OthersDocs(r)
    \/ /\ pc \in InExecute
       /\ \E t \in Texts : docs' = Kept(r, t)

LEMMA LastOnes ==
    ASSUME NEW S, NEW s \in Seq(S), NEW m \in 1..Len(s)
    PROVE  /\ SubSeq(s, m, Len(s)) \in Seq(S)
           /\ Len(SubSeq(s, m, Len(s))) = Len(s) - m + 1
           /\ \A n \in 1..(Len(s) - m + 1) : SubSeq(s, m, Len(s))[n] = s[n + m - 1]
<1>1. Len(s) \in Nat /\ m \in Nat /\ m <= Len(s) /\ m >= 1
    OBVIOUS
<1>2. \A i \in m..Len(s) : s[i] \in S
    <2>1. \A i \in m..Len(s) : i \in 1..Len(s)
        BY <1>1
    <2> QED
        BY <2>1
<1> QED
    BY <1>1, <1>2

(* _cache_request_doc stays within the limit. *)
LEMMA KeptWithinLimit ==
    ASSUME NEW r \in Requests, NEW t \in Texts, DocsOK, DocsAreReleased
    PROVE  /\ Kept(r, t) \in Seq([by : Requests, text : Texts, doc : Texts])
           /\ Len(Kept(r, t)) <= MaxDocs
           /\ OneEach(Kept(r, t))
           /\ \A d \in Elements(Kept(r, t)) : d.by = r \/ d \in Elements(docs)
<1> DEFINE S == [by : Requests, text : Texts, doc : Texts]
<1>1. OneEach(docs)
    BY DEF DocsAreReleased, OneEach
<1>2. PICK others \in Seq(S) : others = OthersDocs(r)
    BY <1>1, OthersStay
<1>3. /\ OneEach(others)
      /\ \A d \in Elements(others) : d \in Elements(docs) /\ d.by # r
    BY <1>1, <1>2, OthersStay
<1>4. PICK new \in S : new = [by |-> r, text |-> TextOf[r], doc |-> t]
    BY TextAssumption
<1> DEFINE all == Append(others, new)
           limit == IF Len(all) > MaxDocs THEN MaxDocs ELSE Len(all)
           kept == SubSeq(all, 1 + Len(all) - limit, Len(all))
<1>5. kept = Kept(r, t)
    BY <1>2, <1>4 DEF Kept
<1>6. /\ all \in Seq(S) /\ Len(all) = Len(others) + 1 /\ Len(others) \in Nat
      /\ \A n \in 1..Len(others) : all[n] = others[n]
      /\ all[Len(others) + 1] = new
    OBVIOUS
<1> HIDE DEF all
<1>7. limit \in 1..Len(all) /\ limit <= MaxDocs
    BY <1>6, BoundsAssumption
<1> HIDE DEF limit
<1>8. /\ kept \in Seq(S) /\ Len(kept) = limit
      /\ \A n \in 1..limit : kept[n] = all[n + (Len(all) - limit)]
    <2>1. 1 + Len(all) - limit \in 1..Len(all)
        BY <1>6, <1>7
    <2>2. PICK m \in Nat : m = 1 + Len(all) - limit
        BY <2>1
    <2>3. /\ SubSeq(all, m, Len(all)) \in Seq(S)
          /\ Len(SubSeq(all, m, Len(all))) = Len(all) - m + 1
          /\ \A n \in 1..(Len(all) - m + 1) : SubSeq(all, m, Len(all))[n] = all[n + m - 1]
        <3>1. m \in 1..Len(all)
            BY <2>1, <2>2
        <3> QED
            BY <1>6, <3>1, LastOnes
    <2>4. Len(all) - m + 1 = limit /\ \A n \in 1..limit : n + m - 1 = n + (Len(all) - limit)
        BY <1>6, <1>7, <2>2
    <2> QED
        BY <2>2, <2>3, <2>4
<1> HIDE DEF kept
<1>9. DOMAIN others = 1..Len(others) /\ DOMAIN kept = 1..limit
    BY <1>7, <1>8
<1>10. \A n \in 1..Len(others) : all[n] \in Elements(docs) /\ all[n].by # r
    BY <1>3, <1>6, <1>9 DEF Elements
<1>11. new.by = r
    BY <1>4
<1>12. ASSUME NEW m \in 1..Len(all), NEW n \in 1..Len(all), all[m].by = all[n].by
       PROVE  m = n
    <2>1. m \in 1..Len(others) \/ m = Len(others) + 1
        BY <1>6
    <2>2. n \in 1..Len(others) \/ n = Len(others) + 1
        BY <1>6
    <2>3. CASE m \in 1..Len(others) /\ n \in 1..Len(others)
        BY <1>3, <1>6, <1>9, <1>12, <2>3 DEF OneEach
    <2> QED
        BY <1>6, <1>10, <1>11, <1>12, <2>1, <2>2, <2>3
<1>13. OneEach(kept)
    <2> SUFFICES ASSUME NEW m \in 1..limit, NEW n \in 1..limit, kept[m].by = kept[n].by
                 PROVE  m = n
        BY <1>9 DEF OneEach
    <2>1. m + (Len(all) - limit) \in 1..Len(all) /\ n + (Len(all) - limit) \in 1..Len(all)
        BY <1>6, <1>7
    <2>2. m + (Len(all) - limit) = n + (Len(all) - limit)
        BY <1>8, <1>12, <2>1
    <2> QED
        BY <1>6, <1>7, <2>2
<1>14. ASSUME NEW n \in 1..limit
       PROVE  kept[n].by = r \/ kept[n] \in Elements(docs)
    <2>1. n + (Len(all) - limit) \in 1..Len(all) /\ kept[n] = all[n + (Len(all) - limit)]
        BY <1>6, <1>7, <1>8
    <2> QED
        BY <1>6, <1>10, <1>11, <2>1
<1>15. \A d \in Elements(kept) : d.by = r \/ d \in Elements(docs)
    BY <1>9, <1>14 DEF Elements
<1> QED
    BY <1>5, <1>7, <1>8, <1>13, <1>15

LEMMA DocsStep ==
    ASSUME RequestsOK, DocsOK, DocsAreReleased, NEW r \in Requests, NEW q,
           req' = [req EXCEPT ![r] = q], DocsMove(r, q.pc), lastDoc' \in Texts \union {None}
    PROVE  DocsOK' /\ DocsAreReleased'
<1> DEFINE S == [by : Requests, text : Texts, doc : Texts]
           Wanted(pc) == pc \in InExecute \union {"raised"}
<1>1. /\ req'[r] = q
      /\ \A p \in Requests : p # r => req'[p] = req[p]
    BY DEF RequestsOK
<1>2. docs \in Seq(S) /\ Len(docs) <= MaxDocs /\ OneEach(docs)
    BY DEF DocsOK, DocsAreReleased, OneEach
<1>3. \A d \in Elements(docs) : d.by \in Requests /\ Wanted(req[d.by].pc)
    <2>1. \A d \in Elements(docs) : d \in S
        <3> HIDE DEF S
        <3>1. DOMAIN docs = 1..Len(docs) /\ \A n \in 1..Len(docs) : docs[n] \in S
            BY <1>2
        <3> QED
            BY <3>1 DEF Elements
    <2> QED
        BY <2>1 DEF DocsAreReleased
<1>4. /\ docs' \in Seq(S) /\ Len(docs') <= MaxDocs /\ OneEach(docs')
      /\ \A d \in Elements(docs') :
             \/ d \in Elements(docs) /\ d.by # r
             \/ (d \in Elements(docs) \/ d.by = r) /\ Wanted(q.pc)
    <2>1. CASE docs' = docs /\ q.pc \in InExecute \union {"raised"}
        BY <1>2, <2>1
    <2>2. CASE docs' = OthersDocs(r)
        <3>1. Len(OthersDocs(r)) \in Nat /\ Len(docs) \in Nat /\ MaxDocs \in Nat
            BY <1>2, OthersStay, BoundsAssumption
        <3> QED
            BY <1>2, <2>2, <3>1, OthersStay
    <2>3. CASE q.pc \in InExecute /\ \E t \in Texts : docs' = Kept(r, t)
        BY <2>3, KeptWithinLimit
    <2> QED
        BY <2>1, <2>2, <2>3 DEF DocsMove
<1>5. ASSUME NEW d \in Elements(docs')
      PROVE  Wanted(req'[d.by].pc)
    <2>1. CASE d \in Elements(docs) /\ d.by # r
        BY <1>1, <1>3, <2>1
    <2>2. CASE (d \in Elements(docs) \/ d.by = r) /\ Wanted(q.pc)
        <3>1. CASE d.by = r
            BY <1>1, <2>2, <3>1
        <3>2. CASE d.by # r
            BY <1>1, <1>3, <2>2, <3>2
        <3> QED
            BY <3>1, <3>2
    <2> QED
        BY <1>4, <1>5, <2>1, <2>2
<1>6. DocsOK'
    BY <1>4 DEF DocsOK
<1>7. DocsAreReleased'
    BY <1>4, <1>5 DEF DocsAreReleased, OneEach, Elements
<1> QED
    BY <1>6, <1>7

(* The index a request has in hand, and all that it has accounted for. *)
Same(p, q) ==
    /\ q.known = p.known /\ q.seen = p.seen /\ q.added = p.added
    /\ q.existed = p.existed /\ q.queued = p.queued /\ q.troubles = p.troubles

(* A step that tells a request nothing of its candidates. *)
LEMMA PassesOn ==
    ASSUME PassInv, NEW r \in Requests, NEW q, req' = [req EXCEPT ![r] = q],
           UNCHANGED <<settings, lexicon, rejected, queue, job>>,
           DOMAIN q = Fields, Same(req[r], q),
           req[r].pc \in (InExecute \union Early) \ {"insert"},
           q.pc \in InExecute \ {"insert"}, q.pc \in Early => req[r].pc \in Early,
           q.pass \in 1..3, q.doc \in Texts \union {None}, Batch(q.found),
           DocsMove(r, q.pc), lastDoc' \in Texts \union {None}
    PROVE  PassInv'
<1>1. Shape(q)
    BY DEF Shape
<1>2. Good(r, req[r], lexicon) /\ RequestsOK /\ DocsOK /\ DocsAreReleased
    BY DEF PassInv, RequestsOK
<1>3. Accounted(q)
    BY <1>2 DEF Good, Accounted, Same
<1>4. OwnEntries(r, q, lexicon)
    BY <1>2 DEF Good, OwnEntries, Same
<1>5. RequestsOK'
    BY <1>1, <1>2, <1>3, <1>4, RequestsOKStep DEF Good
<1>6. DocsOK' /\ DocsAreReleased'
    BY <1>2, DocsStep
<1>7. QueueOK' /\ SecondCategoryIsExplained'
    BY DEF PassInv, QueueOK, SecondCategoryIsExplained, Visible
<1> QED
    BY <1>5, <1>6, <1>7 DEF PassInv

-----------------------------------------------------------------------------
(* The steps that tell a request nothing of its candidates                 *)

LEMMA IntakeStepsPassOn ==
    ASSUME PassInv, NEW r \in Requests,
           Intake(r) \/ TokenizeFails(r) \/ NoThirdPass(r) \/ UpsertMwes(r)
    PROVE  PassInv'
<1>1. PICK label :
          /\ req' = [req EXCEPT ![r].pc = label]
          /\ \/ req[r].pc = "new" /\ label = "tokenize"
             \/ req[r].pc = "tokenize" /\ label = "pop"
             \/ req[r].pc \in {"policy", "upsert"} /\ label = "release"
          /\ lastDoc' \in {None, lastDoc}
          /\ UNCHANGED <<settings, lexicon, rejected, queue, job, docs>>
    BY DEF Intake, TokenizeFails, NoThirdPass, UpsertMwes, Goto, At, store, async
<1>2. DOMAIN req[r] = Fields /\ Shape(req[r]) /\ lastDoc \in Texts \union {None}
    BY DEF PassInv, RequestsOK, Good, DocsOK
<1> DEFINE q == [req[r] EXCEPT !.pc = label]
<1>3. req' = [req EXCEPT ![r] = q]
    BY <1>1
<1>4. /\ DOMAIN q = Fields /\ q.pc = label /\ q.pass = req[r].pass /\ q.doc = req[r].doc
      /\ q.found = req[r].found /\ Same(req[r], q)
    BY <1>2 DEF Fields, Same
<1> HIDE DEF q
<1>5. DocsMove(r, q.pc)
    BY <1>1, <1>4 DEF DocsMove, InExecute
<1> QED
    BY <1>1, <1>2, <1>3, <1>4, <1>5, PassesOn DEF Shape, InExecute, Early

LEMMA TokenizePassesOn ==
    ASSUME PassInv, NEW r \in Requests, Tokenize(r)
    PROVE  PassInv'
<1>1. PICK whole :
          /\ req' = [req EXCEPT ![r].pc = "pop", ![r].found = Tokens[TextOf[r]],
                                ![r].cacheable = whole]
          /\ lastDoc' \in {None, TextOf[r]}
    BY DEF Tokenize
<1>2. req[r].pc = "tokenize" /\ UNCHANGED <<settings, lexicon, rejected, queue, job, docs>>
    BY DEF Tokenize, At, store, async
<1>3. DOMAIN req[r] = Fields /\ Shape(req[r])
    BY DEF PassInv, RequestsOK, Good
<1>4. TextOf[r] \in Texts /\ Batch(Tokens[TextOf[r]])
    BY TextAssumption, TextsAreBatches
<1> DEFINE q == [req[r] EXCEPT !.pc = "pop", !.found = Tokens[TextOf[r]],
                               !.cacheable = whole]
<1>5. req' = [req EXCEPT ![r] = q]
    BY <1>1
<1>6. /\ DOMAIN q = Fields /\ q.pc = "pop" /\ q.pass = req[r].pass /\ q.doc = req[r].doc
      /\ q.found = Tokens[TextOf[r]] /\ Same(req[r], q)
    BY <1>3 DEF Fields, Same
<1> HIDE DEF q
<1>7. DocsMove(r, q.pc)
    BY <1>2, <1>6 DEF DocsMove, InExecute
<1> QED
    BY <1>1, <1>2, <1>3, <1>4, <1>5, <1>6, <1>7, PassesOn DEF Shape, InExecute, Early

LEMMA DocPassesOn ==
    ASSUME PassInv, NEW r \in Requests, PopLastDoc(r) \/ CacheDoc(r)
    PROVE  PassInv'
<1>1. DOMAIN req[r] = Fields /\ Shape(req[r]) /\ lastDoc \in Texts \union {None}
    BY DEF PassInv, RequestsOK, Good, DocsOK
<1>2. UNCHANGED <<settings, lexicon, rejected, queue, job>>
    BY DEF PopLastDoc, CacheDoc, store, async
<1>3. CASE PopLastDoc(r)
    <2> DEFINE q == [req[r] EXCEPT !.pc = "stages", !.doc = lastDoc]
    <2>1. req' = [req EXCEPT ![r] = q]
        BY <1>3 DEF PopLastDoc
    <2>2. /\ DOMAIN q = Fields /\ q.pc = "stages" /\ q.pass = req[r].pass
          /\ q.doc = lastDoc /\ q.found = req[r].found /\ Same(req[r], q)
        BY <1>1 DEF Fields, Same
    <2> HIDE DEF q
    <2>3. req[r].pc = "pop" /\ docs' = docs /\ lastDoc' = None
        BY <1>3 DEF PopLastDoc, At
    <2>4. DocsMove(r, q.pc)
        BY <2>2, <2>3 DEF DocsMove, InExecute
    <2> QED
        BY <1>1, <1>2, <2>1, <2>2, <2>3, <2>4, PassesOn DEF Shape, InExecute, Early
<1>4. CASE CacheDoc(r)
    <2> DEFINE q == [req[r] EXCEPT !.pc = "index", !.doc = None, !.cacheable = FALSE]
    <2>1. req' = [req EXCEPT ![r] = q]
        BY <1>4 DEF CacheDoc
    <2>2. /\ DOMAIN q = Fields /\ q.pc = "index" /\ q.pass = req[r].pass
          /\ q.doc = None /\ q.found = req[r].found /\ Same(req[r], q)
        BY <1>1 DEF Fields, Same
    <2> HIDE DEF q
    <2>3. req[r].pc = "stages" /\ lastDoc' = lastDoc
        BY <1>4 DEF CacheDoc, At
    <2>4. DocsMove(r, q.pc)
        <3>1. docs' = docs \/ (req[r].doc # None /\ docs' = Kept(r, req[r].doc))
            BY <1>4 DEF CacheDoc
        <3>2. req[r].doc # None => req[r].doc \in Texts
            BY <1>1 DEF Shape
        <3> QED
            BY <2>2, <3>1, <3>2 DEF DocsMove, InExecute
    <2> QED
        BY <1>1, <1>2, <2>1, <2>2, <2>3, <2>4, PassesOn DEF Shape, InExecute, Early
<1> QED
    BY <1>3, <1>4

(* The second pass reads a text of some request. *)
LEMMA DocForIsAText ==
    ASSUME DocsOK, NEW r \in Requests
    PROVE  DocFor(r) \in Texts
<1> DEFINE S == [by : Requests, text : Texts, doc : Texts]
           own == {d \in Elements(docs) : d.by = r /\ d.text = TextOf[r]}
<1>1. own \subseteq S
    <2>1. docs \in Seq(S)
        BY DEF DocsOK
    <2> HIDE DEF S
    <2>2. DOMAIN docs = 1..Len(docs) /\ \A n \in 1..Len(docs) : docs[n] \in S
        BY <2>1
    <2> QED
        BY <2>2 DEF Elements
<1>2. CASE own = {}
    <2>1. DocFor(r) = TextOf[r]
        BY <1>2 DEF DocFor
    <2> QED
        BY <2>1, TextAssumption
<1>3. CASE own # {}
    <2>1. (CHOOSE d \in own : TRUE) \in own
        BY <1>3
    <2>2. PICK d \in own : d = CHOOSE x \in own : TRUE
        BY <2>1
    <2>3. DocFor(r) = d.doc
        BY <1>3, <2>2 DEF DocFor
    <2>4. d \in S
        BY <1>1, <2>2
    <2> QED
        BY <2>3, <2>4
<1> QED
    BY <1>2, <1>3

LEMMA SecondPassPassesOn ==
    ASSUME PassInv, NEW r \in Requests, SecondPass(r)
    PROVE  PassInv'
<1>1. PICK found \in {Detected(DocFor(r)), <<>>}, readings \in SUBSET Reading, llm \in BOOLEAN :
          req' = [req EXCEPT
              ![r].pc = IF req[r].sync /\ Accepted(found) # <<>> THEN "sync" ELSE "policy",
              ![r].pass = 2, ![r].found = found,
              ![r].allowed = llm /\ ValidationAllows(found, readings)]
    BY Zenon DEF SecondPass
<1>2. /\ req[r].pc = "second" /\ docs' = OthersDocs(r)
      /\ UNCHANGED <<settings, lexicon, rejected, queue, job, lastDoc>>
    BY DEF SecondPass, At, store, async
<1>3. DOMAIN req[r] = Fields /\ Shape(req[r]) /\ lastDoc \in Texts \union {None} /\ DocsOK
    BY DEF PassInv, RequestsOK, Good, DocsOK
<1>4. Batch(found)
    <2>1. DocFor(r) \in Texts
        BY <1>3, DocForIsAText
    <2>2. Batch(Detected(DocFor(r)))
        BY <2>1, DetectedIsBatch
    <2> QED
        BY <2>2, ShortBatches
<1> DEFINE label == IF req[r].sync /\ Accepted(found) # <<>> THEN "sync" ELSE "policy"
           allowed == llm /\ ValidationAllows(found, readings)
<1> DEFINE q == [req[r] EXCEPT !.pc = label, !.pass = 2, !.found = found,
                               !.allowed = allowed]
<1>5. req' = [req EXCEPT ![r] = q]
    BY <1>1
<1>6. label \in {"sync", "policy"}
    OBVIOUS
<1> HIDE DEF label, allowed
<1>7. /\ DOMAIN q = Fields /\ q.pc = label /\ q.pass = 2
      /\ q.doc = req[r].doc /\ q.found = found /\ Same(req[r], q)
    BY <1>3 DEF Fields, Same
<1> HIDE DEF q
<1>8. DocsMove(r, q.pc)
    BY <1>2 DEF DocsMove
<1>9. /\ req[r].pc \in (InExecute \union Early) \ {"insert"}
      /\ q.pc \in InExecute \ {"insert"} /\ q.pc \notin Early
    BY <1>2, <1>6, <1>7 DEF InExecute, Early
<1>10. /\ q.pass \in 1..3 /\ q.doc \in Texts \union {None} /\ Batch(q.found)
       /\ lastDoc' \in Texts \union {None}
    BY <1>2, <1>3, <1>4, <1>7 DEF Shape
<1> QED
    BY <1>2, <1>5, <1>7, <1>8, <1>9, <1>10, PassesOn

LEMMA LaterPassesPassOn ==
    ASSUME PassInv, NEW r \in Requests, NoSecondPass(r) \/ ThirdPass(r)
    PROVE  PassInv'
<1>1. PICK label, pass, found :
          /\ req' = [req EXCEPT ![r].pc = label, ![r].pass = pass, ![r].found = found]
          /\ label \in {"policy", "sync", "upsert", "release"} /\ pass \in 1..3
          /\ found = <<>> \/ \E c \in LlmFinds : found = <<c>>
    <2>1. CASE NoSecondPass(r)
        <3>1. DOMAIN req[r] = Fields /\ req[r].pass \in 1..3
            BY DEF PassInv, RequestsOK, Good, Shape
        <3>2. [req[r] EXCEPT !.pc = "policy", !.found = <<>>]
                  = [req[r] EXCEPT !.pc = "policy", !.pass = req[r].pass, !.found = <<>>]
            BY <3>1 DEF Fields
        <3>3. req' = [req EXCEPT ![r] = [req[r] EXCEPT !.pc = "policy", !.found = <<>>]]
            BY <2>1 DEF NoSecondPass
        <3>4. req' = [req EXCEPT ![r].pc = "policy", ![r].pass = req[r].pass,
                                 ![r].found = <<>>]
            BY <3>2, <3>3
        <3> QED
            BY <3>1, <3>4
    <2>2. CASE ThirdPass(r)
        <3>1. PICK found \in {<<>>} \union {<<c>> : c \in LlmFinds} :
                  req' = [req EXCEPT
                     ![r].pc = IF ~req[r].sync THEN "release"
                               ELSE IF Accepted(found) # <<>> THEN "sync" ELSE "upsert",
                     ![r].pass = 3, ![r].found = found]
            BY <2>2, Zenon DEF ThirdPass
        <3> DEFINE label == IF ~req[r].sync THEN "release"
                            ELSE IF Accepted(found) # <<>> THEN "sync" ELSE "upsert"
        <3>2. label \in {"release", "sync", "upsert"}
            OBVIOUS
        <3>3. req' = [req EXCEPT ![r].pc = label, ![r].pass = 3, ![r].found = found]
            BY <3>1
        <3> HIDE DEF label
        <3>4. found = <<>> \/ \E c \in LlmFinds : found = <<c>>
            BY <3>1
        <3>5. label \in {"policy", "sync", "upsert", "release"} /\ 3 \in 1..3
            BY <3>2
        <3> QED
            BY <3>3, <3>4, <3>5, Zenon
    <2> QED
        BY <2>1, <2>2
<1>2. /\ req[r].pc \in {"second", "policy"}
      /\ UNCHANGED <<settings, lexicon, rejected, queue, job, docs, lastDoc>>
    BY DEF NoSecondPass, ThirdPass, At, store, async
<1>3. DOMAIN req[r] = Fields /\ Shape(req[r]) /\ lastDoc \in Texts \union {None}
    BY DEF PassInv, RequestsOK, Good, DocsOK
<1>4. Batch(found)
    <2>1. \A c \in LlmFinds : c \in Candidates
        BY DEF Candidates
    <2>2. CASE found = <<>>
        BY <2>2, ShortBatches
    <2>3. CASE \E c \in LlmFinds : found = <<c>>
        BY <2>1, <2>3, ShortBatches
    <2> QED
        BY <1>1, <2>2, <2>3
<1> DEFINE q == [req[r] EXCEPT !.pc = label, !.pass = pass, !.found = found]
<1>5. req' = [req EXCEPT ![r] = q]
    BY <1>1
<1>6. /\ DOMAIN q = Fields /\ q.pc = label /\ q.pass = pass
      /\ q.doc = req[r].doc /\ q.found = found /\ Same(req[r], q)
    BY <1>3 DEF Fields, Same
<1> HIDE DEF q
<1>7. DocsMove(r, q.pc)
    BY <1>1, <1>2, <1>6 DEF DocsMove, InExecute
<1> QED
    BY <1>1, <1>2, <1>3, <1>4, <1>5, <1>6, <1>7, PassesOn DEF Shape, InExecute, Early

-----------------------------------------------------------------------------
(* The other steps                                                         *)

LEMMA PassInit == Init => PassInv
<1> SUFFICES ASSUME Init PROVE PassInv
    OBVIOUS
<1>1. /\ req = [r \in Requests |-> NewRequest] /\ lastDoc = None /\ docs = <<>>
      /\ queue = <<>> /\ job = None /\ \A e \in lexicon : e.by = None
    BY DEF Init
<1>2. /\ DOMAIN NewRequest = Fields /\ NewRequest.pc = "new" /\ NewRequest.pass = 1
      /\ NewRequest.doc = None /\ NewRequest.found = <<>> /\ NewRequest.seen = {}
    BY DEF NewRequest, Fields
<1>3. ASSUME NEW r \in Requests PROVE Good(r, NewRequest, lexicon)
    <2>1. Shape(NewRequest)
        BY <1>2, ShortBatches DEF Shape
    <2>2. Accounted(NewRequest)
        BY <1>2 DEF Accounted
    <2>3. OwnEntries(r, NewRequest, lexicon)
        BY <1>1, <1>2, NoneAssumption DEF OwnEntries
    <2> QED
        BY <2>1, <2>2, <2>3 DEF Good
<1>4. RequestsOK
    BY <1>1, <1>2, <1>3 DEF RequestsOK
<1>5. QueueOK /\ DocsOK
    BY <1>1 DEF QueueOK, DocsOK
<1>6. DocsAreReleased
    BY <1>1, BoundsAssumption DEF DocsAreReleased, Elements
<1>7. SecondCategoryIsExplained
    BY <1>1 DEF SecondCategoryIsExplained
<1> QED
    BY <1>4, <1>5, <1>6, <1>7 DEF PassInv

(* A step of a request that leaves the lexicon and the queue alone. *)
LEMMA RequestMoves ==
    ASSUME PassInv, NEW r \in Requests, NEW q, req' = [req EXCEPT ![r] = q],
           UNCHANGED <<settings, lexicon, rejected, queue, job>>,
           DOMAIN q = Fields, Good(r, q, lexicon),
           DocsMove(r, q.pc), lastDoc' \in Texts \union {None}
    PROVE  PassInv'
<1>1. RequestsOK /\ DocsOK /\ DocsAreReleased
    BY DEF PassInv
<1>2. RequestsOK'
    BY <1>1, RequestsOKStep
<1>3. DocsOK' /\ DocsAreReleased'
    BY <1>1, DocsStep
<1>4. QueueOK' /\ SecondCategoryIsExplained'
    BY DEF PassInv, QueueOK, SecondCategoryIsExplained, Visible
<1> QED
    BY <1>2, <1>3, <1>4 DEF PassInv

LEMMA OverIsGood ==
    ASSUME NEW r, NEW entries, NEW how \in {"answered", "raised"}
    PROVE  /\ DOMAIN [NewRequest EXCEPT !.pc = how] = Fields
           /\ Good(r, [NewRequest EXCEPT !.pc = how], entries)
           /\ [NewRequest EXCEPT !.pc = how].pc = how
<1> DEFINE q == [NewRequest EXCEPT !.pc = how]
<1>1. /\ DOMAIN q = Fields /\ q.pc = how /\ q.pass = 1 /\ q.doc = None
      /\ q.found = <<>> /\ q.seen = {}
    BY DEF NewRequest, Fields
<1> HIDE DEF q
<1>2. Shape(q)
    BY <1>1, ShortBatches DEF Shape
<1>3. Accounted(q)
    BY <1>1 DEF Accounted
<1>4. OwnEntries(r, q, entries)
    BY <1>1 DEF OwnEntries, Early, InExecute
<1>5. Good(r, q, entries)
    BY <1>2, <1>3, <1>4 DEF Good
<1> QED
    BY <1>1, <1>5 DEF q

LEMMA EndsPassOn ==
    ASSUME PassInv, NEW r \in Requests, Refused(r) \/ IntakeFails(r) \/ Release(r)
    PROVE  PassInv'
<1>1. PICK how \in {"answered", "raised"} :
          /\ req' = [req EXCEPT ![r] = [NewRequest EXCEPT !.pc = how]]
          /\ docs' = OthersDocs(r) \/ (how = "raised" /\ docs' = docs)
    BY DEF Refused, IntakeFails, Release, Over
<1>2. UNCHANGED <<settings, lexicon, rejected, queue, job, lastDoc>>
    BY DEF Refused, IntakeFails, Release, store, async
<1> DEFINE q == [NewRequest EXCEPT !.pc = how]
<1>3. req' = [req EXCEPT ![r] = q]
    BY <1>1
<1>4. DOMAIN q = Fields /\ Good(r, q, lexicon) /\ q.pc = how
    BY OverIsGood
<1> HIDE DEF q
<1>5. DocsMove(r, q.pc) /\ lastDoc' \in Texts \union {None}
    BY <1>1, <1>2, <1>4 DEF DocsMove, PassInv, DocsOK
<1> QED
    BY <1>2, <1>3, <1>4, <1>5, RequestMoves

LEMMA LoadIndexPassesOn ==
    ASSUME PassInv, NEW r \in Requests, LoadIndex(r)
    PROVE  PassInv'
<1>1. PICK label, sync, known :
          /\ req' = [req EXCEPT ![r].pc = label, ![r].sync = sync, ![r].known = known]
          /\ label \in {"sync", "second"}
    <2>1. PICK sync, index :
              req' = [req EXCEPT
                  ![r].pc = IF sync THEN "sync" ELSE "second", ![r].sync = sync,
                  ![r].known = IF sync /\ ~settings.async THEN index ELSE NoIndex]
        BY Zenon DEF LoadIndex
    <2> DEFINE label == IF sync THEN "sync" ELSE "second"
               known == IF sync /\ ~settings.async THEN index ELSE NoIndex
    <2>2. /\ req' = [req EXCEPT ![r].pc = label, ![r].sync = sync, ![r].known = known]
          /\ label \in {"sync", "second"}
        BY <2>1
    <2> HIDE DEF label, known
    <2> QED
        BY <2>2
<1>2. /\ req[r].pc = "index"
      /\ UNCHANGED <<settings, lexicon, rejected, queue, job, docs, lastDoc>>
    BY DEF LoadIndex, At, store, async
<1>3. DOMAIN req[r] = Fields /\ Good(r, req[r], lexicon)
    BY DEF PassInv, RequestsOK
<1> DEFINE q == [req[r] EXCEPT !.pc = label, !.sync = sync, !.known = known]
<1>4. req' = [req EXCEPT ![r] = q]
    BY <1>1
<1>5. /\ DOMAIN q = Fields /\ q.pc = label /\ q.pass = req[r].pass
      /\ q.doc = req[r].doc /\ q.found = req[r].found
      /\ q.seen = req[r].seen /\ q.added = req[r].added /\ q.existed = req[r].existed
      /\ q.queued = req[r].queued /\ q.troubles = req[r].troubles
    BY <1>3 DEF Fields
<1> HIDE DEF q
<1>6. Shape(q)
    BY <1>1, <1>3, <1>5 DEF Good, Shape, InExecute
<1>7. Accounted(q)
    BY <1>2, <1>3, <1>5 DEF Good, Accounted
<1>8. OwnEntries(r, q, lexicon)
    BY <1>1, <1>2, <1>3, <1>5 DEF Good, OwnEntries, Early
<1>9. DocsMove(r, q.pc) /\ lastDoc' \in Texts \union {None}
    BY <1>1, <1>2, <1>5 DEF DocsMove, InExecute, PassInv, DocsOK
<1> QED
    BY <1>2, <1>4, <1>5, <1>6, <1>7, <1>8, <1>9, RequestMoves DEF Good

(* The entries of a batch that the index does not have: one for a word,    *)
(* and for no word of the index.                                           *)
LEMMA FreshOnes ==
    ASSUME NEW cs, NEW known, Distinct(cs)
    PROVE  /\ Distinct(Fresh(cs, known))
           /\ \A x \in Fresh(cs, known) : x.word \notin known.words
<1>1. \A x \in Fresh(cs, known) : \E c \in cs :
          x = Resolved(c, known.categories) /\ c.word \notin known.words
    BY DEF Fresh
<1>2. \A c : Resolved(c, known.categories).word = c.word
    BY DEF Resolved
<1>3. \A x \in Fresh(cs, known) : \E c \in cs :
          x = Resolved(c, known.categories) /\ x.word = c.word /\ c.word \notin known.words
    BY <1>1, <1>2
<1>4. Distinct(Fresh(cs, known))
    BY <1>3 DEF Distinct
<1> QED
    BY <1>3, <1>4

(* However early the loop stops, it has reached elements of the batch. *)
LEMMA ReachedElements ==
    ASSUME NEW s \in Seq(Candidates), NEW n \in 0..Len(s)
    PROVE  /\ Elements(SubSeq(s, 1, n)) \subseteq Elements(s)
           /\ n = Len(s) => Elements(SubSeq(s, 1, n)) = Elements(s)
<1>1. Len(s) \in Nat /\ n \in Nat /\ n <= Len(s) /\ DOMAIN s = 1..Len(s)
    OBVIOUS
<1>2. \A i \in 1..n : s[i] \in Candidates
    BY <1>1
<1> DEFINE t == SubSeq(s, 1, n)
<1>3. t \in Seq(Candidates) /\ Len(t) = n /\ \A i \in 1..n : t[i] = s[i]
    BY <1>1, <1>2
<1> HIDE DEF t
<1>4. DOMAIN t = 1..n
    BY <1>3
<1>5. Elements(t) = {s[i] : i \in 1..n}
    BY <1>3, <1>4 DEF Elements
<1>6. Elements(s) = {s[i] : i \in 1..Len(s)}
    BY <1>1 DEF Elements
<1>7. \A i \in 1..n : i \in 1..Len(s)
    BY <1>1
<1>8. Elements(t) \subseteq Elements(s) /\ (n = Len(s) => Elements(t) = Elements(s))
    BY <1>5, <1>6, <1>7
<1> QED
    BY <1>8 DEF t

LEMMA ChoosePassesOn ==
    ASSUME PassInv, NEW r \in Requests, Choose(r)
    PROVE  PassInv'
<1>1. /\ req[r].pc = "sync" /\ ~settings.async
      /\ UNCHANGED <<settings, lexicon, rejected, queue, job, docs, lastDoc>>
    BY DEF Choose, At, async
<1>2. DOMAIN req[r] = Fields /\ Good(r, req[r], lexicon)
    BY DEF PassInv, RequestsOK
<1> DEFINE cs == Accepted(req[r].found)
           Reached(n) == Elements(SubSeq(cs, 1, n))
           New(n) == Fresh(Reached(n), req[r].known)
<1>3. PICK n \in 0..Len(cs) :
          req' = [req EXCEPT
               ![r].pc = IF New(n) = {} THEN AfterSync(req[r].pass) ELSE "insert",
               ![r].plan = New(n),
               ![r].known = Learned(req[r].known, New(n)),
               ![r].existed = @ \union (WordsOf(Reached(n)) \ WordsOf(New(n))),
               ![r].seen = @ \union WordsOf(Elements(cs)),
               ![r].troubles = @ \union TimedOut(n, cs)]
    BY Zenon DEF Choose
<1> DEFINE reached == Reached(n)
           new == New(n)
           label == IF new = {} THEN AfterSync(req[r].pass) ELSE "insert"
           seen == req[r].seen \union WordsOf(Elements(cs))
           troubles == req[r].troubles \union TimedOut(n, cs)
<1> DEFINE q == [req[r] EXCEPT
               !.pc = label, !.plan = new, !.known = Learned(req[r].known, new),
               !.existed = req[r].existed \union (WordsOf(reached) \ WordsOf(new)),
               !.seen = seen, !.troubles = troubles]
<1>4. req' = [req EXCEPT ![r] = q]
    BY <1>3
<1>5. Batch(cs)
    BY <1>2, AcceptedIsBatch DEF Good, Shape
<1>6. /\ reached \subseteq Elements(cs)
      /\ n = Len(cs) => reached = Elements(cs)
    BY <1>5, ReachedElements DEF Batch
<1>7. Distinct(reached)
    BY <1>5, <1>6 DEF Batch, Distinct
<1>8. Distinct(new) /\ \A x \in new : x.word \notin req[r].known.words
    BY <1>7, FreshOnes
<1>9. label = "insert" \/ (new = {} /\ label \in {"second", "policy", "upsert"})
    BY <1>2 DEF Good, Shape, AfterSync
<1>10. n = Len(cs) \/ troubles # {}
    <2>1. Len(cs) \in Nat
        BY <1>5 DEF Batch
    <2> QED
        BY <2>1 DEF TimedOut
<1>11. req[r].troubles \subseteq troubles
    OBVIOUS
<1>12. seen = req[r].seen \union WordsOf(Elements(cs))
    OBVIOUS
<1> HIDE DEF cs, reached, new, label, seen, troubles
<1>13. /\ DOMAIN q = Fields /\ q.pc = label /\ q.plan = new /\ q.pass = req[r].pass
       /\ q.doc = req[r].doc /\ q.found = req[r].found
       /\ q.known = Learned(req[r].known, new) /\ q.added = req[r].added
       /\ q.existed = req[r].existed \union (WordsOf(reached) \ WordsOf(new))
       /\ q.seen = seen /\ q.queued = req[r].queued /\ q.troubles = troubles
    BY <1>2 DEF Fields
<1> HIDE DEF q
<1>14. q.pc \in InExecute /\ q.pc \notin Early
    BY <1>9, <1>13 DEF InExecute, Early
<1>15. Shape(q)
    BY <1>2, <1>13, <1>14 DEF Good, Shape
<1>16. Accounted(q)
    <2>1. CASE req[r].troubles # {} \/ n # Len(cs)
        BY <1>10, <1>11, <1>13, <2>1 DEF Accounted
    <2>2. CASE req[r].troubles = {} /\ n = Len(cs)
        <3>1. req[r].seen \subseteq req[r].added \union req[r].existed \union req[r].queued
            BY <1>1, <1>2, <2>2 DEF Good, Accounted
        <3>2. WordsOf(new) \subseteq (IF q.pc = "insert" THEN WordsOf(q.plan) ELSE {})
            <4>1. new = {} => WordsOf(new) = {}
                BY DEF WordsOf
            <4> QED
                BY <1>9, <1>13, <4>1
        <3>3. WordsOf(reached) = WordsOf(Elements(cs))
            BY <1>6, <2>2
        <3> QED
            BY <1>12, <1>13, <3>1, <3>2, <3>3 DEF Accounted
    <2> QED
        BY <2>1, <2>2
<1>17. OwnEntries(r, q, lexicon)
    <2>1. q.known.words = req[r].known.words \union WordsOf(new)
        BY <1>13 DEF Learned
    <2>2. \A e \in lexicon : e.by = r => e.word \in req[r].known.words
        BY <1>1, <1>2 DEF Good, OwnEntries, InExecute
    <2>3. \A w \in WordsOf(new) : w \notin req[r].known.words
        BY <1>8 DEF WordsOf
    <2> QED
        BY <1>1, <1>8, <1>13, <1>14, <2>1, <2>2, <2>3 DEF OwnEntries
<1>18. DocsMove(r, q.pc) /\ lastDoc' \in Texts \union {None}
    BY <1>1, <1>14 DEF DocsMove, PassInv, DocsOK
<1> QED
    BY <1>1, <1>4, <1>13, <1>15, <1>16, <1>17, <1>18, RequestMoves DEF Good

(* The entries of an insert contradict nothing of the same request. *)
LEMMA InsertAdds ==
    ASSUME PassInv, NEW r \in Requests, req[r].pc = "insert", Adds(req[r].plan, r),
           UNCHANGED settings
    PROVE  /\ SecondCategoryIsExplained'
           /\ \A e \in lexicon' :
                 e \in lexicon \/ (e.by = r /\ e.word \in WordsOf(req[r].plan))
<1> DEFINE plan == req[r].plan
           Entry(x) == [word |-> x.word, category |-> x.category, by |-> r]
<1>1. \A e \in lexicon' : e \in lexicon \/ \E x \in plan : e = Entry(x)
    BY DEF Adds
<1>2. \A x : Entry(x).word = x.word /\ Entry(x).by = r
    OBVIOUS
<1>3. OwnEntries(r, req[r], lexicon) /\ SecondCategoryIsExplained
    BY DEF PassInv, RequestsOK, Good
<1> HIDE DEF plan, Entry
<1>4. /\ ~settings.async /\ Distinct(plan)
      /\ \A e \in lexicon : e.by = r => e.word \notin WordsOf(plan)
    BY <1>3 DEF OwnEntries, plan
<1>5. \A x \in plan : x.word \in WordsOf(plan)
    BY DEF WordsOf
<1>6. ASSUME NEW e \in lexicon', NEW f \in lexicon', e.by # None, e.word = f.word, e # f,
             e.by = f.by
      PROVE  FALSE
    <2>1. CASE e \in lexicon /\ f \in lexicon
        BY <1>3, <1>4, <1>6, <2>1 DEF SecondCategoryIsExplained
    <2>2. CASE e \notin lexicon /\ f \notin lexicon
        <3>1. PICK x \in plan : e = Entry(x)
            BY <1>1, <2>2
        <3>2. PICK y \in plan : f = Entry(y)
            BY <1>1, <2>2
        <3>3. x.word = y.word
            BY <1>2, <1>6, <3>1, <3>2
        <3>4. x = y
            BY <1>4, <3>3 DEF Distinct
        <3> QED
            BY <1>6, <3>1, <3>2, <3>4
    <2>3. CASE e \in lexicon /\ f \notin lexicon
        <3>1. PICK y \in plan : f = Entry(y)
            BY <1>1, <2>3
        <3> QED
            BY <1>2, <1>4, <1>5, <1>6, <2>3, <3>1
    <2>4. CASE e \notin lexicon /\ f \in lexicon
        <3>1. PICK x \in plan : e = Entry(x)
            BY <1>1, <2>4
        <3> QED
            BY <1>2, <1>4, <1>5, <1>6, <2>4, <3>1
    <2> QED
        BY <2>1, <2>2, <2>3, <2>4
<1>7. SecondCategoryIsExplained'
    BY <1>4, <1>6 DEF SecondCategoryIsExplained
<1>8. \A e \in lexicon' : e \in lexicon \/ (e.by = r /\ e.word \in WordsOf(plan))
    BY <1>1, <1>2, <1>5
<1> QED
    BY <1>7, <1>8 DEF plan

LEMMA InsertPassesOn ==
    ASSUME PassInv, NEW r \in Requests, Insert(r)
    PROVE  PassInv'
<1>1. /\ req[r].pc = "insert" /\ Adds(req[r].plan, r)
      /\ UNCHANGED <<settings, rejected, queue, job, docs, lastDoc>>
    BY DEF Insert, At, async
<1>2. DOMAIN req[r] = Fields /\ Good(r, req[r], lexicon) /\ RequestsOK
    BY DEF PassInv, RequestsOK
<1>3. /\ SecondCategoryIsExplained'
      /\ \A e \in lexicon' : e \in lexicon \/ (e.by = r /\ e.word \in WordsOf(req[r].plan))
    BY <1>1, InsertAdds
<1> DEFINE label == AfterSync(req[r].pass)
           added == req[r].added \union WordsOf(req[r].plan)
<1> DEFINE q == [req[r] EXCEPT !.pc = label, !.plan = {}, !.added = added]
<1>4. req' = [req EXCEPT ![r] = q]
    BY DEF Insert
<1>5. label \in {"second", "policy", "upsert"}
    BY <1>2 DEF Good, Shape, AfterSync
<1>6. added = req[r].added \union WordsOf(req[r].plan)
    OBVIOUS
<1> HIDE DEF label, added
<1>7. /\ DOMAIN q = Fields /\ q.pc = label /\ q.pass = req[r].pass /\ q.known = req[r].known
      /\ q.doc = req[r].doc /\ q.found = req[r].found /\ q.seen = req[r].seen
      /\ q.added = added /\ q.existed = req[r].existed
      /\ q.queued = req[r].queued /\ q.troubles = req[r].troubles
    BY <1>2 DEF Fields
<1> HIDE DEF q
<1>8. Shape(q)
    BY <1>2, <1>5, <1>7 DEF Good, Shape, InExecute
<1>9. Accounted(q)
    BY <1>1, <1>2, <1>6, <1>7 DEF Good, Accounted
<1>10. OwnEntries(r, q, lexicon')
    <2>1. /\ \A e \in lexicon : e.by = r => e.word \in req[r].known.words
          /\ ~settings.async
        BY <1>1, <1>2 DEF Good, OwnEntries, InExecute
    <2>2. WordsOf(req[r].plan) \subseteq req[r].known.words
        BY <1>1, <1>2 DEF Good, OwnEntries
    <2>3. \A e \in lexicon' : e.by = r => e.word \in req[r].known.words
        BY <1>3, <2>1, <2>2
    <2> QED
        BY <1>5, <1>7, <2>3 DEF OwnEntries, Early
<1>11. RequestsOK'
    BY <1>1, <1>2, <1>3, <1>4, <1>7, <1>8, <1>9, <1>10, RequestsOKStep DEF Good
<1>12. DocsMove(r, q.pc) /\ lastDoc' \in Texts \union {None}
    BY <1>1, <1>5, <1>7 DEF DocsMove, InExecute, PassInv, DocsOK
<1>13. DocsOK' /\ DocsAreReleased'
    BY <1>2, <1>4, <1>12, DocsStep DEF PassInv
<1>14. QueueOK'
    BY <1>1, <1>2 DEF PassInv, QueueOK, Good, OwnEntries
<1> QED
    BY <1>3, <1>11, <1>13, <1>14 DEF PassInv

LEMMA InsertFailsPassesOn ==
    ASSUME PassInv, NEW r \in Requests, InsertFails(r)
    PROVE  PassInv'
<1>1. /\ req[r].pc = "insert" /\ (Adds(req[r].plan, r) \/ UNCHANGED lexicon)
      /\ UNCHANGED <<settings, rejected, queue, job, docs, lastDoc>>
    BY DEF InsertFails, At, async
<1>2. Good(r, req[r], lexicon) /\ RequestsOK /\ req[r].pc = "insert"
    BY DEF PassInv, RequestsOK, InsertFails, At
<1>3. /\ SecondCategoryIsExplained'
      /\ \A e \in lexicon' : e \in lexicon \/ e.by = r
    <2>1. CASE Adds(req[r].plan, r)
        BY <1>1, <1>2, <2>1, InsertAdds
    <2>2. CASE UNCHANGED lexicon
        BY <1>1, <2>2 DEF PassInv, SecondCategoryIsExplained
    <2> QED
        BY <1>1, <2>1, <2>2
<1> DEFINE q == [NewRequest EXCEPT !.pc = "raised"]
<1>4. req' = [req EXCEPT ![r] = q]
    BY DEF InsertFails, Over
<1>5. DOMAIN q = Fields /\ Good(r, q, lexicon') /\ q.pc = "raised"
    BY OverIsGood
<1> HIDE DEF q
<1>6. RequestsOK'
    BY <1>1, <1>2, <1>3, <1>4, <1>5, RequestsOKStep
<1>7. DocsMove(r, q.pc) /\ lastDoc' \in Texts \union {None}
    BY <1>1, <1>5 DEF DocsMove, PassInv, DocsOK
<1>8. DocsOK' /\ DocsAreReleased'
    BY <1>2, <1>4, <1>7, DocsStep DEF PassInv
<1>9. QueueOK'
    BY <1>1, <1>2 DEF PassInv, QueueOK, Good, OwnEntries
<1> QED
    BY <1>3, <1>6, <1>8, <1>9 DEF PassInv

LEMMA EnqueuePassesOn ==
    ASSUME PassInv, NEW r \in Requests, Enqueue(r)
    PROVE  PassInv'
<1>1. /\ req[r].pc = "sync" /\ settings.async
      /\ UNCHANGED <<settings, lexicon, rejected, job, docs, lastDoc>>
    BY DEF Enqueue, At, store
<1>2. DOMAIN req[r] = Fields /\ Good(r, req[r], lexicon) /\ RequestsOK
    BY DEF PassInv, RequestsOK
<1> DEFINE cs == Accepted(req[r].found)
           words == WordsOf(Elements(cs))
<1>3. Batch(cs)
    BY <1>2, AcceptedIsBatch DEF Good, Shape
<1>4. cs = <<>> => words = {}
    BY DEF WordsOf, Elements
<1>5. /\ queue' = IF cs # <<>> /\ HasRoom
                  THEN Append(queue, [by |-> r, items |-> cs]) ELSE queue
      /\ req' = [req EXCEPT
            ![r].pc = AfterSync(req[r].pass),
            ![r].seen = @ \union words,
            ![r].queued = IF HasRoom THEN @ \union words ELSE @,
            ![r].troubles = IF cs = <<>> \/ HasRoom THEN @ ELSE @ \union {"rejected"}]
    BY DEF Enqueue
<1> DEFINE label == AfterSync(req[r].pass)
           seen == req[r].seen \union words
           queued == IF HasRoom THEN req[r].queued \union words ELSE req[r].queued
           troubles == IF cs = <<>> \/ HasRoom THEN req[r].troubles
                       ELSE req[r].troubles \union {"rejected"}
<1> DEFINE q == [req[r] EXCEPT !.pc = label, !.seen = seen, !.queued = queued,
                               !.troubles = troubles]
<1>6. req' = [req EXCEPT ![r] = q]
    BY <1>5
<1>7. label \in {"second", "policy", "upsert"}
    BY <1>2 DEF Good, Shape, AfterSync
<1>8. /\ troubles # {} \/ (seen \subseteq req[r].seen \union queued
                           /\ req[r].queued \subseteq queued)
      /\ req[r].troubles \subseteq troubles
    BY <1>4
<1> HIDE DEF cs, words, label, seen, queued, troubles
<1>9. /\ DOMAIN q = Fields /\ q.pc = label /\ q.pass = req[r].pass /\ q.known = req[r].known
      /\ q.doc = req[r].doc /\ q.found = req[r].found /\ q.seen = seen
      /\ q.added = req[r].added /\ q.existed = req[r].existed
      /\ q.queued = queued /\ q.troubles = troubles
    BY <1>2 DEF Fields
<1> HIDE DEF q
<1>10. Shape(q)
    BY <1>2, <1>7, <1>9 DEF Good, Shape, InExecute
<1>11. Accounted(q)
    BY <1>1, <1>2, <1>8, <1>9 DEF Good, Accounted
<1>12. OwnEntries(r, q, lexicon)
    BY <1>1, <1>7, <1>9 DEF OwnEntries
<1>13. RequestsOK'
    BY <1>1, <1>2, <1>6, <1>9, <1>10, <1>11, <1>12, RequestsOKStep DEF Good
<1>14. DocsMove(r, q.pc) /\ lastDoc' \in Texts \union {None}
    BY <1>1, <1>7, <1>9 DEF DocsMove, InExecute, PassInv, DocsOK
<1>15. DocsOK' /\ DocsAreReleased'
    BY <1>2, <1>6, <1>14, DocsStep DEF PassInv
<1>16. QueueOK'
    <2> DEFINE Jobs == [by : Requests, items : Seq(Candidates)]
    <2>1. PICK new \in Jobs : new = [by |-> r, items |-> cs]
        BY <1>3 DEF Batch
    <2>2. queue' = queue \/ queue' = Append(queue, new)
        BY <1>5, <2>1
    <2>3. queue \in Seq(Jobs) /\ \A n \in DOMAIN queue : Distinct(Elements(queue[n].items))
        BY DEF PassInv, QueueOK
    <2>4. Distinct(Elements(new.items))
        BY <1>3, <2>1 DEF Batch
    <2> HIDE DEF Jobs
    <2>5. CASE queue' = Append(queue, new)
        <3>1. /\ queue' \in Seq(Jobs) /\ DOMAIN queue = 1..Len(queue) /\ Len(queue) \in Nat
              /\ DOMAIN queue' = 1..(Len(queue) + 1)
              /\ \A n \in 1..Len(queue) : queue'[n] = queue[n]
              /\ queue'[Len(queue) + 1] = new
            BY <2>3, <2>5
        <3>2. ASSUME NEW n \in 1..(Len(queue) + 1)
              PROVE  Distinct(Elements(queue'[n].items))
            <4>1. n \in 1..Len(queue) \/ n = Len(queue) + 1
                BY <3>1
            <4> QED
                BY <2>3, <2>4, <3>1, <4>1
        <3>3. queue' \in Seq(Jobs) /\ \A n \in DOMAIN queue' : Distinct(Elements(queue'[n].items))
            BY <3>1, <3>2
        <3> QED
            BY <1>1, <3>3 DEF PassInv, QueueOK, Visible, Jobs
    <2>6. CASE queue' = queue
        BY <1>1, <2>6 DEF PassInv, QueueOK, Visible
    <2> QED
        BY <2>2, <2>5, <2>6
<1>17. SecondCategoryIsExplained'
    BY <1>1 DEF PassInv, SecondCategoryIsExplained
<1> QED
    BY <1>13, <1>15, <1>16, <1>17 DEF PassInv

(* The worker works for asynchronous syncs only, and with an index that    *)
(* nobody else makes stale.                                                *)
LEMMA WorkerPassesOn ==
    ASSUME PassInv, Worker
    PROVE  PassInv'
<1>1. UNCHANGED <<settings, docs, lastDoc, req>>
    BY DEF Worker, WorkerTakes, WorkerFails, WorkerAdds
<1>2. settings.async
    BY DEF Worker, WorkerTakes, WorkerFails, WorkerAdds, PassInv, QueueOK
<1>3. RequestsOK /\ DocsOK /\ DocsAreReleased /\ QueueOK /\ SecondCategoryIsExplained
    BY DEF PassInv
<1>4. DocsOK' /\ DocsAreReleased'
    BY <1>1, <1>3 DEF DocsOK, DocsAreReleased
<1>5. RequestsOK'
    <2>1. \A r \in Requests : OwnEntries(r, req[r], lexicon')
        BY <1>2, <1>3 DEF RequestsOK, Good, OwnEntries
    <2>2. \A r \in Requests : Good(r, req[r], lexicon')
        BY <1>3, <2>1 DEF RequestsOK, Good
    <2> QED
        BY <1>1, <1>3, <2>2 DEF RequestsOK, Good, OwnEntries, Shape, Accounted
<1>6. CASE WorkerTakes
    <2> DEFINE Jobs == [by : Requests, items : Seq(Candidates)]
    <2>1. /\ queue # <<>> /\ queue' = Tail(queue) /\ UNCHANGED lexicon
          /\ job' = [by |-> Head(queue).by, items |-> Head(queue).items, known |-> Index]
        BY <1>6 DEF WorkerTakes, store
    <2>2. queue \in Seq(Jobs) /\ \A n \in DOMAIN queue : Distinct(Elements(queue[n].items))
        BY <1>3 DEF QueueOK
    <2> HIDE DEF Jobs
    <2>3. /\ queue' \in Seq(Jobs) /\ DOMAIN queue = 1..Len(queue) /\ Len(queue) \in Nat \ {0}
          /\ DOMAIN queue' = 1..(Len(queue) - 1) /\ Head(queue) = queue[1]
          /\ \A n \in 1..(Len(queue) - 1) : queue'[n] = queue[n + 1]
        BY <2>1, <2>2
    <2>4. \A n \in DOMAIN queue' : Distinct(Elements(queue'[n].items))
        <3>1. \A n \in 1..(Len(queue) - 1) : n + 1 \in 1..Len(queue)
            BY <2>3
        <3> QED
            BY <2>2, <2>3, <3>1
    <2>5. queue[1] \in Jobs /\ Distinct(Elements(queue[1].items))
        <3>1. 1 \in 1..Len(queue)
            BY <2>3
        <3> QED
            BY <2>2, <2>3, <3>1
    <2>6. Batch(job'.items) /\ job'.known.words = WordsOf(Visible)
        BY <2>1, <2>3, <2>5 DEF Batch, Index, Jobs
    <2>7. WordsOf(Visible') = WordsOf(Visible) /\ rejected' = rejected
        BY <1>6, <2>1 DEF WorkerTakes, store, Visible
    <2>8. QueueOK'
        BY <1>1, <1>2, <2>3, <2>4, <2>6, <2>7 DEF QueueOK, Jobs
    <2>9. SecondCategoryIsExplained'
        BY <1>1, <1>3, <2>1, <2>7 DEF SecondCategoryIsExplained
    <2> QED
        BY <1>4, <1>5, <2>8, <2>9 DEF PassInv
<1>7. CASE WorkerFails \/ WorkerAdds
    <2>1. /\ job # None /\ job' = None /\ UNCHANGED <<queue, rejected>>
          /\ UNCHANGED lexicon \/ \E n \in 0..Len(job.items) : WorkerReaches(n)
        BY <1>7 DEF WorkerFails, WorkerAdds
    <2>2. QueueOK'
        BY <1>1, <1>2, <1>3, <2>1 DEF QueueOK
    <2>3. CASE UNCHANGED lexicon
        <3>1. SecondCategoryIsExplained'
            BY <1>1, <1>3, <2>1, <2>3 DEF SecondCategoryIsExplained
        <3> QED
            BY <1>3, <1>4, <1>5, <2>2, <3>1 DEF PassInv
    <2>4. CASE \E n \in 0..Len(job.items) : WorkerReaches(n)
        <3>1. Batch(job.items) /\ WordsOf(Visible) \subseteq job.known.words
            BY <1>3, <2>1 DEF QueueOK
        <3>2. PICK n \in 0..Len(job.items) : WorkerReaches(n)
            BY <2>4
        <3>3. Elements(SubSeq(job.items, 1, n)) \subseteq Elements(job.items)
            BY <3>1, ReachedElements DEF Batch
        <3>4. Distinct(Elements(SubSeq(job.items, 1, n)))
            BY <3>1, <3>3 DEF Batch, Distinct
        <3>5. PICK new : new = Fresh(Elements(SubSeq(job.items, 1, n)), job.known)
            OBVIOUS
        <3>6. Distinct(new) /\ \A x \in new : x.word \notin job.known.words
            BY <3>4, <3>5, FreshOnes
        <3> DEFINE Entry(x) == [word |-> x.word, category |-> x.category, by |-> job.by]
        <3>7. \A e \in lexicon' : e \in lexicon \/ \E x \in new : e = Entry(x)
            BY <3>2, <3>5 DEF WorkerReaches, Adds
        <3>8. \A x : Entry(x).word = x.word
            OBVIOUS
        <3> HIDE DEF Entry
        <3>9. \A x \in new, e \in lexicon : e.word = x.word => e \in rejected
            BY <3>1, <3>6 DEF Visible, WordsOf
        <3>10. ASSUME NEW e \in lexicon', NEW f \in lexicon',
                      e.by # None, e.word = f.word, e # f
               PROVE  {e, f} \intersect rejected # {}
            <4>1. CASE e \in lexicon /\ f \in lexicon
                BY <1>2, <1>3, <3>10, <4>1 DEF SecondCategoryIsExplained
            <4>2. CASE e \notin lexicon /\ f \notin lexicon
                BY <3>6, <3>7, <3>8, <3>10, <4>2 DEF Distinct
            <4>3. CASE (e \in lexicon /\ f \notin lexicon) \/ (e \notin lexicon /\ f \in lexicon)
                BY <3>7, <3>8, <3>9, <3>10, <4>3
            <4> QED
                BY <4>1, <4>2, <4>3
        <3>11. SecondCategoryIsExplained'
            BY <1>1, <1>2, <2>1, <3>10 DEF SecondCategoryIsExplained
        <3> QED
            BY <1>3, <1>4, <1>5, <2>2, <3>11 DEF PassInv
    <2> QED
        BY <2>1, <2>3, <2>4
<1> QED
    BY <1>6, <1>7 DEF Worker

(* A user who rejects an entry hides it from indexes yet to be loaded. *)
LEMMA RejectPassesOn ==
    ASSUME PassInv, Reject
    PROVE  PassInv'
<1>1. /\ UNCHANGED <<settings, lexicon, lastDoc, docs, queue, job, req>>
      /\ rejected \subseteq rejected'
    BY DEF Reject, async
<1>2. RequestsOK'
    BY <1>1 DEF PassInv, RequestsOK, Good, OwnEntries, Shape, Accounted
<1>3. WordsOf(Visible') \subseteq WordsOf(Visible)
    BY <1>1 DEF WordsOf, Visible
<1>4. QueueOK'
    BY <1>1, <1>3 DEF PassInv, QueueOK
<1>5. SecondCategoryIsExplained'
    BY <1>1 DEF PassInv, SecondCategoryIsExplained
<1>6. DocsOK' /\ DocsAreReleased'
    BY <1>1 DEF PassInv, DocsOK, DocsAreReleased
<1> QED
    BY <1>2, <1>4, <1>5, <1>6 DEF PassInv

LEMMA PassStep == PassInv /\ [Next]_vars => PassInv'
<1> SUFFICES ASSUME PassInv, [Next]_vars PROVE PassInv'
    OBVIOUS
<1>1. CASE Worker
    BY <1>1, WorkerPassesOn
<1>2. ASSUME NEW r \in Requests, Parse(r) PROVE PassInv'
    <2>1. CASE Intake(r) \/ TokenizeFails(r) \/ NoThirdPass(r) \/ UpsertMwes(r)
        BY <2>1, IntakeStepsPassOn
    <2>2. CASE Tokenize(r) \/ PopLastDoc(r) \/ CacheDoc(r)
        BY <2>2, TokenizePassesOn, DocPassesOn
    <2>3. CASE SecondPass(r) \/ NoSecondPass(r) \/ ThirdPass(r)
        BY <2>3, SecondPassPassesOn, LaterPassesPassOn
    <2>4. CASE Refused(r) \/ IntakeFails(r) \/ Release(r) \/ LoadIndex(r)
        BY <2>4, EndsPassOn, LoadIndexPassesOn
    <2>5. CASE Choose(r) \/ Insert(r) \/ InsertFails(r) \/ Enqueue(r)
        BY <2>5, ChoosePassesOn, InsertPassesOn, InsertFailsPassesOn, EnqueuePassesOn
    <2> QED
        BY <1>2, <2>1, <2>2, <2>3, <2>4, <2>5 DEF Parse
<1>3. CASE UNCHANGED vars
    <2>1. UNCHANGED <<settings, lexicon, rejected, lastDoc, docs, queue, job, req>>
        BY <1>3 DEF vars, store, async
    <2>2. RequestsOK'
        BY <2>1 DEF PassInv, RequestsOK, Good, OwnEntries, Shape, Accounted
    <2>3. QueueOK' /\ DocsOK' /\ DocsAreReleased' /\ SecondCategoryIsExplained'
        BY <2>1 DEF PassInv, QueueOK, DocsOK, DocsAreReleased, SecondCategoryIsExplained, Visible
    <2> QED
        BY <2>2, <2>3 DEF PassInv
<1>4. CASE Reject
    BY <1>4, RejectPassesOn
<1> QED
    BY <1>1, <1>2, <1>3, <1>4 DEF Next

LEMMA SpecPassInv == Spec => []PassInv
BY PassInit, PassStep, PTL DEF Spec

(* A parse that adds directly gives a word no second category beside one   *)
(* of its own, and the worker of the queue gives one to a word only when a *)
(* user has rejected one of the two entries.                               *)
THEOREM SpecSecondCategoryIsExplained == Spec => []SecondCategoryIsExplained
<1>1. PassInv => SecondCategoryIsExplained
    BY DEF PassInv
<1> QED
    BY SpecPassInv, <1>1, PTL

(* Every accepted candidate of a parse that comes to its end was added,    *)
(* was there or is queued, or the answer says why not.                     *)
THEOREM SpecNothingUnaccounted == Spec => []NothingUnaccounted
<1>1. PassInv => NothingUnaccounted
    BY DEF PassInv, RequestsOK, Good, Accounted, NothingUnaccounted
<1> QED
    BY SpecPassInv, <1>1, PTL

(* No more documents are kept than _request_doc_cache_limit, one for a     *)
(* request, and none for a request that was answered.                      *)
THEOREM SpecDocsAreReleased == Spec => []DocsAreReleased
<1>1. PassInv => DocsAreReleased
    BY DEF PassInv
<1> QED
    BY SpecPassInv, <1>1, PTL
=============================================================================
